-------------------------------- MODULE Asn1 --------------------------------
(***************************************************************************)
(* The primitive encodings of lib/ldapsrv/goldap (asn1.go, bytes.go) on    *)
(* byte sequences.  An offset counts the bytes already consumed, as in the *)
(* code.  A read yields [ok |-> TRUE, val |-> v, off |-> next offset] or   *)
(* Fail: the error the code returns, or the index panic that               *)
(* ldapsrv's decodeMessage turns into one.                                 *)
(***************************************************************************)
EXTENDS Integers, Sequences, SequencesExt

Universal == 0
Application == 1
ContextSpecific == 2

TagBoolean == 1
TagInteger == 2
TagOctetString == 4
TagEnum == 10
TagSequence == 16
TagSet == 17

Fail == [ok |-> FALSE]
Done(v, off) == [ok |-> TRUE, val |-> v, off |-> off]

Byte == 0..255
SignedByte == -128..127

\* The model keeps what is at most 31 bits wide; it has five digits in base 128.
MaxDigits == 5

\* What the k-th round of a loop that shifts digits out of v sees, and after
\* how many rounds it stops because what is left is in S.
Shifted(v, base) ==
  LET left[k \in 0..MaxDigits] == IF k = 0 THEN v ELSE left[k - 1] \div base IN left
Rounds(v, base, S) ==
  CHOOSE n \in 0..MaxDigits :
    /\ Shifted(v, base)[n] \in S
    /\ \A k \in 0..(n - 1) : Shifted(v, base)[k] \notin S

\* The last n bytes of v, the most significant one first.
BigEndian(v, n) == [j \in 1..n |-> Shifted(v, 256)[n - j] % 256]

(***************************************************************************)
(* Tags: the low five bits of the first byte, or base 128 digits after it, *)
(* at most five and the last one below 128.  TagCap saturates the number   *)
(* (a tag the code compares with is below 31).                             *)
(***************************************************************************)
TagCap == 1048576

ParseBase128Int(bs, off) ==
  LET ends == {n \in 1..5 : off + n <= Len(bs) /\ bs[off + n] < 128}
      last == CHOOSE n \in ends : \A m \in ends : n <= m
      val[n \in 0..5] ==
        IF n = 0 THEN 0
        ELSE LET v == val[n - 1] * 128 + (bs[off + n] % 128)
             IN IF v > TagCap THEN TagCap ELSE v
  IN IF ends = {} THEN Fail ELSE Done(val[last], off + last)

SizeBase128Int(value) == Rounds(value, 128, {0})

(***************************************************************************)
(* Lengths: one byte below 128, else the number of bytes and the bytes.    *)
(* The reader refuses the indefinite form, a leading zero and what would   *)
(* not fit 31 bits; it accepts a long form where the short one would do.   *)
(***************************************************************************)
ShiftLimit == 8388608   \* 1 << 23

\* The length after n bytes from off on, or -1 once there was an error.  The
\* first byte is not 0, so a fifth one always finds the length too large.
LengthAfter(bs, off) ==
  LET length[n \in 0..4] ==
        IF n = 0 THEN 0
        ELSE LET acc == length[n - 1]
             IN IF \/ acc = -1
                   \/ off + n > Len(bs)
                   \/ acc >= ShiftLimit
                   \/ acc * 256 + bs[off + n] = 0
                THEN -1
                ELSE acc * 256 + bs[off + n]
  IN length

ParseLengthClamped(bs, off) ==
  IF off >= Len(bs) THEN Fail
  ELSE LET left == Len(bs) - off - 1
       IN Done(IF bs[off + 1] > left THEN left ELSE bs[off + 1], off + 1)

ParseLength(bs, off) ==
  IF off >= Len(bs) THEN Fail
  ELSE LET b == bs[off + 1]
           n == b - 128
           length == IF n > 4 THEN -1 ELSE LengthAfter(bs, off + 1)[n]
       IN IF b < 128 THEN Done(b, off + 1)
          ELSE IF n = 0 \/ length = -1 THEN Fail
          ELSE Done(length, off + 1 + n)

ParseTagAndLength(bs, off) ==
  IF off >= Len(bs) THEN Fail
  ELSE LET b   == bs[off + 1]
           tag == IF b % 32 = 31 THEN ParseBase128Int(bs, off + 1)
                                 ELSE Done(b % 32, off + 1)
           len == IF tag.ok THEN ParseLength(bs, tag.off) ELSE Fail
       IN IF ~len.ok THEN Fail
          ELSE Done([class |-> b \div 64, compound |-> (b \div 32) % 2 = 1,
                     tag |-> tag.val, length |-> len.val], len.off)

WriteLength(length) ==
  IF length < 128 THEN <<length>>
  ELSE LET n == Rounds(length, 256, {0}) IN <<128 + n>> \o BigEndian(length, n)

\* The writer's header; LDAP has no tag above 30, and neither has the model.
WriteTagAndLength(class, compound, tag, length) ==
  <<class * 64 + (IF compound THEN 32 ELSE 0) + tag>> \o WriteLength(length)

\* The size the writer reserves for that header, computed on its own.
LengthExtra(length) == Rounds(length, 256, Byte)

SizeTagAndLengthShort(tag, length) ==
  2 + (IF length > 255 THEN 1 + LengthExtra(length) ELSE 0)

SizeTagAndLength(tag, length) ==
  1 + (IF tag >= 31 THEN SizeBase128Int(tag) ELSE 0)
    + 1 + (IF length >= 128 THEN 1 + LengthExtra(length) ELSE 0)

(***************************************************************************)
(* Values.                                                                 *)
(***************************************************************************)
ParseBool(bs) ==
  IF bs = <<0>> THEN Done(FALSE, 1)
  ELSE IF bs = <<255>> THEN Done(TRUE, 1)
  ELSE Fail

WriteBool(b) == IF b THEN <<255>> ELSE <<0>>

SizeBool == 1

\* The number in the bytes from off on after k of them, for a start of -1 or 0.
Int32After(bs, off, sign) ==
  LET val[k \in 0..4] == IF k = 0 THEN sign ELSE val[k - 1] * 256 + bs[off + k] IN val

ParseInt32Unsigned(bs) ==
  IF Len(bs) > 2 THEN Fail ELSE Done(Int32After(bs, 0, 0)[Len(bs)], Len(bs))

\* Two's complement; what does not fit int32 is refused, so of more than four
\* bytes the first ones must repeat the sign.
ParseInt32(bs) ==
  LET n    == Len(bs)
      skip == IF n > 4 THEN n - 4 ELSE 0
      sign == IF n > 0 /\ bs[skip + 1] > 127 THEN -1 ELSE 0
  IN IF n > 8 \/ \E i \in 1..skip : bs[i] # (IF sign = -1 THEN 255 ELSE 0)
     THEN Fail
     ELSE Done(Int32After(bs, skip, sign)[n - skip], n)

SizeInt32(i) == 1 + Rounds(i, 256, SignedByte)

WriteInt32(i) == BigEndian(i, SizeInt32(i))

\* A string is its bytes.
ParseOctetString(bs) == Done(bs, Len(bs))
WriteOctetString(s) == s
SizeOctetString(s) == Len(s)
=============================================================================
