------------------------------- MODULE Goldap -------------------------------
(***************************************************************************)
(* The LDAP messages of lib/ldapsrv/goldap.  Every ASN.1 type has a file   *)
(* with three functions, read, write and size, which walk the same         *)
(* components.  Here a type is a description of its components, and Read,  *)
(* Write and Size interpret descriptions: each line below a type name says *)
(* what the file of that type does with one component.                     *)
(*                                                                         *)
(* The state is one message on its way: composed by one side, written,     *)
(* possibly damaged (a client sends what it likes), read by the other.     *)
(***************************************************************************)
EXTENDS Asn1, FiniteSets, TLC

CONSTANTS Messages,     \* the messages that are composed
          Passwords,    \* values of PasswordModifyRequest among them
          DamageBytes   \* the bytes a damaged message may contain instead

VARIABLES stage,   \* "idle", "composed", "sent", "read", "answered"
          msg,     \* the message composed
          size,    \* the bytes Write reserves for it
          wire,    \* the bytes on their way
          cut,     \* the bytes were cut short
          intact,  \* nothing was changed
          got      \* what the reader made of them

vars == <<stage, msg, size, wire, cut, intact, got>>

-----------------------------------------------------------------------------
(***************************************************************************)
(* Descriptions of types.                                                  *)
(***************************************************************************)
\* values: those that bool, int and enum accept.
Prim(kind, tag, values) ==
  [kind |-> kind, class |-> Universal, tag |-> tag, values |-> values]
OCTETSTRING == Prim("octets", TagOctetString, {})
BOOLEANtype == Prim("bool", TagBoolean, BOOLEAN)
INTEGER(values) == Prim("int", TagInteger, values)
ENUMERATED(values) == Prim("enum", TagEnum, values)
NULL == Prim("null", 0, {})

Constructed(class, tag, fields) ==
  [kind |-> "sequence", class |-> class, tag |-> tag, fields |-> fields]
ListOf(class, tag, elem, min) ==
  [kind |-> "list", class |-> class, tag |-> tag, elem |-> elem, min |-> min,
   once |-> {}]
Explicit(class, tag, elem) ==
  [kind |-> "explicit", class |-> class, tag |-> tag, elem |-> elem]
Choice(alts) == [kind |-> "choice", alts |-> alts]
FilterRef == [kind |-> "filter"]   \* a filter inside a filter

\* The same type under another tag (readTagged, writeTagged, sizeTagged).
Tagged(type, class, tag) == [type EXCEPT !.class = class, !.tag = tag]
Context(type, tag) == Tagged(type, ContextSpecific, tag)

\* Components: always there; there when the next tag is theirs; there when
\* any data is left; read always but written only when TRUE.
Field(name, type, mode) == [name |-> name, type |-> type, mode |-> mode]
Req(name, type) == Field(name, type, "always")
Opt(name, type) == Field(name, type, "tag")
More(name, type) == Field(name, type, "more")
IfTrue(name, type) == Field(name, type, "iftrue")

-----------------------------------------------------------------------------
maxInt == 2147483647

LDAPString == OCTETSTRING
LDAPOID == OCTETSTRING
LDAPDN == LDAPString
RelativeLDAPDN == LDAPString
URI == LDAPString
AttributeDescription == LDAPString
MatchingRuleID == LDAPString
AttributeValue == OCTETSTRING
AssertionValue == OCTETSTRING
PositiveINTEGER == INTEGER(0..maxInt)
MessageID == PositiveINTEGER

AttributeValueAssertion == Constructed(Universal, TagSequence,
  << Req("attributeDesc", AttributeDescription),
     Req("assertionValue", AssertionValue) >>)

PartialAttributeMin(min) == Constructed(Universal, TagSequence,
  << Req("type", AttributeDescription),
     Req("vals", ListOf(Universal, TagSet, AttributeValue, min)) >>)
PartialAttribute == PartialAttributeMin(0)
Attribute == PartialAttributeMin(1)

PartialAttributeList == ListOf(Universal, TagSequence, PartialAttribute, 0)
AttributeList == ListOf(Universal, TagSequence, Attribute, 0)
AttributeSelection == ListOf(Universal, TagSequence, LDAPString, 0)
Referral == ListOf(Universal, TagSequence, URI, 1)

\* An explicit FALSE is refused: criticality is there only as TRUE.
Control == Constructed(Universal, TagSequence,
  << Req("controlType", LDAPOID),
     Opt("criticality", Prim("bool", TagBoolean, {TRUE})),
     More("controlValue", OCTETSTRING) >>)
Controls == ListOf(Universal, TagSequence, Control, 0)

EnumeratedLDAPResultCode ==
  (0..8) \cup (10..14) \cup (16..21) \cup {32, 33, 34, 36} \cup (48..54)
  \cup (64..69) \cup {71, 80}

LDAPResultComponents ==
  << Req("resultCode", ENUMERATED(EnumeratedLDAPResultCode)),
     Req("matchedDN", LDAPDN),
     Req("diagnosticMessage", LDAPString),
     Opt("referral", Context(Referral, 3)) >>
LDAPResult == Constructed(Universal, TagSequence, LDAPResultComponents)

-----------------------------------------------------------------------------
SaslCredentials == Constructed(Universal, TagSequence,
  << Req("mechanism", LDAPString), More("credentials", OCTETSTRING) >>)

AuthenticationChoice == Choice(
  << [alt |-> "simple", type |-> Context(OCTETSTRING, 0)],
     [alt |-> "sasl", type |-> Context(SaslCredentials, 3)] >>)

BindRequest == Constructed(Application, 0,
  << Req("version", INTEGER(1..127)),
     Req("name", LDAPDN),
     Req("authentication", AuthenticationChoice) >>)

BindResponse == Constructed(Application, 1,
  LDAPResultComponents \o << Opt("serverSaslCreds", Context(OCTETSTRING, 7)) >>)

UnbindRequest == Tagged(NULL, Application, 2)

SubstringAlternatives == Choice(
  << [alt |-> "initial", type |-> Context(AssertionValue, 0)],
     [alt |-> "any", type |-> Context(AssertionValue, 1)],
     [alt |-> "final", type |-> Context(AssertionValue, 2)] >>)

SubstringFilter == Constructed(Universal, TagSequence,
  << Req("type", AttributeDescription),
     Req("substrings",
         [ListOf(Universal, TagSequence, SubstringAlternatives, 1)
            EXCEPT !.once = {"initial", "final"}]) >>)

\* dnAttributes is DEFAULT FALSE and written only when TRUE; it is read as
\* if it were always there.
MatchingRuleAssertion == Constructed(Universal, TagSequence,
  << Opt("matchingRule", Context(MatchingRuleID, 1)),
     Opt("type", Context(AttributeDescription, 2)),
     Req("matchValue", Context(AssertionValue, 3)),
     IfTrue("dnAttributes", Context(BOOLEANtype, 4)) >>)

FilterAnd == ListOf(ContextSpecific, 0, FilterRef, 1)
FilterOr == ListOf(ContextSpecific, 1, FilterRef, 1)
FilterNot == Explicit(ContextSpecific, 2, FilterRef)
FilterEqualityMatch == Context(AttributeValueAssertion, 3)
FilterSubstrings == Context(SubstringFilter, 4)
FilterGreaterOrEqual == Context(AttributeValueAssertion, 5)
FilterLessOrEqual == Context(AttributeValueAssertion, 6)
FilterPresent == Context(AttributeDescription, 7)
FilterApproxMatch == Context(AttributeValueAssertion, 8)
FilterExtensibleMatch == Context(MatchingRuleAssertion, 9)

Filter == Choice(
  << [alt |-> "and", type |-> FilterAnd],
     [alt |-> "or", type |-> FilterOr],
     [alt |-> "not", type |-> FilterNot],
     [alt |-> "equalityMatch", type |-> FilterEqualityMatch],
     [alt |-> "substrings", type |-> FilterSubstrings],
     [alt |-> "greaterOrEqual", type |-> FilterGreaterOrEqual],
     [alt |-> "lessOrEqual", type |-> FilterLessOrEqual],
     [alt |-> "present", type |-> FilterPresent],
     [alt |-> "approxMatch", type |-> FilterApproxMatch],
     [alt |-> "extensibleMatch", type |-> FilterExtensibleMatch] >>)

SearchRequest == Constructed(Application, 3,
  << Req("baseObject", LDAPDN),
     Req("scope", ENUMERATED(0..2)),
     Req("derefAliases", ENUMERATED(0..3)),
     Req("sizeLimit", PositiveINTEGER),
     Req("timeLimit", PositiveINTEGER),
     Req("typesOnly", BOOLEANtype),
     Req("filter", Filter),
     Req("attributes", AttributeSelection) >>)

SearchResultEntry == Constructed(Application, 4,
  << Req("objectName", LDAPDN), Req("attributes", PartialAttributeList) >>)
SearchResultDone == Tagged(LDAPResult, Application, 5)
SearchResultReference == ListOf(Application, 19, URI, 1)

ModifyRequestChange == Constructed(Universal, TagSequence,
  << Req("operation", ENUMERATED(0..2)), Req("modification", PartialAttribute) >>)
ModifyRequest == Constructed(Application, 6,
  << Req("object", LDAPDN),
     Req("changes", ListOf(Universal, TagSequence, ModifyRequestChange, 0)) >>)
ModifyResponse == Tagged(LDAPResult, Application, 7)

AddRequest == Constructed(Application, 8,
  << Req("entry", LDAPDN), Req("attributes", AttributeList) >>)
AddResponse == Tagged(LDAPResult, Application, 9)

DelRequest == Tagged(LDAPDN, Application, 10)
DelResponse == Tagged(LDAPResult, Application, 11)

ModifyDNRequest == Constructed(Application, 12,
  << Req("entry", LDAPDN),
     Req("newrdn", RelativeLDAPDN),
     Req("deleteoldrdn", BOOLEANtype),
     Opt("newSuperior", Context(LDAPDN, 0)) >>)
ModifyDNResponse == Tagged(LDAPResult, Application, 13)

CompareRequest == Constructed(Application, 14,
  << Req("entry", LDAPDN), Req("ava", AttributeValueAssertion) >>)
CompareResponse == Tagged(LDAPResult, Application, 15)

AbandonRequest == Tagged(MessageID, Application, 16)

ExtendedRequest == Constructed(Application, 23,
  << Req("requestName", Context(LDAPOID, 0)),
     Opt("requestValue", Context(OCTETSTRING, 1)) >>)
ExtendedResponse == Constructed(Application, 24,
  LDAPResultComponents
  \o << Opt("responseName", Context(LDAPOID, 10)),
        Opt("responseValue", Context(OCTETSTRING, 11)) >>)
IntermediateResponse == Constructed(Application, 25,
  << Opt("responseName", Context(LDAPOID, 0)),
     Opt("responseValue", Context(OCTETSTRING, 1)) >>)

\* The value of an ExtendedRequest that changes a password.
PasswordModifyRequest == Constructed(Universal, TagSequence,
  << Opt("userIdentity", Context(OCTETSTRING, 0)),
     Opt("oldPassword", Context(OCTETSTRING, 1)),
     Opt("newPassword", Context(OCTETSTRING, 2)) >>)

ProtocolOp == Choice(
  << [alt |-> "BindRequest", type |-> BindRequest],
     [alt |-> "BindResponse", type |-> BindResponse],
     [alt |-> "UnbindRequest", type |-> UnbindRequest],
     [alt |-> "SearchRequest", type |-> SearchRequest],
     [alt |-> "SearchResultEntry", type |-> SearchResultEntry],
     [alt |-> "SearchResultDone", type |-> SearchResultDone],
     [alt |-> "SearchResultReference", type |-> SearchResultReference],
     [alt |-> "ModifyRequest", type |-> ModifyRequest],
     [alt |-> "ModifyResponse", type |-> ModifyResponse],
     [alt |-> "AddRequest", type |-> AddRequest],
     [alt |-> "AddResponse", type |-> AddResponse],
     [alt |-> "DelRequest", type |-> DelRequest],
     [alt |-> "DelResponse", type |-> DelResponse],
     [alt |-> "ModifyDNRequest", type |-> ModifyDNRequest],
     [alt |-> "ModifyDNResponse", type |-> ModifyDNResponse],
     [alt |-> "CompareRequest", type |-> CompareRequest],
     [alt |-> "CompareResponse", type |-> CompareResponse],
     [alt |-> "AbandonRequest", type |-> AbandonRequest],
     [alt |-> "ExtendedRequest", type |-> ExtendedRequest],
     [alt |-> "ExtendedResponse", type |-> ExtendedResponse],
     [alt |-> "IntermediateResponse", type |-> IntermediateResponse] >>)

LDAPMessage == Constructed(Universal, TagSequence,
  << Req("messageID", MessageID),
     Req("protocolOp", ProtocolOp),
     Opt("controls", Context(Controls, 0)) >>)

-----------------------------------------------------------------------------
(***************************************************************************)
(* Reading.                                                                *)
(***************************************************************************)
Compound(t) == t.kind \in {"sequence", "list", "explicit"}

Restricted(t, r) == IF r.ok /\ r.val \in t.values THEN r ELSE Fail

ReadPrimitive(t, bs) ==
  CASE t.kind = "octets" -> ParseOctetString(bs)
    [] t.kind = "bool"   -> Restricted(t, ParseBool(bs))
    [] t.kind \in {"int", "enum"} -> Restricted(t, ParseInt32(bs))
    [] t.kind = "null"   -> IF bs = << >> THEN Done("null", 0) ELSE Fail

NextTagIs(bs, off, tag) ==
  LET h == ParseTagAndLength(bs, off) IN h.ok /\ h.val.tag = tag

PresentUnchecked(f, bs, off) == f.mode = "tag" => NextTagIs(bs, off, f.type.tag)

\* An optional component is looked for when data is left, by its tag number.
Present(f, bs, off) ==
  CASE f.mode = "tag"  -> NextTagIs(bs, off, f.type.tag)
    [] f.mode = "more" -> off < Len(bs)
    [] OTHER           -> TRUE

RECURSIVE Read(_, _, _), ReadFields(_, _, _, _), ReadElements(_, _, _, _)

\* ReadSubBytes and ReadPrimitiveSubBytes: the header is the expected one,
\* the contents are there, and are used up.
Read(type, bs, off) ==
  IF type.kind = "filter" THEN Read(Filter, bs, off)
  ELSE IF type.kind = "choice"
  THEN LET h == ParseTagAndLength(bs, off)
           i == IF h.ok THEN SelectInSeq(type.alts, LAMBDA a : a.type.tag = h.val.tag) ELSE 0
           r == IF i = 0 THEN Fail ELSE Read(type.alts[i].type, bs, off)
       IN IF r.ok THEN Done([alt |-> type.alts[i].alt, val |-> r.val], r.off) ELSE Fail
  ELSE LET h   == ParseTagAndLength(bs, off)
           fit == h.ok /\ h.val.class = type.class /\ h.val.tag = type.tag
                  /\ h.val.compound = Compound(type)
                  /\ h.val.length <= Len(bs) - h.off
           sub == SubSeq(bs, h.off + 1, h.off + h.val.length)
           r   == IF ~fit THEN Fail
                  ELSE CASE type.kind = "sequence" -> ReadFields(type.fields, sub, 0, << >>)
                         [] type.kind = "list"     -> ReadElements(type, sub, 0, << >>)
                         [] type.kind = "explicit" -> Read(type.elem, sub, 0)
                         [] OTHER                  -> ReadPrimitive(type, sub)
       IN IF r.ok /\ r.off = h.val.length THEN Done(r.val, h.off + r.off) ELSE Fail

\* The components in order; a component that is absent is not in the value.
ReadFields(fields, bs, off, val) ==
  IF fields = << >> THEN Done(val, off)
  ELSE LET f == Head(fields)
       IN IF Present(f, bs, off)
          THEN LET r == Read(f.type, bs, off)
               IN IF r.ok THEN ReadFields(Tail(fields), bs, r.off, (f.name :> r.val) @@ val)
                          ELSE Fail
          ELSE ReadFields(Tail(fields), bs, off, val)

\* As many elements as there is data for.
ReadElements(t, bs, off, val) ==
  IF off >= Len(bs)
  THEN IF Len(val) >= t.min THEN Done(val, off) ELSE Fail
  ELSE LET r == Read(t.elem, bs, off)
           again == t.once # {} /\ r.ok /\ r.val.alt \in t.once
                    /\ \E i \in DOMAIN val : val[i].alt = r.val.alt
       IN IF r.ok /\ ~again THEN ReadElements(t, bs, r.off, Append(val, r.val)) ELSE Fail

\* ReadLDAPMessage on a whole packet.
ReadLDAPMessage(bs) == Read(LDAPMessage, bs, 0)

\* ExtendedRequest.PasswordModifyRequest: the value's leading sequence.
ReadPasswordModifyRequest(request) ==
  IF "requestValue" \in DOMAIN request
  THEN Read(PasswordModifyRequest, request.requestValue, 0)
  ELSE Fail

-----------------------------------------------------------------------------
(***************************************************************************)
(* Writing, and the sizes that are computed before writing.                *)
(***************************************************************************)
Written(f, val) ==
  CASE f.mode = "always" -> TRUE
    [] f.mode = "iftrue" -> val[f.name]
    [] OTHER             -> f.name \in DOMAIN val

Alternative(t, val) == t.alts[SelectInSeq(t.alts, LAMBDA a : a.alt = val.alt)].type

RECURSIVE Write(_, _), Size(_, _)

Write(type, val) ==
  IF type.kind = "filter" THEN Write(Filter, val)
  ELSE IF type.kind = "choice" THEN Write(Alternative(type, val), val.val)
  ELSE LET there == SelectSeq(type.fields, LAMBDA f : Written(f, val))
           body  == CASE type.kind = "sequence" ->
                           FlattenSeq([i \in DOMAIN there |-> Write(there[i].type, val[there[i].name])])
                      [] type.kind = "list" -> FlattenSeq([i \in DOMAIN val |-> Write(type.elem, val[i])])
                      [] type.kind = "explicit" -> Write(type.elem, val)
                      [] type.kind = "octets" -> WriteOctetString(val)
                      [] type.kind = "bool" -> WriteBool(val)
                      [] type.kind \in {"int", "enum"} -> WriteInt32(val)
                      [] type.kind = "null" -> << >>
       IN WriteTagAndLength(type.class, Compound(type), type.tag, Len(body)) \o body

SumSeq(s) == FoldLeft(LAMBDA a, b : a + b, 0, s)

Size(type, val) ==
  IF type.kind = "filter" THEN Size(Filter, val)
  ELSE IF type.kind = "choice" THEN Size(Alternative(type, val), val.val)
  ELSE LET there == SelectSeq(type.fields, LAMBDA f : Written(f, val))
           body  == CASE type.kind = "sequence" ->
                           SumSeq([i \in DOMAIN there |-> Size(there[i].type, val[there[i].name])])
                      [] type.kind = "list" -> SumSeq([i \in DOMAIN val |-> Size(type.elem, val[i])])
                      [] type.kind = "explicit" -> Size(type.elem, val)
                      [] type.kind = "octets" -> SizeOctetString(val)
                      [] type.kind = "bool" -> SizeBool
                      [] type.kind \in {"int", "enum"} -> SizeInt32(val)
                      [] type.kind = "null" -> 0
       IN body + SizeTagAndLength(type.tag, body)

-----------------------------------------------------------------------------
(***************************************************************************)
(* One message after the other.                                            *)
(***************************************************************************)
GoldapInit ==
  /\ stage = "idle" /\ msg = << >> /\ size = 0 /\ wire = << >>
  /\ cut = FALSE /\ intact = TRUE /\ got = Fail

Compose(m) ==
  /\ stage = "idle"
  /\ stage' = "composed" /\ msg' = m
  /\ UNCHANGED <<size, wire, cut, intact, got>>

\* LDAPMessage.Write: a buffer of size() bytes is filled from its end.  It
\* fails when the buffer is too short (a panic it recovers) or too long.
WriteMessage ==
  /\ stage = "composed"
  /\ stage' = "sent"
  /\ size' = Size(LDAPMessage, msg)
  /\ wire' = Write(LDAPMessage, msg)
  /\ UNCHANGED <<msg, cut, intact, got>>

Cut(n) ==
  /\ stage = "sent" /\ intact /\ n < Len(wire)
  /\ wire' = SubSeq(wire, 1, n)
  /\ cut' = TRUE /\ intact' = FALSE
  /\ UNCHANGED <<stage, msg, size, got>>

Change(i, b) ==
  /\ stage = "sent" /\ intact /\ wire[i] # b
  /\ wire' = [wire EXCEPT ![i] = b]
  /\ intact' = FALSE
  /\ UNCHANGED <<stage, msg, size, cut, got>>

ReadMessage ==
  /\ stage = "sent"
  /\ stage' = "read"
  /\ got' = ReadLDAPMessage(wire)
  /\ UNCHANGED <<msg, size, wire, cut, intact>>

\* The message has been dealt with.
Forget ==
  /\ stage \in {"read", "answered"}
  /\ stage' = "idle" /\ msg' = << >> /\ size' = 0 /\ wire' = << >>
  /\ cut' = FALSE /\ intact' = TRUE /\ got' = Fail

Transfer ==
  \/ \E m \in Messages : Compose(m)
  \/ WriteMessage
  \/ \E n \in 1..Len(wire) : Cut(n)
  \/ \E i \in 1..Len(wire), b \in DamageBytes : Change(i, b)
  \/ ReadMessage

GoldapNext == Transfer \/ Forget

GoldapSpec == GoldapInit /\ [][GoldapNext]_vars

-----------------------------------------------------------------------------
\* Whether a filter has a matching rule assertion without dnAttributes.
RECURSIVE DefaultDnAttributes(_)
DefaultDnAttributes(f) ==
  CASE f.alt \in {"and", "or"} -> \E i \in DOMAIN f.val : DefaultDnAttributes(f.val[i])
    [] f.alt = "not" -> DefaultDnAttributes(f.val)
    [] f.alt = "extensibleMatch" -> ~f.val.dnAttributes
    [] OTHER -> FALSE

ReadsBack(m, bytes) ==
  \/ /\ m.protocolOp.alt = "SearchRequest"
     /\ DefaultDnAttributes(m.protocolOp.val.filter)
  \/ ReadLDAPMessage(bytes) = Done(m, Len(bytes))

\* The password change in a message, as the server reads it, is the one that
\* was put in.
PasswordReads(m) ==
  \A p \in Passwords :
    /\ m.protocolOp.alt = "ExtendedRequest"
    /\ "requestValue" \in DOMAIN m.protocolOp.val
    /\ m.protocolOp.val.requestValue = Write(PasswordModifyRequest, p)
    => LET r == ReadPasswordModifyRequest(m.protocolOp.val) IN r.ok /\ r.val = p

(***************************************************************************)
(* RoundTrip: a message that was written and arrives as it was is read as  *)
(* the message composed, whatever optional components it has and on which  *)
(* side of a length or integer boundary its parts are; a password change   *)
(* inside it is read with each of its parts in its place, whichever are    *)
(* left out.  The exception is the one type whose reader and writer        *)
(* disagree: a matching rule assertion without dnAttributes.               *)
(***************************************************************************)
RoundTrip ==
  stage = "read" /\ intact =>
    \/ got.ok /\ got.val = msg /\ PasswordReads(got.val)
    \/ /\ msg.protocolOp.alt = "SearchRequest"
       /\ DefaultDnAttributes(msg.protocolOp.val.filter)

(***************************************************************************)
(* SizeIsWritten: the size functions, which are written apart from the     *)
(* write functions, announce exactly the bytes that are written, so that   *)
(* Write neither runs out of its buffer nor leaves part of it empty.       *)
(***************************************************************************)
SizeIsWritten == stage = "sent" /\ ~cut => size = Len(wire)

(***************************************************************************)
(* CutIsRefused: no proper prefix of a message is taken for a message.     *)
(***************************************************************************)
CutIsRefused == stage = "read" /\ cut => ~got.ok

\* An integer of no bytes is read as 0, and written in one byte.
EmptyIntegerHeaders ==
  [class : {Universal}, tag : {TagInteger, TagEnum}, compound : {FALSE}, length : {0}]
  \cup [class : {Application}, tag : {AbandonRequest.tag}, compound : {FALSE}, length : {0}]
EmptyInteger(bs) ==
  \E off \in 0..(Len(bs) - 1) :
    LET h == ParseTagAndLength(bs, off) IN h.ok /\ h.val \in EmptyIntegerHeaders

(***************************************************************************)
(* AcceptedIsStable: whatever bytes are accepted as a message, writing     *)
(* that message and reading it again gives the same message: the reader    *)
(* invents nothing that the writer cannot say.  It takes no more bytes,    *)
(* unless an integer came without any.                                     *)
(***************************************************************************)
AcceptedIsStable ==
  stage = "read" /\ got.ok =>
    \A bytes \in {Write(LDAPMessage, got.val)} :
      /\ ReadsBack(got.val, bytes)
      /\ Len(bytes) <= Len(wire) \/ EmptyInteger(wire)
=============================================================================
