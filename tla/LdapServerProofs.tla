-------------------------- MODULE LdapServerProofs --------------------------
(***************************************************************************)
(* Proofs about LdapServer for any connections and requests, and           *)
(* about the encodings that its messages are made of.                      *)
(*                                                                         *)
(* Ordered follows the responses: as long as the notifier has not sent,    *)
(* the output of a connection is exactly what is expected, and afterwards  *)
(* it has the notice at one place; handlers start with nothing to send.    *)
(* A failed write freezes what was sent, a beginning of all this.          *)
(* Counting ties the server's wait group to the connections being served,  *)
(* so that a wait that is over leaves only connections that had not        *)
(* counted themselves.                                                     *)
(***************************************************************************)
EXTENDS LdapServer, Asn1, FiniteSetTheorems, SequenceTheorems, TLAPS

-----------------------------------------------------------------------------
(* Types *)

LEMMA ResponseTypes ==
  ASSUME NEW id \in 0..MaxRequests
  PROVE  Notice \in Responses /\ Final(id) \in Responses /\ Entry(id) \in Responses
  BY LdapServerAssumption DEF Notice, Final, Entry, Responses

LEMMA TypeInit == Init => LdapServerTypeOK
  <1> SUFFICES ASSUME Init PROVE LdapServerTypeOK
    OBVIOUS
  <1> USE LdapServerAssumption DEF Init
  <1>1. /\ ctxDone \in BOOLEAN /\ gone \in [Conns -> BOOLEAN] /\ closing \in [Conns -> BOOLEAN]
        /\ outClosed \in [Conns -> BOOLEAN] /\ late \in [Conns -> BOOLEAN]
        /\ uncounted \in [Conns -> BOOLEAN] /\ broken \in [Conns -> BOOLEAN]
    OBVIOUS
  <1>2. sock \in [Conns -> [kind : Kinds \cup {"none", "eof"}, whole : BOOLEAN]]
    BY DEF Nothing
  <1>3. pipe \in [Conns -> Responses]
    BY ResponseTypes
  <1> QED
    BY <1>1, <1>2, <1>3 DEF LdapServerTypeOK

\* What a handler is about to send is made of responses.
LEMMA RespondType ==
  ASSUME LdapServerTypeOK, NEW c \in Conns, NEW rs \in Seq(Responses), Respond(c, rs)
  PROVE  LdapServerTypeOK'
  <1> USE DEF LdapServerTypeOK, Respond, serverVars, outVars
  <1>1. sock' \in [Conns -> [kind : Kinds \cup {"none", "eof"}, whole : BOOLEAN]]
    BY DEF Nothing
  <1>2. expected' \in [Conns -> Seq(Responses)] /\ todo' \in [Conns -> Seq(Responses)]
    BY ConcatProperties
  <1> QED
    BY <1>1, <1>2

LEMMA TypeNext == LdapServerTypeOK /\ [Next]_vars => LdapServerTypeOK'
  <1> SUFFICES ASSUME LdapServerTypeOK, [Next]_vars PROVE LdapServerTypeOK'
    OBVIOUS
  <1> USE LdapServerAssumption DEF serverVars, clientVars, outVars, history, connVars
  <1>1. CASE UNCHANGED vars
    BY <1>1 DEF vars, LdapServerTypeOK
  <1>2. CASE Stop \/ LoopTop \/ AcceptFails \/ WaitReturns \/ Drained \/ ShutdownDeadline \/ LateSend
    BY <1>2, ZenonT(40) DEF Stop, LoopTop, AcceptFails, WaitReturns, Drained, ShutdownDeadline, LateSend,
                LdapServerTypeOK
  <1>3. ASSUME NEW c \in Conns, Accept(c) PROVE LdapServerTypeOK'
    BY <1>3 DEF Accept, LdapServerTypeOK
  <1>4. ASSUME NEW c \in Conns, Client(c) PROVE LdapServerTypeOK'
    <2> USE DEF LdapServerTypeOK
    <2>1. ASSUME NEW k \in Kinds, NEW whole \in BOOLEAN, ClientSend(c, k, whole)
          PROVE LdapServerTypeOK'
      <3>1. [kind |-> k, whole |-> whole] \in [kind : Kinds \cup {"none", "eof"}, whole : BOOLEAN]
        OBVIOUS
      <3>2. nreq[c] + 1 \in 0..MaxRequests
        BY <2>1 DEF ClientSend
      <3> QED
        BY <2>1, <3>1, <3>2 DEF ClientSend
    <2>2. CASE ClientSendRest(c)
      <3>0. sock[c] = [kind |-> sock[c].kind, whole |-> sock[c].whole]
            /\ sock[c].kind \in Kinds \cup {"none", "eof"}
        OBVIOUS
      <3>1. [sock[c] EXCEPT !.whole = TRUE] \in [kind : Kinds \cup {"none", "eof"}, whole : BOOLEAN]
        BY <3>0, Zenon
      <3>2. sock' \in [Conns -> [kind : Kinds \cup {"none", "eof"}, whole : BOOLEAN]]
        BY <2>2, <3>1 DEF ClientSendRest
      <3> QED
        BY <2>2, <3>2 DEF ClientSendRest
    <2>3. CASE ClientHangsUp(c)
      <3>1. Eof \in [kind : Kinds \cup {"none", "eof"}, whole : BOOLEAN]
        BY DEF Eof
      <3>2. gone' \in [Conns -> BOOLEAN]
        BY <2>3 DEF ClientHangsUp
      <3> QED
        BY <2>3, <3>1, <3>2 DEF ClientHangsUp
    <2>4. CASE WriteDeadlinePasses(c)
      <3>1. late' \in [Conns -> BOOLEAN]
        BY <2>4 DEF WriteDeadlinePasses
      <3> QED
        BY <2>4, <3>1 DEF WriteDeadlinePasses
    <2> QED
      BY <1>4, <2>1, <2>2, <2>3, <2>4 DEF Client
  <1>5. ASSUME NEW c \in Conns, Serve(c) PROVE LdapServerTypeOK'
    <2>1. CASE HandleSearch(c) \/ HandleOther(c)
      <3>1. nreq[c] \in 0..MaxRequests
        BY DEF LdapServerTypeOK
      <3>2. <<Final(nreq[c])>> \in Seq(Responses)
        BY <3>1, ResponseTypes
      <3>3. ASSUME NEW n \in 0..MaxEntries
            PROVE  [i \in 1..n |-> Entry(nreq[c])] \o <<Final(nreq[c])>> \in Seq(Responses)
        <4>1. [i \in 1..n |-> Entry(nreq[c])] \in Seq(Responses)
          BY <3>1, ResponseTypes, IsASeq
        <4> QED
          BY <3>2, <4>1, ConcatProperties
      <3> QED
        BY <2>1, <3>2, <3>3, RespondType DEF HandleSearch, HandleOther
    <2> USE DEF LdapServerTypeOK, NextDeadline
    <2>2. CASE Begin(c)
      <3>1. late' \in [Conns -> BOOLEAN] /\ uncounted' \in [Conns -> BOOLEAN]
        BY <2>2 DEF Begin
      <3> QED
        BY <2>2, <3>1 DEF Begin
    <2>3. CASE ReadEnds(c) \/ ReadTimesOut(c) \/ ReadGarbage(c)
      <3>1. Nothing \in [kind : Kinds \cup {"none", "eof"}, whole : BOOLEAN]
        BY DEF Nothing
      <3>2. CASE ReadEnds(c)
        BY <3>1, <3>2 DEF ReadEnds
      <3>3. CASE ReadTimesOut(c)
        BY <3>3 DEF ReadTimesOut
      <3>4. CASE ReadGarbage(c)
        <4>1. late' \in [Conns -> BOOLEAN]
          BY <3>4 DEF ReadGarbage
        <4> QED
          BY <3>1, <3>4, <4>1 DEF ReadGarbage
      <3> QED
        BY <2>3, <3>2, <3>3, <3>4
    <2>4. CASE SendResponse(c)
      <3>1. Head(todo[c]) \in Responses /\ Tail(todo[c]) \in Seq(Responses)
        BY <2>4 DEF SendResponse
      <3> QED
        BY <2>4, <3>1 DEF SendResponse
    <2>5. CASE Handled(c)
      <3>1. late' \in [Conns -> BOOLEAN]
        BY <2>5 DEF Handled
      <3> QED
        BY <2>5, <3>1 DEF Handled
    <2>6. CASE Leave(c) \/ CloseWaited(c) \/ CloseOut(c) \/ CloseConn(c)
      <3>1. CASE Leave(c)
        <4>1. closing' \in [Conns -> BOOLEAN]
          BY <3>1 DEF Leave
        <4> QED
          BY <3>1, <4>1 DEF Leave
      <3>2. CASE CloseOut(c)
        <4>1. outClosed' \in [Conns -> BOOLEAN]
          BY <3>2 DEF CloseOut
        <4> QED
          BY <3>2, <4>1 DEF CloseOut
      <3>3. CASE CloseWaited(c) \/ CloseConn(c)
        BY <3>3, ZenonT(40) DEF CloseWaited, CloseConn
      <3> QED
        BY <2>6, <3>1, <3>2, <3>3
    <2> QED
      BY <1>5, <2>1, <2>2, <2>3, <2>4, <2>5, <2>6 DEF Serve
  <1>6. ASSUME NEW c \in Conns, Writer(c) PROVE LdapServerTypeOK'
    <2>1. CASE WriteMessage(c)
      <3>1. sent' \in [Conns -> Seq(Responses)]
        <4>1. Append(sent[c], pipe[c]) \in Seq(Responses)
          BY AppendProperties DEF LdapServerTypeOK
        <4>2. sent \in [Conns -> Seq(Responses)]
          BY DEF LdapServerTypeOK
        <4>3. sent' = [sent EXCEPT ![c] = Append(sent[c], pipe[c])] \/ sent' = sent
          BY <2>1 DEF WriteMessage
        <4> QED
          BY <4>1, <4>2, <4>3
      <3>2. writer' \in [Conns -> {"idle", "writing", "done"}]
        BY <2>1 DEF WriteMessage, LdapServerTypeOK
      <3>3. broken' \in [Conns -> BOOLEAN]
        BY <2>1 DEF WriteMessage, LdapServerTypeOK
      <3> QED
        BY <2>1, <3>1, <3>2, <3>3 DEF WriteMessage, LdapServerTypeOK
    <2>2. CASE WriterEnds(c)
      BY <2>2 DEF WriterEnds, LdapServerTypeOK
    <2> QED
      BY <1>6, <2>1, <2>2 DEF Writer
  <1>7. ASSUME NEW c \in Conns, Notifier(c) PROVE LdapServerTypeOK'
    <2>1. Notice \in Responses
      BY ResponseTypes
    <2>2. CASE NotifierStop(c)
      BY <2>2 DEF NotifierStop, LdapServerTypeOK
    <2>3. CASE NotifierQuit(c)
      BY <2>3 DEF NotifierQuit, LdapServerTypeOK
    <2>4. CASE NotifierSend(c)
      BY <2>1, <2>4 DEF NotifierSend, LdapServerTypeOK
    <2>5. CASE NotifierEnds(c)
      BY <2>5 DEF NotifierEnds, LdapServerTypeOK
    <2> QED
      BY <1>7, <2>2, <2>3, <2>4, <2>5 DEF Notifier
  <1> QED
    BY <1>1, <1>2, <1>3, <1>4, <1>5, <1>6, <1>7 DEF Next, Server

LEMMA TypeCorrect == Spec => []LdapServerTypeOK
  BY TypeInit, TypeNext, PTL DEF Spec

-----------------------------------------------------------------------------
(* What a graceful end means *)

Serving == {c \in Conns : pc[c] \in {"read", "handling", "leaving"}}

\* serve adds one and the deferred function takes it off again; when the wait
\* is over, whoever is served began later.
Counting ==
  /\ srvwg = Cardinality(Serving)
  /\ waiter \in {"ready", "done"} => \A c \in Serving : uncounted[c]
  /\ run = "graceful" => waiter = "done"

LEMMA CountingNext ==
  ASSUME LdapServerTypeOK, Counting, [Next]_vars PROVE Counting'
  <1> USE LdapServerAssumption DEF LdapServerTypeOK, Counting, serverVars, connVars, history
  <1>0. IsFiniteSet(Serving) /\ Cardinality(Serving) \in Nat
    BY FS_Subset, FS_CardinalityType DEF Serving
  <1>1. ASSUME Serving' = Serving, UNCHANGED <<srvwg, waiter, uncounted>>, run' = "graceful" => run = "graceful"
        PROVE  Counting'
    BY <1>1
  <1>2. CASE WaitReturns
    <2>1. Serving = {} /\ Serving' = Serving
      BY <1>0, <1>2, FS_EmptySet DEF WaitReturns, Serving
    <2> QED
      BY <1>2, <2>1 DEF WaitReturns
  <1>3. CASE Drained
    <2>1. Serving' = Serving
      BY <1>3 DEF Drained, Serving
    <2> QED
      BY <1>3, <2>1 DEF Drained
  <1>4. CASE LoopTop
    <2>1. Serving' = Serving
      BY <1>4 DEF LoopTop, Serving
    <2> QED
      BY <1>4, <2>1 DEF LoopTop
  <1>5. ASSUME NEW c \in Conns, Begin(c) PROVE Counting'
    <2>1. Serving' = Serving \cup {c} /\ c \notin Serving
      BY <1>5 DEF Begin, Serving
    <2>2. Cardinality(Serving') = Cardinality(Serving) + 1
      BY <1>0, <2>1, FS_AddElement
    <2>3. srvwg' = srvwg + 1 /\ UNCHANGED <<waiter, run>>
      BY <1>5 DEF Begin
    <2>4. waiter \in {"ready", "done"} => \A d \in Serving' : uncounted'[d]
      <3>1. uncounted'[c] = (waiter \in {"ready", "done"})
        BY <1>5 DEF Begin
      <3>2. \A d \in Serving : uncounted'[d] = uncounted[d]
        BY <1>5, <2>1 DEF Begin, Serving
      <3> QED
        BY <2>1, <3>1, <3>2
    <2> QED
      BY <2>2, <2>3, <2>4
  <1>6. ASSUME NEW c \in Conns, Leave(c) PROVE Counting'
    <2>1. Serving' = Serving \ {c} /\ c \in Serving
      BY <1>6 DEF Leave, Serving
    <2>2. Cardinality(Serving') = Cardinality(Serving) - 1
      BY <1>0, <2>1, FS_RemoveElement
    <2> QED
      BY <1>6, <2>1, <2>2 DEF Leave
  <1>7. ASSUME NEW c \in Conns,
               ReadEnds(c) \/ ReadTimesOut(c) \/ ReadGarbage(c) \/ SendResponse(c)
               \/ Handled(c) \/ CloseWaited(c) \/ CloseOut(c) \/ CloseConn(c) \/ Accept(c)
        PROVE  Counting'
    <2>1. Serving' = Serving
      BY <1>7, SMTT(30) DEF ReadEnds, ReadTimesOut, ReadGarbage, SendResponse, Handled, CloseWaited,
                  CloseOut, CloseConn, Accept, Serving
    <2>2. UNCHANGED <<srvwg, waiter, uncounted>> /\ (run' = "graceful" => run = "graceful")
      BY <1>7 DEF ReadEnds, ReadTimesOut, ReadGarbage, SendResponse, Handled, CloseWaited,
                  CloseOut, CloseConn, Accept
    <2> QED
      BY <1>1, <2>1, <2>2
  <1>8. ASSUME NEW c \in Conns, NEW rs, Respond(c, rs) PROVE Counting'
    <2>1. Serving' = Serving
      BY <1>8 DEF Respond, Serving
    <2>2. UNCHANGED <<srvwg, waiter, uncounted, run>>
      BY <1>8 DEF Respond
    <2> QED
      BY <1>1, <2>1, <2>2
  <1>9. ASSUME NEW c \in Conns, HandleSearch(c) \/ HandleOther(c) PROVE Counting'
    BY <1>8, <1>9 DEF HandleSearch, HandleOther
  <1>10. ASSUME NEW c \in Conns, Writer(c) \/ Notifier(c) \/ Client(c) PROVE Counting'
    <2>1. UNCHANGED <<pc, srvwg, waiter, uncounted, run>>
      BY <1>10 DEF Writer, Notifier, Client, WriteMessage, WriterEnds, NotifierStop, NotifierQuit,
                   NotifierSend, NotifierEnds, ClientSend, ClientSendRest, ClientHangsUp,
                   WriteDeadlinePasses
    <2> QED
      BY <1>1, <2>1 DEF Serving
  <1>11. CASE Stop \/ AcceptFails \/ ShutdownDeadline \/ LateSend \/ UNCHANGED vars
    <2>1. UNCHANGED <<pc, srvwg, waiter, uncounted>> /\ (run' = "graceful" => run = "graceful")
      BY <1>11 DEF Stop, AcceptFails, ShutdownDeadline, LateSend, vars
    <2> QED
      BY <1>1, <2>1 DEF Serving
  <1> QED
    BY <1>2, <1>3, <1>4, <1>5, <1>6, <1>7, <1>9, <1>10, <1>11 DEF Next, Server, Serve

\* When Run reports a graceful end, every connection has left its loop, but for
\* the ones that had not counted themselves when the wait was over.
THEOREM GracefulEnd == Spec => []GracefulUnlessUncounted
  <1>1. Init => Counting
    <2> SUFFICES ASSUME Init PROVE Counting
      OBVIOUS
    <2>1. Serving = {} /\ srvwg = 0 /\ waiter = "none" /\ run = "top"
      BY DEF Init, Serving
    <2> QED
      BY <2>1, FS_EmptySet DEF Counting
  <1>2. Counting => GracefulUnlessUncounted
    BY DEF Counting, GracefulUnlessUncounted, Serving
  <1> QED
    BY <1>1, <1>2, CountingNext, TypeCorrect, PTL DEF Spec

-----------------------------------------------------------------------------
(* The order of the answers *)

\* The notice stands between two parts of the responses.
LEMMA NoticeSplits ==
  ASSUME NEW s \in Seq(Responses), NEW out \in WithNotice(s)
  PROVE  \E a, b \in Seq(Responses) : s = a \o b /\ out = a \o <<Notice>> \o b
  <1>1. PICK i \in 1..(Len(s) + 1) : out = InsertAt(s, i, Notice)
    BY DEF WithNotice
  <1>2. /\ SubSeq(s, 1, i - 1) \in Seq(Responses) /\ SubSeq(s, i, Len(s)) \in Seq(Responses)
        /\ Len(s) \in Nat
    BY SubSeqProperties, LenProperties
  <1>3. 1 \in 1..(Len(s) + 1) /\ i - 1 \in (1 - 1)..Len(s) /\ Len(s) \in (i - 1)..Len(s) /\ i - 1 + 1 = i
    BY <1>2
  <1>4. SubSeq(s, 1, i - 1) \o SubSeq(s, i - 1 + 1, Len(s)) = SubSeq(s, 1, Len(s))
    BY <1>3, ConcatAdjacentSubSeq
  <1>5. s = SubSeq(s, 1, i - 1) \o SubSeq(s, i, Len(s))
    BY <1>3, <1>4, SubSeqFull
  <1> QED
    BY <1>1, <1>2, <1>5, Zenon DEF InsertAt

LEMMA NoticeJoins ==
  ASSUME NEW a \in Seq(Responses), NEW b \in Seq(Responses)
  PROVE  a \o <<Notice>> \o b \in WithNotice(a \o b)
  <1> DEFINE all == a \o b
  <1>1. Len(all) = Len(a) + Len(b) /\ Len(a) \in Nat /\ Len(b) \in Nat
    BY ConcatProperties, LenProperties
  <1>2. SubSeq(all, 1, Len(a)) = a
    BY <1>1, SubSeqOfConcat1, SubSeqFull
  <1>3. SubSeq(all, Len(a) + 1, Len(all)) = b
    BY <1>1, SubSeqOfConcat2, SubSeqFull
  <1>4. Len(a) + 1 \in 1..(Len(all) + 1) /\ (Len(a) + 1) - 1 = Len(a)
    BY <1>1
  <1> HIDE DEF all
  <1>5. a \o <<Notice>> \o b = InsertAt(all, Len(a) + 1, Notice)
    <2>1. InsertAt(all, Len(a) + 1, Notice)
            = SubSeq(all, 1, (Len(a) + 1) - 1) \o <<Notice>> \o SubSeq(all, Len(a) + 1, Len(all))
      BY Zenon DEF InsertAt
    <2>2. SubSeq(all, 1, (Len(a) + 1) - 1) = a
      BY <1>2, <1>4
    <2> QED
      BY <1>3, <2>1, <2>2, Zenon
  <1>6. a \o <<Notice>> \o b \in WithNotice(all)
    BY <1>4, <1>5, Zenon DEF WithNotice
  <1> QED
    BY <1>6 DEF all

\* It stays there when more responses follow.
LEMMA NoticeThenMore ==
  ASSUME NEW s \in Seq(Responses), NEW t \in Seq(Responses), NEW out \in WithNotice(s)
  PROVE  out \o t \in WithNotice(s \o t)
  <1>1. PICK a \in Seq(Responses), b \in Seq(Responses) : s = a \o b /\ out = a \o <<Notice>> \o b
    BY NoticeSplits, Zenon
  <1>2. b \o t \in Seq(Responses) /\ <<Notice>> \in Seq(Responses)
    <2>1. 0 \in 0..MaxRequests
      BY LdapServerAssumption
    <2>2. Notice \in Responses
      BY <2>1, ResponseTypes
    <2> QED
      BY <2>2, ConcatProperties
  <1>3. a \o <<Notice>> \in Seq(Responses)
    BY <1>2, ConcatProperties
  <1>4. (a \o b) \o t = a \o (b \o t)
    BY ConcatAssociative
  <1>5. (a \o <<Notice>> \o b) \o t = (a \o <<Notice>>) \o (b \o t)
    BY SMTT(30), <1>3, ConcatAssociative
  <1>6. (a \o <<Notice>>) \o (b \o t) \in WithNotice(a \o (b \o t))
    BY <1>2, NoticeJoins
  <1> QED
    BY <1>1, <1>4, <1>5, <1>6, Zenon

\* A beginning of the answers went out.
Begun(c) == \E rest \in Seq(Responses) : sent[c] \o rest \in Answers(c)

\* Only a handler has responses to send, and the notice is sent once.
OrderedAt(c) ==
  /\ pc[c] # "handling" => todo[c] = << >>
  /\ ~broken[c] /\ notifier[c] \in {"select", "sending"} => Output(c) = expected[c]
  /\ ~broken[c] => Output(c) \in Answers(c)
  /\ broken[c] => Begun(c)
  /\ late[c] => WriteTimeout
  /\ broken[c] => gone[c] \/ WriteTimeout

Ordered == \A c \in Conns : OrderedAt(c)

Written(c) == sent[c] \o (IF writer[c] = "writing" THEN <<pipe[c]>> ELSE << >>)

LEMMA OutputType ==
  ASSUME LdapServerTypeOK, NEW c \in Conns
  PROVE  /\ Written(c) \in Seq(Responses) /\ Output(c) \in Seq(Responses)
         /\ Output(c) = Written(c) \o todo[c]
         /\ expected[c] \in Seq(Responses) /\ todo[c] \in Seq(Responses)
         /\ sent[c] \in Seq(Responses) /\ pipe[c] \in Responses
  <1>1. /\ expected[c] \in Seq(Responses) /\ todo[c] \in Seq(Responses)
        /\ sent[c] \in Seq(Responses) /\ pipe[c] \in Responses
    BY DEF LdapServerTypeOK
  <1>2. (IF writer[c] = "writing" THEN <<pipe[c]>> ELSE << >>) \in Seq(Responses)
    BY <1>1
  <1>3. Written(c) \in Seq(Responses)
    BY <1>1, <1>2, ConcatProperties DEF Written
  <1> QED
    BY <1>1, <1>3, ConcatProperties DEF Written, Output

\* A step that sends nothing and expects nothing.
LEMMA OrderedFrame ==
  ASSUME NEW c \in Conns, OrderedAt(c),
         broken'[c] = broken[c], sent'[c] = sent[c] \/ ~broken[c],
         Output(c)' = Output(c), expected'[c] = expected[c],
         gone[c] => gone'[c], late'[c] => late[c] \/ WriteTimeout,
         notifier'[c] \in {"select", "sending"} => notifier[c] \in {"select", "sending"},
         pc'[c] # "handling" => todo'[c] = << >>
  PROVE  OrderedAt(c)'
  <1>1. Answers(c)' = Answers(c)
    BY DEF Answers
  <1>2. sent'[c] = sent[c] /\ Begun(c) => Begun(c)'
    BY <1>1, Zenon DEF Begun
  <1> QED
    BY <1>1, <1>2 DEF OrderedAt

LEMMA Regroup ==
  ASSUME NEW a \in Seq(Responses), NEW b \in Seq(Responses), NEW d \in Seq(Responses)
  PROVE  (a \o b) \o d = a \o (b \o d) /\ b \o d \in Seq(Responses)
  <1>1. (a \o b) \o d = a \o (b \o d)
    BY ConcatAssociative
  <1>2. b \o d \in Seq(Responses)
    BY ConcatProperties
  <1> QED
    BY <1>1, <1>2

LEMMA AnswersThenMore ==
  ASSUME NEW c \in Conns, NEW rs \in Seq(Responses), NEW out \in Answers(c),
         expected[c] \in Seq(Responses), expected'[c] = expected[c] \o rs
  PROVE  out \o rs \in Answers(c)'
  <1>1. CASE out = expected[c]
    BY <1>1 DEF Answers
  <1>2. CASE out \in WithNotice(expected[c])
    <2>1. out \o rs \in WithNotice(expected[c] \o rs)
      BY <1>2, NoticeThenMore
    <2> QED
      BY <2>1 DEF Answers
  <1> QED
    BY <1>1, <1>2 DEF Answers

LEMMA OrderedRespond ==
  ASSUME LdapServerTypeOK, NEW c \in Conns, NEW rs \in Seq(Responses), Respond(c, rs),
         OrderedAt(c)
  PROVE  OrderedAt(c)'
  <1> USE DEF LdapServerTypeOK, Respond, outVars
  <1>1. todo[c] = << >> /\ todo'[c] = rs /\ expected'[c] = expected[c] \o rs /\ pc'[c] = "handling"
    BY DEF OrderedAt
  <1>2. UNCHANGED <<gone, notifier, broken, sent, late>> /\ Written(c)' = Written(c)
    BY DEF Written
  <1>3. Output(c) = Written(c)
    <2>1. Written(c) \in Seq(Responses) /\ Output(c) = Written(c) \o todo[c]
      BY OutputType
    <2>2. Written(c) \o << >> = Written(c)
      BY <2>1, ConcatEmptySeq
    <2> HIDE DEF LdapServerTypeOK, Respond, outVars
    <2> QED
      BY <1>1, <2>1, <2>2
  <1>4. Output(c)' = Output(c) \o rs
    BY <1>1, <1>2, <1>3 DEF Output, Written
  <1>5. expected[c] \in Seq(Responses) /\ sent[c] \in Seq(Responses)
    BY OutputType
  <1> HIDE DEF LdapServerTypeOK, Respond, outVars
  <1>6. ASSUME Output(c) \in Answers(c) PROVE Output(c)' \in Answers(c)'
    BY <1>1, <1>4, <1>5, <1>6, AnswersThenMore
  <1>7. ASSUME Begun(c) PROVE Begun(c)'
    <2>1. PICK rest \in Seq(Responses) : sent[c] \o rest \in Answers(c)
      BY <1>7 DEF Begun
    <2>2. (sent[c] \o rest) \o rs \in Answers(c)'
      BY <1>1, <1>5, <2>1, AnswersThenMore
    <2>3. (sent[c] \o rest) \o rs = sent[c] \o (rest \o rs) /\ rest \o rs \in Seq(Responses)
      <3>1. PICK u \in Seq(Responses) : u = sent[c]
        BY <1>5
      <3>2. (u \o rest) \o rs = u \o (rest \o rs) /\ rest \o rs \in Seq(Responses)
        BY ONLY Regroup, u \in Seq(Responses), rest \in Seq(Responses), rs \in Seq(Responses)
      <3> QED
        BY <3>1, <3>2, Zenon
    <2> QED
      BY <1>2, <2>2, <2>3, Zenon DEF Begun
  <1> QED
    BY <1>1, <1>2, <1>4, <1>6, <1>7 DEF OrderedAt

LEMMA OrderedSteps ==
  ASSUME LdapServerTypeOK, NEW c \in Conns, OrderedAt(c) PROVE
         /\ SendResponse(c) => OrderedAt(c)'
         /\ WriteMessage(c) => OrderedAt(c)'
         /\ NotifierSend(c) => OrderedAt(c)'
  <1> USE DEF LdapServerTypeOK
  <1>1. ASSUME SendResponse(c) PROVE OrderedAt(c)'
    <2>1. /\ todo[c] # << >> /\ writer[c] = "idle" /\ writer'[c] = "writing" /\ sent'[c] = sent[c]
          /\ pipe'[c] = Head(todo[c]) /\ todo'[c] = Tail(todo[c])
          /\ pc'[c] = "handling" /\ expected'[c] = expected[c]
          /\ UNCHANGED <<gone, notifier, broken, late>>
      BY <1>1 DEF SendResponse, clientVars, history
    <2>2. todo[c] = <<Head(todo[c])>> \o Tail(todo[c])
      BY <2>1
    <2>3. <<Head(todo[c])>> \in Seq(Responses) /\ Tail(todo[c]) \in Seq(Responses)
      BY <2>1
    <2>4. Output(c) = sent[c] \o todo[c]
      BY <2>1, ConcatEmptySeq DEF Output
    <2>5. Output(c)' = (sent[c] \o <<Head(todo[c])>>) \o Tail(todo[c])
      BY <2>1 DEF Output
    <2>6. Output(c)' = Output(c)
      <3>1. sent[c] \in Seq(Responses)
        OBVIOUS
      <3> HIDE DEF LdapServerTypeOK
      <3>2. PICK u \in Seq(Responses), h \in Seq(Responses), t \in Seq(Responses) :
               u = sent[c] /\ h = <<Head(todo[c])>> /\ t = Tail(todo[c])
        BY ONLY <2>3, <3>1, Zenon
      <3>3. (u \o h) \o t = u \o (h \o t)
        BY ONLY ConcatAssociative, u \in Seq(Responses), h \in Seq(Responses), t \in Seq(Responses)
      <3> QED
        BY ONLY <2>2, <2>4, <2>5, <3>2, <3>3, Zenon
    <2> QED
      BY <2>1, <2>6, OrderedFrame
  <1>2. ASSUME WriteMessage(c) PROVE OrderedAt(c)'
    <2>1. /\ writer[c] = "writing" /\ writer'[c] = "idle" /\ todo'[c] = todo[c]
          /\ \/ ~broken[c] /\ broken'[c] = broken[c] /\ sent'[c] = Append(sent[c], pipe[c])
             \/ (broken[c] \/ late[c] \/ gone[c]) /\ broken'[c] /\ sent'[c] = sent[c]
          /\ expected'[c] = expected[c] /\ UNCHANGED <<gone, notifier, pc, late>>
      BY <1>2 DEF WriteMessage, clientVars, history
    <2>2. CASE (broken[c] \/ late[c] \/ gone[c]) /\ broken'[c] /\ sent'[c] = sent[c]
      <3>1. Answers(c)' = Answers(c)
        BY <2>1 DEF Answers
      <3>2. ASSUME ~broken[c] PROVE Begun(c)
        <4>1. Output(c) = (sent[c] \o <<pipe[c]>>) \o todo[c] /\ Output(c) \in Answers(c)
          BY <2>1, <3>2 DEF Output, OrderedAt
        <4>2. sent[c] \in Seq(Responses) /\ <<pipe[c]>> \in Seq(Responses) /\ todo[c] \in Seq(Responses)
          BY OutputType
        <4> HIDE DEF LdapServerTypeOK
        <4>3. (sent[c] \o <<pipe[c]>>) \o todo[c] = sent[c] \o (<<pipe[c]>> \o todo[c])
              /\ <<pipe[c]>> \o todo[c] \in Seq(Responses)
          BY <4>2, Regroup, Zenon
        <4> QED
          BY <4>1, <4>3, Zenon DEF Begun
      <3>3. Begun(c)
        BY <3>2 DEF OrderedAt
      <3> HIDE DEF LdapServerTypeOK
      <3>4. Begun(c)'
        BY <2>2, <3>1, <3>3, Zenon DEF Begun
      <3> QED
        BY <2>1, <2>2, <3>4 DEF OrderedAt
    <2>3. CASE ~broken[c] /\ broken'[c] = broken[c] /\ sent'[c] = Append(sent[c], pipe[c])
      <3>1. Output(c)' = Append(sent[c], pipe[c]) \o << >> \o todo[c]
        BY <2>1, <2>3 DEF Output
      <3>2. Append(sent[c], pipe[c]) = sent[c] \o <<pipe[c]>> /\ Append(sent[c], pipe[c]) \in Seq(Responses)
        BY OutputType, AppendProperties, AppendIsConcat
      <3>3. Output(c)' = Output(c)
        BY <2>1, <3>1, <3>2, ConcatEmptySeq DEF Output
      <3> QED
        BY <2>1, <2>3, <3>3, OrderedFrame DEF OrderedAt
    <2> QED
      BY <2>1, <2>2, <2>3
  <1>3. ASSUME NotifierSend(c) PROVE OrderedAt(c)'
    <2>1. /\ notifier[c] = "sending" /\ notifier'[c] = "sent"
          /\ UNCHANGED <<gone, pc, todo, sent, expected, broken, late>>
          /\ writer[c] = "idle" /\ writer'[c] = "writing" /\ pipe'[c] = Notice
      BY <1>3 DEF NotifierSend, clientVars, history
    <2>2. Output(c) = sent[c] \o todo[c]
      BY <2>1, ConcatEmptySeq, OutputType DEF Output
    <2>3. Output(c)' = sent[c] \o <<Notice>> \o todo[c]
      BY <2>1 DEF Output
    <2>4. Output(c)' \in WithNotice(sent[c] \o todo[c])
      <3>1. sent[c] \in Seq(Responses) /\ todo[c] \in Seq(Responses)
        BY OutputType
      <3>2. sent[c] \o <<Notice>> \o todo[c] \in WithNotice(sent[c] \o todo[c])
        BY <3>1, NoticeJoins
      <3> HIDE DEF LdapServerTypeOK
      <3> QED
        BY <2>3, <3>2
    <2>5. Answers(c)' = Answers(c)
      BY <2>1 DEF Answers
    <2>6. Begun(c) => Begun(c)'
      BY <2>1, <2>5, Zenon DEF Begun
    <2>7. ~broken[c] => Output(c)' \in Answers(c)
      BY <2>1, <2>2, <2>4 DEF OrderedAt, Answers
    <2> HIDE DEF LdapServerTypeOK
    <2> QED
      BY <2>1, <2>5, <2>6, <2>7 DEF OrderedAt
  <1> QED
    BY <1>1, <1>2, <1>3

\* The steps of one connection leave the others alone.
LEMMA OrderedOthers ==
  ASSUME LdapServerTypeOK, Ordered, NEW c \in Conns, Accept(c) \/ Serve(c) \/ Writer(c) \/ Notifier(c) \/ Client(c),
         NEW d \in Conns, d # c
  PROVE  OrderedAt(d)'
  <1> USE DEF LdapServerTypeOK
  <1>1. ASSUME NEW rs, Respond(c, rs)
        PROVE  /\ pc'[d] = pc[d] /\ todo'[d] = todo[d] /\ gone'[d] = gone[d] /\ notifier'[d] = notifier[d]
               /\ sent'[d] = sent[d] /\ writer'[d] = writer[d] /\ pipe'[d] = pipe[d]
               /\ expected'[d] = expected[d] /\ broken'[d] = broken[d] /\ late'[d] = late[d]
    BY <1>1 DEF Respond, outVars
  <1>2. /\ pc'[d] = pc[d] /\ todo'[d] = todo[d] /\ gone'[d] = gone[d] /\ notifier'[d] = notifier[d]
        /\ sent'[d] = sent[d] /\ writer'[d] = writer[d] /\ pipe'[d] = pipe[d]
        /\ expected'[d] = expected[d] /\ broken'[d] = broken[d] /\ late'[d] = late[d]
    <2> USE DEF clientVars, outVars, history
    <2>1. CASE Accept(c) \/ Writer(c) \/ Client(c)
      BY <2>1 DEF Accept, Writer, WriteMessage, WriterEnds, Client, ClientSend, ClientSendRest, ClientHangsUp,
                  WriteDeadlinePasses
    <2>2. CASE Notifier(c)
      BY <2>2 DEF Notifier, NotifierStop, NotifierQuit, NotifierSend, NotifierEnds
    <2>3. CASE HandleSearch(c) \/ HandleOther(c)
      <3>1. \E rs : Respond(c, rs)
        BY <2>3, Zenon DEF HandleSearch, HandleOther
      <3> QED
        BY <1>1, <3>1
    <2>4. CASE Begin(c) \/ ReadEnds(c) \/ ReadTimesOut(c) \/ ReadGarbage(c) \/ SendResponse(c)
      BY <2>4 DEF Begin, ReadEnds, ReadTimesOut, ReadGarbage, SendResponse, NextDeadline
    <2>5. CASE Handled(c) \/ Leave(c) \/ CloseWaited(c) \/ CloseOut(c) \/ CloseConn(c)
      BY <2>5 DEF Handled, Leave, CloseWaited, CloseOut, CloseConn, NextDeadline
    <2> QED
      BY <2>1, <2>2, <2>3, <2>4, <2>5 DEF Serve
  <1>3. Output(d)' = Output(d)
    BY <1>2 DEF Output
  <1>4. OrderedAt(d)
    BY DEF Ordered
  <1> HIDE DEF LdapServerTypeOK
  <1> QED
    BY <1>2, <1>3, <1>4, OrderedFrame DEF OrderedAt

LEMMA OrderedNext ==
  ASSUME LdapServerTypeOK, Ordered, [Next]_vars PROVE Ordered'
  <1>1. ASSUME NEW c \in Conns, Serve(c) PROVE OrderedAt(c)'
    <2>0. OrderedAt(c)
      BY DEF Ordered
    <2>1. CASE HandleSearch(c) \/ HandleOther(c)
      <3>1. nreq[c] \in 0..MaxRequests
        BY DEF LdapServerTypeOK
      <3>2. <<Final(nreq[c])>> \in Seq(Responses)
        BY <3>1, ResponseTypes
      <3>3. ASSUME NEW n \in 0..MaxEntries
            PROVE  [i \in 1..n |-> Entry(nreq[c])] \o <<Final(nreq[c])>> \in Seq(Responses)
        <4>1. [i \in 1..n |-> Entry(nreq[c])] \in Seq(Responses)
          BY <3>1, ResponseTypes, IsASeq, LdapServerAssumption
        <4> QED
          BY <3>2, <4>1, ConcatProperties
      <3>4. \E rs \in Seq(Responses) : Respond(c, rs)
        BY <2>1, <3>2, <3>3, Zenon DEF HandleSearch, HandleOther
      <3> QED
        BY <2>0, <3>4, OrderedRespond
    <2>2. CASE SendResponse(c)
      BY <2>0, <2>2, OrderedSteps
    <2>3. CASE Begin(c) \/ ReadEnds(c) \/ ReadTimesOut(c) \/ ReadGarbage(c) \/ Handled(c) \/ Leave(c)
               \/ CloseWaited(c) \/ CloseOut(c) \/ CloseConn(c)
      <3> USE DEF clientVars, outVars, history
      <3>1. UNCHANGED <<todo, gone, notifier, sent, writer, pipe, expected, broken>>
        BY <2>3 DEF Begin, ReadEnds, ReadTimesOut, ReadGarbage, Handled, Leave, CloseWaited,
                    CloseOut, CloseConn
      <3>4. late'[c] => late[c]
        BY <2>3 DEF Begin, ReadEnds, ReadTimesOut, ReadGarbage, Handled, Leave, CloseWaited,
                    CloseOut, CloseConn, NextDeadline, LdapServerTypeOK
      <3>2. todo[c] = << >>
        BY <2>0, <2>3 DEF Begin, ReadEnds, ReadTimesOut, ReadGarbage, Handled, Leave, CloseWaited,
                          CloseOut, CloseConn, OrderedAt
      <3>3. Output(c)' = Output(c)
        BY <3>1 DEF Output
      <3> QED
        BY <2>0, <3>1, <3>2, <3>3, <3>4, OrderedFrame
    <2> QED
      BY <1>1, <2>1, <2>2, <2>3 DEF Serve
  <1>2. ASSUME NEW c \in Conns, Writer(c) \/ Notifier(c) \/ Client(c) \/ Accept(c) PROVE OrderedAt(c)'
    <2>0. OrderedAt(c)
      BY DEF Ordered
    <2> USE DEF LdapServerTypeOK
    <2>1. CASE WriteMessage(c) \/ NotifierSend(c)
      BY <2>0, <2>1, OrderedSteps
    <2>2. CASE WriterEnds(c)
      <3>1. UNCHANGED <<todo, gone, notifier, sent, expected, pc, broken, late>>
            /\ writer[c] # "writing" /\ writer'[c] # "writing"
        BY <2>2 DEF WriterEnds, clientVars, history
      <3>2. Output(c)' = Output(c)
        BY <3>1 DEF Output
      <3> QED
        BY <2>0, <3>1, <3>2, OrderedFrame DEF OrderedAt
    <2>3. CASE NotifierStop(c) \/ NotifierQuit(c) \/ NotifierEnds(c)
      <3>1. UNCHANGED <<todo, gone, sent, writer, pipe, expected, pc, broken, late>>
            /\ (notifier'[c] \in {"select", "sending"} => notifier[c] \in {"select", "sending"})
        BY <2>3 DEF NotifierStop, NotifierQuit, NotifierEnds, clientVars, outVars, history
      <3>2. Output(c)' = Output(c)
        BY <3>1 DEF Output
      <3> QED
        BY <2>0, <3>1, <3>2, OrderedFrame DEF OrderedAt
    <2>4. CASE Client(c) \/ Accept(c)
      <3>1. UNCHANGED <<todo, notifier, sent, writer, pipe, expected, broken>> /\ (gone[c] => gone'[c])
            /\ (pc'[c] # "handling" => pc[c] # "handling") /\ (late'[c] => late[c] \/ WriteTimeout)
        BY <2>4 DEF Client, ClientSend, ClientSendRest, ClientHangsUp, WriteDeadlinePasses, Accept,
                    clientVars, outVars, history
      <3>2. Output(c)' = Output(c)
        BY <3>1 DEF Output
      <3> QED
        BY <2>0, <3>1, <3>2, OrderedFrame DEF OrderedAt
    <2> QED
      BY <1>2, <2>1, <2>2, <2>3, <2>4 DEF Writer, Notifier
  <1>3. ASSUME NEW c \in Conns, Accept(c) \/ Serve(c) \/ Writer(c) \/ Notifier(c) \/ Client(c)
        PROVE  Ordered'
    BY <1>1, <1>2, <1>3, OrderedOthers DEF Ordered
  <1>4. CASE Stop \/ LoopTop \/ AcceptFails \/ WaitReturns \/ Drained \/ ShutdownDeadline \/ LateSend
             \/ UNCHANGED vars
    <2>1. UNCHANGED connVars
      BY <1>4 DEF Stop, LoopTop, AcceptFails, WaitReturns, Drained, ShutdownDeadline, LateSend, vars, connVars
    <2> QED
      BY <2>1 DEF connVars, clientVars, outVars, history, Ordered, OrderedAt, Output, Begun, Answers
  <1> QED
    BY <1>3, <1>4 DEF Next, Server

\* However handlers, the writer, the notifier, the deadlines and the shutdown
\* interleave, a client gets the responses of its requests, each once and in
\* order, and at most one notice of disconnection among them; a failed write
\* ends that without a gap, and takes a client that is gone or a write timeout.
THEOREM AnswersKeepOrder == Spec => []AnsweredInOrder
  <1>1. Init => Ordered
    <2> SUFFICES ASSUME Init, NEW c \in Conns PROVE OrderedAt(c)
      BY DEF Ordered
    <2>1. /\ todo[c] = << >> /\ sent[c] = << >> /\ writer[c] = "idle" /\ expected[c] = << >>
          /\ ~broken[c] /\ ~late[c]
      BY DEF Init
    <2>2. Output(c) = << >>
      BY <2>1 DEF Output
    <2> QED
      BY <2>1, <2>2 DEF OrderedAt, Answers
  <1>2. LdapServerTypeOK /\ Ordered => AnsweredInOrder
    <2> SUFFICES ASSUME LdapServerTypeOK, NEW c \in Conns, OrderedAt(c), broken[c]
                 PROVE  \E all \in Answers(c) : IsPrefix(sent[c], all)
      BY DEF Ordered, OrderedAt, AnsweredInOrder
    <2>1. PICK rest \in Seq(Responses) : sent[c] \o rest \in Answers(c)
      BY DEF OrderedAt, Begun
    <2>2. sent[c] \in Seq(Responses)
      BY OutputType
    <2>3. IsPrefix(sent[c], sent[c] \o rest)
      BY <2>2, SubSeqOfConcat1, ConcatProperties, LenProperties DEF IsPrefix
    <2> QED
      BY <2>1, <2>3
  <1> QED
    BY <1>1, <1>2, OrderedNext, TypeCorrect, PTL DEF Spec

-----------------------------------------------------------------------------
(***************************************************************************)
(* The headers and integers of messages (Asn1), for every length below     *)
(* 2^31, every int32 and any bytes around them.                            *)
(*                                                                         *)
(* Shifted is followed round by round: each splits what is left into what  *)
(* is shifted out and what remains (OneRound), so that the loop of the     *)
(* reader meets, from the other end, the values the writer had             *)
(* (LengthLoop, Int32Loop), and bytes that a reader has shifted in are     *)
(* shifted out again (ShiftedBack).                                        *)
(***************************************************************************)

\* What fits 31 bits, an int32, and a length that may be shifted once more.
Wide == {v \in Nat : v <= 2147483647}
Int32 == {i \in Int : -2147483648 <= i /\ i <= 2147483647}
Narrow == {v \in Nat : v < ShiftLimit}

\* What the k-th round of a loop in base 256 shifts out of v.
Digit(v, k) == Shifted(v, 256)[k] % 256

\* The bytes w stand in bs from the offset off on.
StandsAt(bs, off, w) == off + Len(w) <= Len(bs) /\ \A j \in 1..Len(w) : bs[off + j] = w[j]

\* The bytes of w that are left in bs from off on, where bs ends too early.
CutAt(bs, off, w) == Len(bs) < off + Len(w) /\ \A j \in 1..Len(w) : off + j <= Len(bs) => bs[off + j] = w[j]

-----------------------------------------------------------------------------
LEMMA ByteIs == \A b : b \in Byte <=> b \in Nat /\ b <= 255
  BY SMT DEF Byte

LEMMA WideNat == \A v \in Wide : v \in Nat /\ v \in Int
  BY SMT DEF Wide

LEMMA DivMod ==
  ASSUME NEW v \in Int
  PROVE  v \div 256 \in Int /\ v % 256 \in Byte /\ v = (v \div 256) * 256 + (v % 256)
  <1>1. v \div 256 \in Int
    OBVIOUS
  <1>2. v % 256 \in Nat /\ v % 256 <= 255
    OBVIOUS
  <1>3. v = (v \div 256) * 256 + (v % 256)
    OBVIOUS
  <1> QED
    BY <1>1, <1>2, <1>3, ByteIs

LEMMA ShiftedIs ==
  ASSUME NEW v \in Int
  PROVE  LET s == Shifted(v, 256)
         IN /\ s = [k \in 0..5 |-> IF k = 0 THEN v ELSE s[k - 1] \div 256]
            /\ \A k \in 0..5 : s[k] \in Int
  <1> DEFINE v1 == v \div 256
             v2 == v1 \div 256
             v3 == v2 \div 256
             v4 == v3 \div 256
             v5 == v4 \div 256
             f == [k \in 0..5 |-> IF k = 0 THEN v ELSE IF k = 1 THEN v1 ELSE IF k = 2 THEN v2
                     ELSE IF k = 3 THEN v3 ELSE IF k = 4 THEN v4 ELSE v5]
             s == Shifted(v, 256)
  <1>1. f = [k \in 0..5 |-> IF k = 0 THEN v ELSE f[k - 1] \div 256]
    OBVIOUS
  <1>2. s = [k \in 0..5 |-> IF k = 0 THEN v ELSE s[k - 1] \div 256]
    BY <1>1 DEF Shifted, MaxDigits
  <1> HIDE DEF s
  <1>3. s[0] \in Int /\ s[1] \in Int /\ s[2] \in Int /\ s[3] \in Int /\ s[4] \in Int /\ s[5] \in Int
    BY <1>2
  <1>4. \A k \in 0..5 : s[k] \in Int
    BY <1>3
  <1> QED
    BY <1>2, <1>4 DEF s

LEMMA NextRound ==
  ASSUME NEW v \in Int, NEW k \in 0..4
  PROVE  Shifted(v, 256)[k + 1] = Shifted(v, 256)[k] \div 256
  BY ShiftedIs

\* One round: the digit shifted out and what is left make up what there was.
LEMMA OneRound ==
  ASSUME NEW v \in Int, NEW k \in 0..4
  PROVE  LET s == Shifted(v, 256)
         IN /\ s[k] \in Int /\ s[k + 1] \in Int
            /\ Digit(v, k) \in Byte
            /\ s[k] = s[k + 1] * 256 + Digit(v, k)
  <1> DEFINE s == Shifted(v, 256)
  <1>1. s[k] \in Int /\ s[k + 1] = s[k] \div 256
    BY ShiftedIs
  <1> HIDE DEF s
  <1>2. s[k + 1] \in Int /\ s[k] % 256 \in Byte /\ s[k] = s[k + 1] * 256 + (s[k] % 256)
    BY <1>1, DivMod
  <1> QED
    BY <1>1, <1>2 DEF s, Digit

LEMMA AllRounds ==
  ASSUME NEW v \in Int
  PROVE  LET s == Shifted(v, 256)
         IN /\ s[0] = v /\ s[1] \in Int /\ s[2] \in Int /\ s[3] \in Int /\ s[4] \in Int /\ s[5] \in Int
            /\ s[1] = v \div 256 /\ s[2] = s[1] \div 256 /\ s[3] = s[2] \div 256
            /\ s[4] = s[3] \div 256 /\ s[5] = s[4] \div 256
  <1> DEFINE s == Shifted(v, 256)
  <1>1. s = [k \in 0..5 |-> IF k = 0 THEN v ELSE s[k - 1] \div 256] /\ \A k \in 0..5 : s[k] \in Int
    BY ShiftedIs
  <1> HIDE DEF s
  <1>2. /\ s[0] = v /\ s[1] \in Int /\ s[2] \in Int /\ s[3] \in Int /\ s[4] \in Int /\ s[5] \in Int
        /\ s[1] = v \div 256 /\ s[2] = s[1] \div 256 /\ s[3] = s[2] \div 256
        /\ s[4] = s[3] \div 256 /\ s[5] = s[4] \div 256
    BY <1>1
  <1> QED
    BY <1>2 DEF s

\* A loop stops at the first round that finds it may, and there is one.
LEMMA RoundsStop ==
  ASSUME NEW v \in Int, NEW S, NEW m \in 0..5, Shifted(v, 256)[m] \in S
  PROVE  LET s == Shifted(v, 256)
             n == Rounds(v, 256, S)
         IN n \in 0..m /\ s[n] \in S /\ \A k \in 0..(n - 1) : s[k] \notin S
  <1> DEFINE s == Shifted(v, 256)
             First(n) == s[n] \in S /\ \A k \in 0..(n - 1) : s[k] \notin S
  <1>1. \E n \in 0..5 : First(n)
    <2> HIDE DEF s
    <2>1. CASE s[0] \in S
      BY <2>1
    <2>2. CASE s[0] \notin S /\ s[1] \in S
      BY <2>2
    <2>3. CASE s[0] \notin S /\ s[1] \notin S /\ s[2] \in S
      BY <2>3
    <2>4. CASE s[0] \notin S /\ s[1] \notin S /\ s[2] \notin S /\ s[3] \in S
      BY <2>4
    <2>5. CASE s[0] \notin S /\ s[1] \notin S /\ s[2] \notin S /\ s[3] \notin S /\ s[4] \in S
      BY <2>5
    <2>6. CASE s[0] \notin S /\ s[1] \notin S /\ s[2] \notin S /\ s[3] \notin S /\ s[4] \notin S
      <3>1. m = 5 /\ s[5] \in S
        BY <2>6 DEF s
      <3> QED
        BY <2>6, <3>1
    <2> QED
      BY <2>1, <2>2, <2>3, <2>4, <2>5, <2>6
  <1> DEFINE n == Rounds(v, 256, S)
  <1>2. n = CHOOSE i \in 0..5 : First(i)
    BY DEF Rounds, MaxDigits
  <1>3. n \in 0..5 /\ First(n)
    BY <1>1, <1>2
  <1> HIDE DEF n
  <1>4. n <= m
    BY <1>3
  <1> QED
    BY <1>3, <1>4 DEF n

-----------------------------------------------------------------------------
(* Lengths *)

LEMMA WideRounds ==
  ASSUME NEW v \in Wide
  PROVE  LET s == Shifted(v, 256)
         IN /\ s[0] = v /\ s[4] = 0
            /\ s[1] \in Nat /\ s[1] <= 8388607 /\ s[2] \in Nat /\ s[2] <= 32767 /\ s[3] \in Nat /\ s[3] <= 127
            /\ \A k \in 0..4 : s[k] \in Wide
            /\ \A k \in 1..4 : s[k] \in Narrow
  <1> DEFINE s == Shifted(v, 256)
  <1>1. /\ s[0] = v /\ s[1] \in Int /\ s[2] \in Int /\ s[3] \in Int /\ s[4] \in Int
        /\ s[1] = v \div 256 /\ s[2] = s[1] \div 256 /\ s[3] = s[2] \div 256
        /\ s[4] = s[3] \div 256
    BY SMT, AllRounds DEF Wide
  <1> HIDE DEF s
  <1>2. s[1] \in Nat /\ s[1] <= 8388607
    BY SMT, <1>1 DEF Wide
  <1>3. s[2] \in Nat /\ s[2] <= 32767
    BY SMT, <1>1, <1>2
  <1>4. s[3] \in Nat /\ s[3] <= 127
    BY SMT, <1>1, <1>3
  <1>5. s[4] = 0
    BY SMT, <1>1, <1>4
  <1>6. \A k \in 1..4 : s[k] \in Narrow
    BY SMT, <1>2, <1>3, <1>4, <1>5 DEF Narrow, ShiftLimit
  <1>7. \A k \in 0..4 : k = 0 \/ k \in 1..4
    BY SMT
  <1>8. \A k \in 0..4 : s[k] \in Wide
    BY SMT, <1>1, <1>6, <1>7 DEF Wide, Narrow, ShiftLimit
  <1> QED
    BY SMT, <1>1, <1>2, <1>3, <1>4, <1>5, <1>6, <1>8 DEF s

\* The bytes of a length: at most four, the first of them not 0.
LEMMA LengthBytes ==
  ASSUME NEW v \in Wide, v # 0
  PROVE  LET s == Shifted(v, 256)
             n == Rounds(v, 256, {0})
         IN /\ n \in 1..4 /\ s[n] = 0
            /\ \A k \in 0..(n - 1) : s[k] # 0
  <1> DEFINE s == Shifted(v, 256)
             n == Rounds(v, 256, {0})
  <1>1. s[0] = v /\ s[4] \in {0} /\ v \in Int
    BY SMT, WideRounds DEF Wide
  <1>2. n \in 0..4 /\ s[n] \in {0} /\ \A k \in 0..(n - 1) : s[k] \notin {0}
    BY SMT, <1>1, RoundsStop
  <1> HIDE DEF s, n
  <1>3. n # 0
    BY SMT, <1>1, <1>2
  <1> QED
    BY SMT, <1>2, <1>3 DEF s, n

LEMMA BigEndianIs ==
  ASSUME NEW v \in Int, NEW n \in 0..5
  PROVE  /\ BigEndian(v, n) \in Seq(Byte) /\ Len(BigEndian(v, n)) = n
         /\ \A j \in 1..n : BigEndian(v, n)[j] = Digit(v, n - j)
  <1>1. \A j \in 1..n : n - j \in 0..4
    OBVIOUS
  <1>2. \A k \in 0..4 : Digit(v, k) \in Byte
    BY OneRound
  <1>3. BigEndian(v, n) \in [1..n -> Byte]
    BY <1>1, <1>2 DEF BigEndian, Digit
  <1>4. BigEndian(v, n) \in Seq(Byte) /\ Len(BigEndian(v, n)) = n
    BY <1>3
  <1> QED
    BY <1>4 DEF BigEndian, Digit

\* The loop over the bytes of a length.
LengthStep(bs, off, acc, n) ==
  IF \/ acc = -1
     \/ off + n > Len(bs)
     \/ acc >= ShiftLimit
     \/ acc * 256 + bs[off + n] = 0
  THEN -1
  ELSE acc * 256 + bs[off + n]

LEMMA LengthStepIs ==
  ASSUME NEW bs, NEW off, NEW n, NEW acc \in Narrow, NEW b \in Byte, bs[off + n] = b,
         ~(off + n > Len(bs)), acc * 256 + b # 0
  PROVE  LengthStep(bs, off, acc, n) = acc * 256 + b
  <1>1. acc \in Nat /\ ~(acc >= ShiftLimit)
    BY SMT DEF Narrow, ShiftLimit
  <1>2. acc # -1
    BY <1>1
  <1> QED
    BY <1>1, <1>2 DEF LengthStep

LEMMA LengthAfterIs ==
  ASSUME NEW bs, NEW off
  PROVE  LET f == LengthAfter(bs, off)
         IN f = [n \in 0..4 |-> IF n = 0 THEN 0 ELSE LengthStep(bs, off, f[n - 1], n)]
  <1> DEFINE v1 == LengthStep(bs, off, 0, 1)
             v2 == LengthStep(bs, off, v1, 2)
             v3 == LengthStep(bs, off, v2, 3)
             v4 == LengthStep(bs, off, v3, 4)
             g == [n \in 0..4 |-> IF n = 0 THEN 0 ELSE IF n = 1 THEN v1 ELSE IF n = 2 THEN v2
                      ELSE IF n = 3 THEN v3 ELSE v4]
  <1>1. g = [n \in 0..4 |-> IF n = 0 THEN 0 ELSE LengthStep(bs, off, g[n - 1], n)]
    OBVIOUS
  <1>2. LengthAfter(bs, off) =
          CHOOSE f : f = [n \in 0..4 |-> IF n = 0 THEN 0 ELSE LengthStep(bs, off, f[n - 1], n)]
    BY DEF LengthAfter, LengthStep
  <1> HIDE DEF g
  <1> QED
    BY <1>1, <1>2

LEMMA LengthAfterNext ==
  ASSUME NEW bs, NEW off, NEW k \in 0..3
  PROVE  /\ LengthAfter(bs, off)[0] = 0
         /\ LengthAfter(bs, off)[k + 1] = LengthStep(bs, off, LengthAfter(bs, off)[k], k + 1)
  BY LengthAfterIs

\* s is what is left of a length round by round, and d the digits.
Digits(s, d) ==
  /\ \A k \in 0..4 : s[k] \in Nat
  /\ \A k \in 1..4 : s[k] \in Narrow
  /\ \A k \in 0..3 : d[k] \in Byte /\ s[k] = s[k + 1] * 256 + d[k]

Ends(s, n) == s[n] = 0 /\ \A k \in 0..(n - 1) : s[k] # 0
Spelled(bs, off, d, n) == off + n <= Len(bs) /\ \A j \in 1..n : bs[off + j] = d[n - j]

\* The loop finds in the bytes of a length what the writer shifted out.
LEMMA LengthLoop ==
  ASSUME NEW s, NEW d, Digits(s, d), NEW n \in 1..4, Ends(s, n),
         NEW bs \in Seq(Byte), NEW off \in Nat, Spelled(bs, off, d, n)
  PROVE  LengthAfter(bs, off)[n] = s[0]
  <1> DEFINE f == LengthAfter(bs, off)
  <1>1. ASSUME NEW k \in 0..(n - 1), f[k] = s[n - k] PROVE f[k + 1] = s[n - (k + 1)]
    <2>1. PICK i \in 0..3 : i = n - (k + 1)
      OBVIOUS
    <2>2. i + 1 = n - k /\ i + 1 \in 1..4 /\ k \in 0..3 /\ k + 1 \in 1..n /\ i \in 0..(n - 1)
      <3>1. k \in 0..3 /\ k + 1 \in 1..n
        OBVIOUS
      <3>2. i + 1 = n - k /\ i \in 0..(n - 1)
        BY <2>1, <3>1
      <3> QED
        BY <3>1, <3>2
    <2>3. s[i] = s[i + 1] * 256 + d[i] /\ d[i] \in Byte
      BY <2>1 DEF Digits
    <2>4. s[i] \in Nat /\ s[i] # 0 /\ s[i + 1] \in Narrow
      <3>1. s[i] \in Nat /\ s[i + 1] \in Narrow
        <4>1. i \in 0..4 /\ i + 1 \in 1..4
          BY <2>2
        <4> QED
          BY SMTT(30), <4>1 DEF Digits
      <3>2. s[i] # 0
        BY <2>2 DEF Ends
      <3> QED
        BY <3>1, <3>2
    <2>5. bs[off + (k + 1)] = d[i]
      BY <2>1, <2>2 DEF Spelled
    <2>6. off + (k + 1) <= Len(bs)
      BY <2>2 DEF Spelled
    <2>7. f[k + 1] = LengthStep(bs, off, s[i + 1], k + 1)
      BY <1>1, <2>2, LengthAfterNext
    <2>8. LengthStep(bs, off, s[i + 1], k + 1) = s[i]
      <3>1. ~(off + (k + 1) > Len(bs))
        BY <2>6, <2>2
      <3>2. s[i + 1] * 256 + d[i] # 0
        BY <2>3, <2>4
      <3> QED
        BY <2>3, <2>4, <2>5, <3>1, <3>2, LengthStepIs
    <2> QED
      BY <2>1, <2>7, <2>8
  <1>2. f[0] = s[n - 0]
    BY LengthAfterNext DEF Ends
  <1> HIDE DEF f
  <1>3. n >= 1 => f[1] = s[n - 1]
    BY <1>1, <1>2
  <1>4. n >= 2 => f[2] = s[n - 2]
    BY <1>1, <1>3
  <1>5. n >= 3 => f[3] = s[n - 3]
    BY <1>1, <1>4
  <1>6. n >= 4 => f[4] = s[n - 4]
    BY <1>1, <1>5
  <1>7. n = 1 \/ n = 2 \/ n = 3 \/ n = 4
    OBVIOUS
  <1>8. f[n] = s[0]
    <2>2. CASE n = 1
      BY <1>3, <2>2
    <2>3. CASE n = 2
      BY <1>4, <2>3
    <2>4. CASE n = 3
      BY <1>5, <2>4
    <2>5. CASE n = 4
      BY <1>6, <2>5
    <2> QED
      BY <1>7, <2>2, <2>3, <2>4, <2>5
  <1> QED
    BY <1>8 DEF f

LEMMA WideDigits ==
  ASSUME NEW v \in Wide
  PROVE  Digits(Shifted(v, 256), [k \in 0..3 |-> Digit(v, k)])
  <1> DEFINE s == Shifted(v, 256)
             d == [k \in 0..3 |-> Digit(v, k)]
  <1>1. (\A k \in 0..4 : s[k] \in Nat) /\ (\A k \in 1..4 : s[k] \in Narrow)
    BY WideRounds, WideNat
  <1>2. \A k \in 0..3 : Digit(v, k) \in Byte /\ s[k] = s[k + 1] * 256 + Digit(v, k)
    BY OneRound, WideNat
  <1>3. \A k \in 0..3 : d[k] = Digit(v, k)
    OBVIOUS
  <1> HIDE DEF s, d
  <1>4. \A k \in 0..3 : d[k] \in Byte /\ s[k] = s[k + 1] * 256 + d[k]
    BY <1>2, <1>3
  <1>5. Digits(s, d)
    BY <1>1, <1>4 DEF Digits
  <1> QED
    BY <1>5 DEF s, d

\* The two forms of a length.
LEMMA ShortLength ==
  ASSUME NEW v \in Nat, v \in Wide, v < 128
  PROVE  WriteLength(v) = <<v>> /\ Len(WriteLength(v)) = 1 /\ v \in Byte
  <1>1. v \in Nat
    BY WideNat
  <1> QED
    BY <1>1, ByteIs DEF WriteLength

LEMMA LongLength ==
  ASSUME NEW v \in Nat, v \in Wide, ~(v < 128)
  PROVE  \E n \in 1..4 :
            /\ n = Rounds(v, 256, {0})
            /\ WriteLength(v) \in Seq(Byte) /\ Len(WriteLength(v)) = n + 1
            /\ WriteLength(v)[1] = 128 + n
            /\ \A j \in 1..n : WriteLength(v)[j + 1] = Digit(v, n - j)
  <1>1. v \in Int /\ v # 0
    OBVIOUS
  <1>2. PICK n \in 1..4 : n = Rounds(v, 256, {0})
    BY <1>1, LengthBytes
  <1> DEFINE e == BigEndian(v, n)
             w == WriteLength(v)
  <1>3. w = <<128 + n>> \o e
    BY <1>2 DEF WriteLength
  <1>4. e \in Seq(Byte) /\ Len(e) = n /\ \A j \in 1..n : e[j] = Digit(v, n - j)
    <2>1. n \in 0..5
      BY <1>2
    <2> QED
      BY <1>1, <2>1, BigEndianIs
  <1> HIDE DEF e, w
  <1>5. 128 + n \in Byte
    BY <1>2, ByteIs
  <1>6. /\ w \in Seq(Byte) /\ Len(w) = n + 1 /\ w[1] = 128 + n
        /\ \A j \in 1..n : w[j + 1] = e[j]
    BY <1>3, <1>4, <1>5
  <1> QED
    BY <1>2, <1>4, <1>6 DEF w

LEMMA LengthReadsBack ==
  ASSUME NEW v \in Nat, v \in Wide, NEW bs \in Seq(Byte), NEW off \in Nat, StandsAt(bs, off, WriteLength(v))
  PROVE  ParseLength(bs, off) = Done(v, off + Len(WriteLength(v)))
  <1> DEFINE w == WriteLength(v)
  <1>1. CASE v < 128
    <2>1. w = <<v>> /\ Len(w) = 1
      BY <1>1, ShortLength
    <2>2. off < Len(bs) /\ bs[off + 1] = v
      BY <2>1 DEF StandsAt
    <2> HIDE DEF w
    <2>3. ~(off >= Len(bs))
      BY <2>2
    <2> QED
      BY <1>1, <2>1, <2>2, <2>3 DEF ParseLength, w
  <1>2. CASE ~(v < 128)
    <2>1. PICK n \in 1..4 : /\ n = Rounds(v, 256, {0}) /\ w \in Seq(Byte) /\ Len(w) = n + 1
                            /\ w[1] = 128 + n /\ \A j \in 1..n : w[j + 1] = Digit(v, n - j)
      BY <1>2, LongLength
    <2> DEFINE s == Shifted(v, 256)
               d == [k \in 0..3 |-> Digit(v, k)]
    <2>2. v # 0
      BY <1>2
    <2>3. Ends(s, n) /\ s[0] = v
      BY <2>1, <2>2, LengthBytes, WideRounds DEF Ends
    <2>4. Digits(s, d)
      BY WideDigits
    <2>5. off + Len(w) <= Len(bs) /\ \A j \in 1..Len(w) : bs[off + j] = w[j]
      BY DEF StandsAt
    <2> HIDE DEF w, s
    <2>6. off + 1 + n <= Len(bs) /\ bs[off + 1] = 128 + n
      BY <2>1, <2>5
    <2>7. \A j \in 1..n : bs[(off + 1) + j] = d[n - j]
      <3> SUFFICES ASSUME NEW j \in 1..n PROVE bs[(off + 1) + j] = d[n - j]
        OBVIOUS
      <3>1. j + 1 \in 1..Len(w) /\ n - j \in 0..3 /\ (off + 1) + j = off + (j + 1)
        BY SMTT(30), <2>1
      <3>2. bs[off + (j + 1)] = Digit(v, n - j)
        BY SMTT(30), <2>1, <2>5, <3>1
      <3>3. d[n - j] = Digit(v, n - j)
        BY <3>1
      <3> QED
        BY <3>1, <3>2, <3>3
    <2> HIDE DEF d
    <2>8. off + 1 \in Nat /\ Spelled(bs, off + 1, d, n)
      BY <2>6, <2>7 DEF Spelled
    <2>9. LengthAfter(bs, off + 1)[n] = v
      BY <2>3, <2>4, <2>8, LengthLoop
    <2>10. ~(off >= Len(bs)) /\ ~(128 + n < 128) /\ (128 + n) - 128 = n /\ ~(n > 4) /\ n # 0
      BY <2>6
    <2>11. v # -1 /\ off + 1 + n = off + (n + 1)
      OBVIOUS
    <2> QED
      BY SMTT(30), <2>1, <2>6, <2>9, <2>10, <2>11 DEF ParseLength, w
  <1> QED
    BY <1>1, <1>2

LEMMA LengthCut ==
  ASSUME NEW v \in Nat, v \in Wide, NEW bs \in Seq(Byte), NEW off \in Nat, CutAt(bs, off, WriteLength(v))
  PROVE  ParseLength(bs, off) = Fail
  <1> DEFINE w == WriteLength(v)
  <1>1. CASE off >= Len(bs)
    BY <1>1 DEF ParseLength
  <1>2. CASE ~(off >= Len(bs))
    <2>1. ~(v < 128)
      <3>1. SUFFICES ASSUME v < 128 PROVE FALSE
        OBVIOUS
      <3>2. Len(bs) < off + 1
        BY <3>1, ShortLength DEF CutAt
      <3> QED
        BY <1>2, <3>2
    <2>2. PICK n \in 1..4 : Len(w) = n + 1 /\ w[1] = 128 + n
      BY <2>1, LongLength
    <2>3. Len(bs) < off + Len(w) /\ \A j \in 1..Len(w) : off + j <= Len(bs) => bs[off + j] = w[j]
      BY DEF CutAt
    <2> HIDE DEF w
    <2>4. bs[off + 1] = 128 + n /\ Len(bs) < off + (n + 1)
      BY <1>2, <2>2, <2>3
    <2>5. n - 1 \in 0..3 /\ (n - 1) + 1 = n /\ (off + 1) + n > Len(bs)
      BY <2>4
    <2>6. LengthAfter(bs, off + 1)[n] = -1
      BY <2>5, LengthAfterNext DEF LengthStep
    <2>7. ~(128 + n < 128) /\ (128 + n) - 128 = n /\ ~(n > 4)
      OBVIOUS
    <2> QED
      BY <1>2, <2>4, <2>6, <2>7 DEF ParseLength
  <1> QED
    BY <1>1, <1>2

\* The size of a length is computed by a loop of its own, which stops one round
\* earlier than the one that writes it.
LEMMA LengthSized ==
  ASSUME NEW v \in Nat, v \in Wide
  PROVE  /\ v >= 128 => LengthExtra(v) \in 0..3
         /\ Len(WriteLength(v)) = 1 + (IF v >= 128 THEN 1 + LengthExtra(v) ELSE 0)
  <1>1. CASE v < 128
    BY <1>1, ShortLength
  <1>2. CASE ~(v < 128)
    <2>1. PICK n \in 1..4 : n = Rounds(v, 256, {0}) /\ Len(WriteLength(v)) = n + 1
      BY <1>2, LongLength
    <2> DEFINE s == Shifted(v, 256)
    <2>2. s[n] = 0 /\ \A k \in 0..(n - 1) : s[k] # 0
      BY <1>2, <2>1, LengthBytes
    <2>3. \A k \in 0..4 : s[k] \in Nat
      BY WideRounds, WideNat
    <2>4. \A k \in 0..3 : Digit(v, k) \in Byte /\ s[k] = s[k + 1] * 256 + Digit(v, k)
      BY OneRound
    <2>5. s[n - 1] \in Byte
      <3>1. PICK i \in 0..3 : i = n - 1
        OBVIOUS
      <3>2. s[i + 1] = 0 /\ s[i] = s[i + 1] * 256 + Digit(v, i) /\ Digit(v, i) \in Byte
        BY <2>2, <2>4, <3>1
      <3>3. Digit(v, i) \in Nat
        BY <3>2, ByteIs
      <3> HIDE DEF s
      <3> QED
        BY <3>1, <3>2, <3>3
    <2>6. PICK m \in 0..(n - 1) : /\ m = Rounds(v, 256, Byte) /\ s[m] \in Byte
                                  /\ \A k \in 0..(m - 1) : s[k] \notin Byte
      <3>1. PICK i \in 0..5 : i = n - 1
        OBVIOUS
      <3>2. Rounds(v, 256, Byte) \in 0..i
        BY <2>5, <3>1, RoundsStop
      <3>3. s[Rounds(v, 256, Byte)] \in Byte /\ \A k \in 0..(Rounds(v, 256, Byte) - 1) : s[k] \notin Byte
        BY <2>5, <3>1, RoundsStop
      <3> QED
        BY <3>1, <3>2, <3>3
    <2> HIDE DEF s
    <2>7. s[m + 1] = 0
      <3>1. PICK i \in 0..3 : i = m
        OBVIOUS
      <3>2. s[i] = s[i + 1] * 256 + Digit(v, i) /\ Digit(v, i) \in Byte /\ s[i] \in Byte /\ s[i + 1] \in Nat
        BY <2>3, <2>4, <2>6, <3>1
      <3>3. Digit(v, i) \in Nat /\ s[i] \in Nat /\ s[i] <= 255
        BY <3>2, ByteIs
      <3> QED
        BY <3>1, <3>2, <3>3
    <2>8. m = n - 1
      BY <2>2, <2>7
    <2> QED
      BY <1>2, <2>1, <2>6, <2>8 DEF LengthExtra
  <1> QED
    BY <1>1, <1>2

\* The first byte of a header, and what a reader finds in it.
Holds(b, class, compound, tag) ==
  b \in Byte /\ b % 32 = tag /\ b \div 64 = class /\ (((b \div 32) % 2 = 1) <=> compound)
FirstByte(class, compound, tag) == class * 64 + (IF compound THEN 32 ELSE 0) + tag

LEMMA FirstByteIs ==
  ASSUME NEW class \in 0..3, NEW compound \in BOOLEAN, NEW tag \in 0..30
  PROVE  Holds(FirstByte(class, compound, tag), class, compound, tag)
  <1>1. PICK c \in {0, 1} : c = IF compound THEN 1 ELSE 0
    OBVIOUS
  <1>2. PICK b \in Nat : b = class * 64 + c * 32 + tag
    OBVIOUS
  <1>3. b = FirstByte(class, compound, tag)
    BY <1>1, <1>2 DEF FirstByte
  <1>4. b <= 255 /\ b % 32 = tag /\ b \div 64 = class
    BY <1>2
  <1>5. b \div 32 = class * 2 + c
    BY <1>2
  <1>6. (b \div 32) % 2 = c
    BY <1>5
  <1> QED
    BY <1>1, <1>3, <1>4, <1>6, ByteIs DEF Holds

\* A header is its first byte and its length.
LEMMA HeaderParts ==
  ASSUME NEW class \in 0..3, NEW compound \in BOOLEAN, NEW tag \in 0..30, NEW v \in Nat, v \in Wide
  PROVE  LET w == WriteTagAndLength(class, compound, tag, v)
             u == WriteLength(v)
         IN /\ u \in Seq(Byte) /\ Len(w) = 1 + Len(u) /\ w[1] = FirstByte(class, compound, tag)
            /\ \A j \in 1..Len(u) : w[1 + j] = u[j]
  <1> DEFINE u == WriteLength(v)
             w == WriteTagAndLength(class, compound, tag, v)
  <1>1. u \in Seq(Byte)
    <2>1. CASE v < 128
      <3>1. u = <<v>> /\ v \in Byte
        BY <2>1, ShortLength
      <3> HIDE DEF u
      <3> QED
        BY <3>1
    <2>2. CASE ~(v < 128)
      BY <2>2, LongLength
    <2> QED
      BY <2>1, <2>2
  <1>2. w = <<FirstByte(class, compound, tag)>> \o u /\ FirstByte(class, compound, tag) \in Byte
    BY FirstByteIs DEF WriteTagAndLength, FirstByte, Holds
  <1> HIDE DEF u, w
  <1>3. Len(w) = 1 + Len(u) /\ w[1] = FirstByte(class, compound, tag) /\ \A j \in 1..Len(u) : w[1 + j] = u[j]
    BY <1>1, <1>2
  <1> QED
    BY <1>1, <1>3 DEF u, w

\* A header is sized as it is written, read as it was written, and refused
\* when the data ends before it does.
HeaderReadsBack(class, compound, tag, length, bs, off) ==
  LET w == WriteTagAndLength(class, compound, tag, length)
  IN /\ SizeTagAndLength(tag, length) = Len(w)
     /\ StandsAt(bs, off, w) =>
          ParseTagAndLength(bs, off) =
            Done([class |-> class, compound |-> compound, tag |-> tag, length |-> length], off + Len(w))
     /\ CutAt(bs, off, w) => ParseTagAndLength(bs, off) = Fail

LEMMA HeaderLemma ==
  ASSUME NEW class \in 0..3, NEW compound \in BOOLEAN, NEW tag \in 0..30, NEW v \in Nat, v \in Wide,
         NEW bs \in Seq(Byte), NEW off \in Nat
  PROVE  HeaderReadsBack(class, compound, tag, v, bs, off)
  <1> DEFINE w == WriteTagAndLength(class, compound, tag, v)
             u == WriteLength(v)
             b == FirstByte(class, compound, tag)
  <1>1. u \in Seq(Byte) /\ Len(w) = 1 + Len(u) /\ w[1] = b /\ \A j \in 1..Len(u) : w[1 + j] = u[j]
    BY HeaderParts
  <1>2. b \in Byte /\ b % 32 = tag /\ b \div 64 = class /\ (((b \div 32) % 2 = 1) <=> compound)
    <2>1. Holds(b, class, compound, tag)
      BY FirstByteIs, Zenon
    <2> HIDE DEF b
    <2> QED
      BY <2>1, Zenon DEF Holds
  <1>3. SizeTagAndLength(tag, v) = Len(w)
    <2>1. ~(tag >= 31)
      OBVIOUS
    <2>2. PICK x \in Nat : x = Len(u)
      BY <1>1
    <2> HIDE DEF u
    <2>3. x = 1 + (IF v >= 128 THEN 1 + LengthExtra(v) ELSE 0)
      BY <2>2, LengthSized DEF u
    <2>4. SizeTagAndLength(tag, v) = 1 + x
      <3>1. CASE v >= 128
        <4>1. PICK y \in 0..3 : y = LengthExtra(v)
          BY <3>1, LengthSized
        <4> QED
          BY <2>1, <2>3, <3>1, <4>1 DEF SizeTagAndLength
      <3>2. CASE ~(v >= 128)
        BY <2>1, <2>3, <3>2 DEF SizeTagAndLength
      <3> QED
        BY <3>1, <3>2
    <2> QED
      BY <1>1, <2>2, <2>4
  <1>4. bs[off + 1] = b /\ off < Len(bs)
        => ParseTagAndLength(bs, off) =
             LET len == ParseLength(bs, off + 1)
             IN IF ~len.ok THEN Fail
                ELSE Done([class |-> class, compound |-> compound, tag |-> tag, length |-> len.val], len.off)
    <2> HIDE DEF b
    <2>1. ~(off < Len(bs) /\ off >= Len(bs)) /\ tag # 31
      OBVIOUS
    <2>2. compound = ((b \div 32) % 2 = 1)
      BY <1>2
    <2>3. ASSUME bs[off + 1] = b, off < Len(bs)
          PROVE  ParseTagAndLength(bs, off) =
                   LET t   == IF b % 32 = 31 THEN ParseBase128Int(bs, off + 1) ELSE Done(b % 32, off + 1)
                       len == IF t.ok THEN ParseLength(bs, t.off) ELSE Fail
                   IN IF ~len.ok THEN Fail
                      ELSE Done([class |-> b \div 64, compound |-> (b \div 32) % 2 = 1,
                                 tag |-> t.val, length |-> len.val], len.off)
      BY <2>1, <2>3, Zenon DEF ParseTagAndLength
    <2>4. Done(tag, off + 1).ok /\ Done(tag, off + 1).off = off + 1 /\ Done(tag, off + 1).val = tag
      BY DEF Done
    <2> QED
      BY <1>2, <2>1, <2>2, <2>3, <2>4, Zenon
  <1>5. ASSUME StandsAt(bs, off, w)
        PROVE  ParseTagAndLength(bs, off) =
                 Done([class |-> class, compound |-> compound, tag |-> tag, length |-> v], off + Len(w))
    <2>1. off + Len(w) <= Len(bs) /\ \A j \in 1..Len(w) : bs[off + j] = w[j]
      BY <1>5 DEF StandsAt
    <2> HIDE DEF w, u, b
    <2>2. bs[off + 1] = b /\ off < Len(bs)
      BY <1>1, <2>1
    <2>3. StandsAt(bs, off + 1, u) /\ off + 1 \in Nat
      BY <1>1, <2>1 DEF StandsAt
    <2>4. ParseLength(bs, off + 1) = Done(v, (off + 1) + Len(u))
      BY <2>3, LengthReadsBack DEF u
    <2>5. (off + 1) + Len(u) = off + Len(w)
      BY <1>1
    <2> QED
      BY <1>4, <2>2, <2>4, <2>5 DEF Done
  <1>6. ASSUME CutAt(bs, off, w) PROVE ParseTagAndLength(bs, off) = Fail
    <2>1. Len(bs) < off + Len(w) /\ \A j \in 1..Len(w) : off + j <= Len(bs) => bs[off + j] = w[j]
      BY <1>6 DEF CutAt
    <2> HIDE DEF w, u, b
    <2>2. CASE off >= Len(bs)
      BY <2>2 DEF ParseTagAndLength
    <2>3. CASE off < Len(bs)
      <3>1. bs[off + 1] = b
        BY <1>1, <2>1, <2>3
      <3>2. CutAt(bs, off + 1, u) /\ off + 1 \in Nat
        BY <1>1, <2>1 DEF CutAt
      <3>3. ParseLength(bs, off + 1) = Fail
        BY <3>2, LengthCut DEF u
      <3> QED
        BY <1>4, <2>3, <3>1, <3>3 DEF Fail
    <2> QED
      BY <2>2, <2>3
  <1> QED
    BY <1>3, <1>5, <1>6 DEF HeaderReadsBack

(***************************************************************************)
(* HeadersReadBack: sizeTagAndLength announces exactly the bytes that      *)
(* writeTagAndLength writes for a tag below 31 and a length below 2^31;    *)
(* wherever they stand, parseTagAndLength reads that tag and length and    *)
(* stops behind them; and it refuses them when the data ends before they   *)
(* do.                                                                     *)
(***************************************************************************)
THEOREM HeadersReadBack ==
  \A class \in 0..3, compound \in BOOLEAN, tag \in 0..30, length \in Wide, bs \in Seq(Byte), off \in Nat :
    HeaderReadsBack(class, compound, tag, length, bs, off)
  BY HeaderLemma, WideNat

-----------------------------------------------------------------------------
(* Integers *)

LEMMA SignedByteIs == \A x : x \in SignedByte <=> x \in Int /\ -128 <= x /\ x <= 127
  BY SMT DEF SignedByte

\* The sign and the first byte make up the number the first byte stands for.
LEMMA SignedDigit ==
  ASSUME NEW x \in Int, x \in SignedByte, NEW d, d = x % 256
  PROVE  d \in Byte /\ (d > 127 <=> x < 0) /\ x = (IF d > 127 THEN -1 ELSE 0) * 256 + d
  <1>1. -128 <= x /\ x <= 127
    BY SignedByteIs
  <1>2. CASE x < 0
    <2>1. d = x + 256
      BY <1>1, <1>2
    <2> QED
      BY <1>1, <1>2, <2>1, ByteIs
  <1>3. CASE ~(x < 0)
    <2>1. d = x
      BY <1>1, <1>3
    <2> QED
      BY <1>1, <1>3, <2>1, ByteIs
  <1> QED
    BY <1>2, <1>3

\* Four bytes are enough for an int32.
LEMMA Int32Rounds ==
  ASSUME NEW i \in Int, i \in Int32
  PROVE  Shifted(i, 256)[3] \in SignedByte
  <1> DEFINE s == Shifted(i, 256)
  <1>1. /\ s[0] = i /\ s[1] \in Int /\ s[2] \in Int /\ s[3] \in Int
        /\ s[1] = i \div 256 /\ s[2] = s[1] \div 256 /\ s[3] = s[2] \div 256
    BY AllRounds
  <1> HIDE DEF s
  <1>2. -8388608 <= s[1] /\ s[1] <= 8388607
    BY SMT, <1>1 DEF Int32
  <1>3. -32768 <= s[2] /\ s[2] <= 32767
    BY SMT, <1>1, <1>2
  <1>4. -128 <= s[3] /\ s[3] <= 127
    BY SMT, <1>1, <1>3
  <1> QED
    BY <1>1, <1>4, SignedByteIs DEF s

LEMMA Int32Size ==
  ASSUME NEW i \in Int, i \in Int32
  PROVE  \E n \in 1..4 :
            /\ n = SizeInt32(i) /\ Shifted(i, 256)[n - 1] \in SignedByte
            /\ WriteInt32(i) \in Seq(Byte) /\ Len(WriteInt32(i)) = n
            /\ \A j \in 1..n : WriteInt32(i)[j] = Digit(i, n - j)
  <1>1. PICK r \in 0..3 : r = Rounds(i, 256, SignedByte) /\ Shifted(i, 256)[r] \in SignedByte
    <2>1. 3 \in 0..5
      OBVIOUS
    <2>2. Rounds(i, 256, SignedByte) \in 0..3 /\ Shifted(i, 256)[Rounds(i, 256, SignedByte)] \in SignedByte
      BY <2>1, Int32Rounds, RoundsStop
    <2> QED
      BY <2>2
  <1>2. PICK n \in 1..4 : n = 1 + r
    OBVIOUS
  <1>3. n = SizeInt32(i) /\ n - 1 = r /\ n \in 0..5
    BY <1>1, <1>2 DEF SizeInt32
  <1>4. WriteInt32(i) = BigEndian(i, n)
    BY <1>3 DEF WriteInt32
  <1>5. /\ BigEndian(i, n) \in Seq(Byte) /\ Len(BigEndian(i, n)) = n
        /\ \A j \in 1..n : BigEndian(i, n)[j] = Digit(i, n - j)
    BY <1>3, BigEndianIs
  <1> QED
    BY <1>1, <1>3, <1>4, <1>5

LEMMA Int32AfterIs ==
  ASSUME NEW bs, NEW off, NEW sign
  PROVE  LET f == Int32After(bs, off, sign)
         IN f = [k \in 0..4 |-> IF k = 0 THEN sign ELSE f[k - 1] * 256 + bs[off + k]]
  <1> DEFINE v1 == sign * 256 + bs[off + 1]
             v2 == v1 * 256 + bs[off + 2]
             v3 == v2 * 256 + bs[off + 3]
             v4 == v3 * 256 + bs[off + 4]
             g == [k \in 0..4 |-> IF k = 0 THEN sign ELSE IF k = 1 THEN v1 ELSE IF k = 2 THEN v2
                      ELSE IF k = 3 THEN v3 ELSE v4]
  <1>1. g = [k \in 0..4 |-> IF k = 0 THEN sign ELSE g[k - 1] * 256 + bs[off + k]]
    OBVIOUS
  <1>2. Int32After(bs, off, sign) =
          CHOOSE f : f = [k \in 0..4 |-> IF k = 0 THEN sign ELSE f[k - 1] * 256 + bs[off + k]]
    BY DEF Int32After
  <1> HIDE DEF g
  <1> QED
    BY <1>1, <1>2

LEMMA Int32AfterNext ==
  ASSUME NEW bs, NEW off, NEW sign, NEW k \in 0..3
  PROVE  /\ Int32After(bs, off, sign)[0] = sign
         /\ Int32After(bs, off, sign)[k + 1] = Int32After(bs, off, sign)[k] * 256 + bs[off + (k + 1)]
  BY Int32AfterIs

\* What the loop finds in the bytes from off on, for a function s that loses
\* one of them with each shift.
LEMMA Int32Loop ==
  ASSUME NEW s, NEW n \in 1..4, NEW bs, NEW off, NEW sign,
         sign * 256 + bs[off + 1] = s[n - 1],
         \A k \in 1..(n - 1) : s[n - (k + 1)] = s[n - k] * 256 + bs[off + (k + 1)]
  PROVE  Int32After(bs, off, sign)[n] = s[0]
  <1> DEFINE f == Int32After(bs, off, sign)
  <1>1. f[1] = s[n - 1]
    <2>1. 0 \in 0..3 /\ 0 + 1 = 1
      OBVIOUS
    <2>2. f[0] = sign /\ f[0 + 1] = f[0] * 256 + bs[off + (0 + 1)]
      BY <2>1, Int32AfterNext
    <2> QED
      BY <2>1, <2>2
  <1>2. \A k \in 1..(n - 1) : f[k] = s[n - k] => f[k + 1] = s[n - (k + 1)]
    <2>1. \A k \in 1..(n - 1) : k \in 0..3
      OBVIOUS
    <2> QED
      BY <2>1, Int32AfterNext
  <1> HIDE DEF f
  <1>3. n >= 2 => f[2] = s[n - 2]
    BY <1>1, <1>2
  <1>4. n >= 3 => f[3] = s[n - 3]
    BY <1>2, <1>3
  <1>5. n >= 4 => f[4] = s[n - 4]
    BY <1>2, <1>4
  <1>6. CASE n = 1
    BY <1>1, <1>6 DEF f
  <1>7. CASE n = 2
    BY <1>3, <1>7 DEF f
  <1>8. CASE n = 3
    BY <1>4, <1>8 DEF f
  <1>9. CASE n = 4
    BY <1>5, <1>9 DEF f
  <1> QED
    BY <1>6, <1>7, <1>8, <1>9

LEMMA IntegerReadsBack ==
  ASSUME NEW i \in Int, i \in Int32
  PROVE  /\ Len(WriteInt32(i)) = SizeInt32(i)
         /\ ParseInt32(WriteInt32(i)) = Done(i, SizeInt32(i))
  <1> DEFINE w == WriteInt32(i)
             s == Shifted(i, 256)
  <1>1. PICK n \in 1..4 : /\ n = SizeInt32(i) /\ s[n - 1] \in SignedByte /\ w \in Seq(Byte) /\ Len(w) = n
                          /\ \A j \in 1..n : w[j] = Digit(i, n - j)
    BY Int32Size
  <1> DEFINE sign == IF w[1] > 127 THEN -1 ELSE 0
  <1>2. sign * 256 + w[1] = s[n - 1]
    <2>1. PICK x \in Int : x = s[n - 1]
      BY <1>1, SignedByteIs
    <2>2. w[1] = x % 256
      <3>1. w[1] = Digit(i, n - 1)
        BY <1>1
      <3> QED
        BY <2>1, <3>1 DEF Digit
    <2> HIDE DEF w, s
    <2>3. x = (IF w[1] > 127 THEN -1 ELSE 0) * 256 + w[1]
      BY <1>1, <2>1, <2>2, SignedDigit
    <2> QED
      BY <2>1, <2>3
  <1>3. \A k \in 1..(n - 1) : s[n - (k + 1)] = s[n - k] * 256 + w[k + 1]
    <2> SUFFICES ASSUME NEW k \in 1..(n - 1) PROVE s[n - (k + 1)] = s[n - k] * 256 + w[k + 1]
      OBVIOUS
    <2>1. PICK j \in 0..4 : j = n - (k + 1)
      OBVIOUS
    <2>2. j + 1 = n - k /\ k + 1 \in 1..n
      BY <2>1
    <2>3. s[j] = s[j + 1] * 256 + Digit(i, j)
      BY OneRound
    <2>4. w[k + 1] = Digit(i, j)
      BY <1>1, <2>1, <2>2
    <2> HIDE DEF s, w
    <2> QED
      BY <2>1, <2>2, <2>3, <2>4
  <1>4. s[0] = i
    BY AllRounds
  <1> HIDE DEF s, w
  <1>5. Int32After(w, 0, sign)[n] = i
    <2>1. \A k \in 1..4 : 0 + k = k
      OBVIOUS
    <2>2. sign * 256 + w[0 + 1] = s[n - 1]
      BY <1>2
    <2>3. \A k \in 1..(n - 1) : s[n - (k + 1)] = s[n - k] * 256 + w[0 + (k + 1)]
      <3> SUFFICES ASSUME NEW k \in 1..(n - 1) PROVE s[n - (k + 1)] = s[n - k] * 256 + w[0 + (k + 1)]
        OBVIOUS
      <3>1. 0 + (k + 1) = k + 1
        OBVIOUS
      <3> QED
        BY <1>3, <3>1
    <2> HIDE DEF sign
    <2>4. Int32After(w, 0, sign)[n] = s[0]
      BY <2>2, <2>3, Int32Loop
    <2> QED
      BY <1>4, <2>4
  <1>6. Len(w) = n /\ ~(n > 4) /\ n > 0 /\ ~(n > 8) /\ 1..0 = {} /\ n - 0 = n /\ 0 + 1 = 1
    BY <1>1
  <1>7. ParseInt32(w) = Done(i, n)
    <2> DEFINE skip == IF Len(w) > 4 THEN Len(w) - 4 ELSE 0
               mark == IF Len(w) > 0 /\ w[skip + 1] > 127 THEN -1 ELSE 0
    <2>1. skip = 0
      BY <1>6
    <2>2. mark = sign
      BY <1>6, <2>1
    <2>3. ParseInt32(w) = IF Len(w) > 8 \/ \E k \in 1..skip : w[k] # (IF mark = -1 THEN 255 ELSE 0)
                          THEN Fail ELSE Done(Int32After(w, skip, mark)[Len(w) - skip], Len(w))
      BY DEF ParseInt32
    <2> HIDE DEF skip, mark, sign
    <2>4. ~ \E k \in 1..skip : w[k] # (IF mark = -1 THEN 255 ELSE 0)
      BY <2>1
    <2> QED
      BY <1>5, <1>6, <2>1, <2>2, <2>3, <2>4
  <1> QED
    BY <1>1, <1>7 DEF w

(***************************************************************************)
(* IntegersReadBack: for every int32, sizeInt32 is the number of bytes     *)
(* that writeInt32 writes, and parseInt32 reads that integer from them:    *)
(* the sign survives at every boundary of one, two and three bytes.        *)
(***************************************************************************)
THEOREM IntegersReadBack ==
  \A i \in Int32 : Len(WriteInt32(i)) = SizeInt32(i) /\ ParseInt32(WriteInt32(i)) = Done(i, SizeInt32(i))
  <1>1. \A i \in Int32 : i \in Int
    BY SMT DEF Int32
  <1> QED
    BY <1>1, IntegerReadsBack

-----------------------------------------------------------------------------
(* What is accepted *)

\* A round of the loop over the bytes of a length that is no error.
GoesOn(bs, off, f, k) ==
  /\ off + (k + 1) <= Len(bs)
  /\ f[k] \in Narrow /\ bs[off + (k + 1)] \in Byte
  /\ f[k + 1] = f[k] * 256 + bs[off + (k + 1)]

LEMMA LengthStepBack ==
  ASSUME NEW bs \in Seq(Byte), NEW off \in Nat, NEW k \in 0..3, NEW f, f = LengthAfter(bs, off),
         f[k] \in Nat \/ f[k] = -1
  PROVE  /\ f[k + 1] \in Nat \/ f[k + 1] = -1
         /\ f[k + 1] # -1 => f[k] # -1 /\ GoesOn(bs, off, f, k)
  <1>1. f[k + 1] = LengthStep(bs, off, f[k], k + 1)
    BY LengthAfterNext
  <1>2. SUFFICES ASSUME f[k + 1] # -1 PROVE f[k + 1] \in Nat /\ f[k] # -1 /\ GoesOn(bs, off, f, k)
    OBVIOUS
  <1>3. /\ f[k] # -1 /\ ~(off + (k + 1) > Len(bs)) /\ ~(f[k] >= ShiftLimit)
        /\ f[k + 1] = f[k] * 256 + bs[off + (k + 1)]
    BY <1>1, <1>2 DEF LengthStep
  <1>4. PICK a \in Nat : a = f[k]
    BY <1>3
  <1>5. off + (k + 1) <= Len(bs) /\ off + (k + 1) \in 1..Len(bs)
    BY <1>3
  <1>6. bs[off + (k + 1)] \in Byte
    BY <1>5
  <1>7. PICK b \in Nat : b = bs[off + (k + 1)]
    BY <1>6, ByteIs
  <1>8. a \in Narrow
    BY SMT, <1>3, <1>4 DEF Narrow, ShiftLimit
  <1>9. f[k + 1] \in Nat
    BY SMTT(30), <1>3, <1>4, <1>7
  <1> QED
    BY <1>3, <1>4, <1>5, <1>6, <1>8, <1>9 DEF GoesOn

LEMMA LengthBack ==
  ASSUME NEW bs \in Seq(Byte), NEW off \in Nat, NEW n \in 1..4, LengthAfter(bs, off)[n] # -1
  PROVE  \A k \in 0..(n - 1) : GoesOn(bs, off, LengthAfter(bs, off), k)
  <1>1. PICK f : f = LengthAfter(bs, off)
    OBVIOUS
  <1>2. f[0] = 0
    BY <1>1, LengthAfterNext
  <1> DEFINE OK(k) == f[k] \in Nat \/ f[k] = -1
  <1>3. \A k \in 0..3 : OK(k) => /\ OK(k + 1)
                                 /\ f[k + 1] # -1 => f[k] # -1 /\ GoesOn(bs, off, f, k)
    BY <1>1, LengthStepBack
  <1>4. OK(0) /\ OK(1) /\ OK(2) /\ OK(3)
    <2>1. OK(0)
      BY <1>2
    <2>2. OK(1)
      BY <1>3, <2>1
    <2>3. OK(2)
      BY <1>3, <2>2
    <2>4. OK(3)
      BY <1>3, <2>3
    <2> QED
      BY <2>1, <2>2, <2>3, <2>4
  <1>5. \A k \in 0..3 : f[k + 1] # -1 => f[k] # -1 /\ GoesOn(bs, off, f, k)
    <2>1. \A k \in 0..3 : OK(k)
      BY <1>4
    <2> QED
      BY <1>3, <2>1
  <1> HIDE DEF OK
  <1>6. \A k \in 0..n : f[k] # -1
    <2>1. f[n] # -1
      BY <1>1
    <2>2. \A k \in 0..3 : f[k + 1] # -1 => f[k] # -1
      BY <1>5
    <2>3. f[0] # -1
      BY <1>2
    <2>4. n >= 1 => f[1] # -1
      <3>1. f[4] # -1 => f[3] # -1
        BY <2>2
      <3>2. f[3] # -1 => f[2] # -1
        BY <2>2
      <3>3. f[2] # -1 => f[1] # -1
        BY <2>2
      <3> QED
        BY <2>1, <3>1, <3>2, <3>3
    <2>5. n >= 2 => f[2] # -1
      <3>1. f[4] # -1 => f[3] # -1
        BY <2>2
      <3>2. f[3] # -1 => f[2] # -1
        BY <2>2
      <3> QED
        BY <2>1, <3>1, <3>2
    <2>6. n >= 3 => f[3] # -1
      <3>1. f[4] # -1 => f[3] # -1
        BY <2>2
      <3> QED
        BY <2>1, <3>1
    <2> QED
      BY <2>1, <2>3, <2>4, <2>5, <2>6
  <1>7. \A k \in 0..(n - 1) : GoesOn(bs, off, f, k)
    BY <1>5, <1>6
  <1> QED
    BY <1>1, <1>7

\* Bytes shifted into a number are shifted out of it again.
Gathered(f, n) ==
  /\ \A k \in 0..n : f[k] \in Int
  /\ \A k \in 0..(n - 1) : f[k + 1] - f[k] * 256 \in Byte

LEMMA ShiftedBack ==
  ASSUME NEW n \in 1..4, NEW f, Gathered(f, n)
  PROVE  \A k \in 0..n : Shifted(f[n], 256)[k] = f[n - k]
  <1>0. (\A k \in 0..n : f[k] \in Int) /\ \A k \in 0..(n - 1) : f[k + 1] - f[k] * 256 \in Byte
    BY Zenon DEF Gathered
  <1>1. PICK v \in Int : v = f[n]
    BY <1>0
  <1> DEFINE s == Shifted(v, 256)
  <1>2. s[0] = v
    BY AllRounds
  <1>4. ASSUME NEW k \in 0..(n - 1), s[k] = f[n - k] PROVE s[k + 1] = f[n - (k + 1)]
    <2>1. PICK i \in 0..(n - 1) : i = n - (k + 1)
      OBVIOUS
    <2>2. i + 1 = n - k /\ k \in 0..4 /\ i \in 0..n /\ i + 1 \in 0..n
      BY <2>1
    <2>3. PICK a \in Int : a = f[i]
      BY <1>0, <2>2
    <2>4. PICK b \in Int : b = f[i + 1]
      BY <1>0, <2>2
    <2>5. b - a * 256 \in Byte
      BY <1>0, <2>1, <2>3, <2>4
    <2>6. b - a * 256 >= 0 /\ b - a * 256 <= 255
      BY <2>3, <2>4, <2>5, ByteIs
    <2>7. b \div 256 = a
      BY <2>6
    <2>8. s[k + 1] = s[k] \div 256
      BY <2>2, NextRound
    <2> HIDE DEF s
    <2> QED
      BY <1>4, <2>1, <2>2, <2>3, <2>4, <2>7, <2>8
  <1> HIDE DEF s
  <1>5. s[0] = f[n - 0]
    BY <1>1, <1>2
  <1>6. s[1] = f[n - 1]
    BY <1>4, <1>5
  <1>7. n >= 2 => s[2] = f[n - 2]
    BY <1>4, <1>6
  <1>8. n >= 3 => s[3] = f[n - 3]
    BY <1>4, <1>7
  <1>9. n >= 4 => s[4] = f[n - 4]
    BY <1>4, <1>8
  <1>10. ASSUME NEW k \in 0..n PROVE s[k] = f[n - k]
    <2>1. CASE k = 0
      BY <1>5, <2>1
    <2>2. CASE k = 1
      BY <1>6, <2>2
    <2>3. CASE k = 2
      BY <1>7, <2>3
    <2>4. CASE k = 3
      BY <1>8, <2>4
    <2>5. CASE k = 4
      BY <1>9, <2>5
    <2> QED
      BY <2>1, <2>2, <2>3, <2>4, <2>5
  <1> QED
    BY <1>1, <1>10 DEF s

\* A length that is accepted is one the writer can write, in no more bytes.
LEMMA LongAccepted ==
  ASSUME NEW bs \in Seq(Byte), NEW off \in Nat, NEW n \in 1..4, LengthAfter(bs, off)[n] # -1
  PROVE  LET v == LengthAfter(bs, off)[n]
         IN v \in Nat /\ v \in Wide /\ off + n <= Len(bs) /\ Len(WriteLength(v)) <= n + 1
  <1>1. PICK f : f = LengthAfter(bs, off)
    OBVIOUS
  <1>2. \A k \in 0..(n - 1) : GoesOn(bs, off, f, k)
    BY <1>1, LengthBack
  <1>3. f[0] = 0
    BY <1>1, LengthAfterNext
  <1>4. \A k \in 0..(n - 1) :
          f[k] \in Nat /\ f[k + 1] \in Nat /\ f[k + 1] - f[k] * 256 \in Byte
    <2> SUFFICES ASSUME NEW k \in 0..(n - 1)
                 PROVE  f[k] \in Nat /\ f[k + 1] \in Nat /\ f[k + 1] - f[k] * 256 \in Byte
      OBVIOUS
    <2>1. GoesOn(bs, off, f, k)
      BY <1>2
    <2>2. PICK a \in Nat : a = f[k]
      BY <2>1 DEF GoesOn, Narrow
    <2>3. PICK b \in Nat : b = bs[off + (k + 1)] /\ b \in Byte
      BY <2>1, ByteIs DEF GoesOn
    <2>4. f[k + 1] = a * 256 + b
      BY <2>1, <2>2, <2>3 DEF GoesOn
    <2>5. a * 256 + b \in Nat /\ (a * 256 + b) - a * 256 = b
      OBVIOUS
    <2>6. f[k] \in Nat /\ f[k + 1] \in Nat
      BY <2>2, <2>4, <2>5, Zenon
    <2>7. f[k + 1] - f[k] * 256 = b
      BY <2>2, <2>4, <2>5, Zenon
    <2> QED
      BY <2>3, <2>6, <2>7, Zenon
  <1>5. PICK m \in 0..3 : m = n - 1
    OBVIOUS
  <1>6. m + 1 = n /\ m \in 0..(n - 1)
    BY <1>5
  <1>7. PICK v \in Nat : v = f[n]
    BY <1>4, <1>6
  <1>8. v \in Wide /\ off + n <= Len(bs)
    <2>1. GoesOn(bs, off, f, m)
      BY <1>2, <1>6
    <2>2. PICK a \in Nat : a = f[m] /\ a <= 8388607
      BY SMT, <2>1 DEF GoesOn, Narrow, ShiftLimit
    <2>3. PICK b \in Nat : b = bs[off + (m + 1)] /\ b <= 255
      BY <2>1, ByteIs DEF GoesOn
    <2>4. v = a * 256 + b
      BY <1>6, <1>7, <2>1, <2>2, <2>3 DEF GoesOn
    <2>5. v \in Wide
      BY SMTT(30), <2>2, <2>3, <2>4 DEF Wide
    <2> QED
      BY <1>6, <2>1, <2>5 DEF GoesOn
  <1>9. Shifted(v, 256)[n] = 0
    <2>1. \A k \in 0..n : f[k] \in Int
      BY <1>4, <1>6, <1>7
    <2>2. \A k \in 0..n : Shifted(f[n], 256)[k] = f[n - k]
      <3>1. \A k \in 0..(n - 1) : f[k + 1] - f[k] * 256 \in Byte
        BY <1>4, Zenon
      <3>2. Gathered(f, n)
        BY <2>1, <3>1, Zenon DEF Gathered
      <3> QED
        BY <3>2, ShiftedBack
    <2>3. n \in 0..n /\ n - n = 0
      OBVIOUS
    <2> QED
      BY <1>3, <1>7, <2>2, <2>3
  <1>10. Len(WriteLength(v)) <= n + 1
    <2>1. CASE v < 128
      <3>1. Len(WriteLength(v)) = 1
        BY <1>8, <2>1, ShortLength
      <3> QED
        BY <3>1
    <2>2. CASE ~(v < 128)
      <3>1. PICK r \in 1..4 : r = Rounds(v, 256, {0}) /\ Len(WriteLength(v)) = r + 1
        BY <1>8, <2>2, LongLength
      <3>2. Rounds(v, 256, {0}) \in 0..n
        BY <1>9, RoundsStop
      <3> QED
        BY <3>1, <3>2
    <2> QED
      BY <2>1, <2>2
  <1> QED
    BY <1>1, <1>7, <1>8, <1>10

LEMMA LengthAccepted ==
  ASSUME NEW bs \in Seq(Byte), NEW off \in Nat, ParseLength(bs, off).ok
  PROVE  \E v \in Nat, z \in Nat :
            /\ ParseLength(bs, off) = Done(v, z) /\ v \in Wide
            /\ off + Len(WriteLength(v)) <= z /\ z <= Len(bs)
  <1>1. off < Len(bs)
    BY DEF ParseLength, Fail
  <1>2. PICK b \in Nat : b = bs[off + 1] /\ b <= 255
    <2>1. off + 1 \in 1..Len(bs)
      BY <1>1
    <2>2. bs[off + 1] \in Byte
      BY <2>1
    <2> QED
      BY <2>2, ByteIs
  <1>3. ~(off >= Len(bs))
    BY <1>1
  <1>4. CASE b < 128
    <2>1. ParseLength(bs, off) = Done(b, off + 1)
      BY <1>2, <1>3, <1>4 DEF ParseLength
    <2>2. b \in Wide
      BY SMT, <1>4 DEF Wide
    <2>3. Len(WriteLength(b)) = 1
      BY <1>4, <2>2, ShortLength
    <2>4. off + 1 \in Nat /\ off + 1 <= off + 1 /\ off + 1 <= Len(bs)
      BY <1>1
    <2> QED
      BY <2>1, <2>2, <2>3, <2>4
  <1>5. CASE ~(b < 128)
    <2>1. PICK n \in Nat : n = b - 128
      BY <1>5
    <2> DEFINE len == IF n > 4 THEN -1 ELSE LengthAfter(bs, off + 1)[n]
    <2>2. ParseLength(bs, off) = IF n = 0 \/ len = -1 THEN Fail ELSE Done(len, off + 1 + n)
      BY <1>2, <1>3, <1>5, <2>1 DEF ParseLength
    <2>3. n # 0 /\ len # -1
      BY <2>2 DEF Fail
    <2>4. n \in 1..4 /\ len = LengthAfter(bs, off + 1)[n] /\ off + 1 \in Nat
      BY <2>3
    <2> HIDE DEF len
    <2>5. PICK v \in Nat : v = len /\ v \in Wide /\ (off + 1) + n <= Len(bs) /\ Len(WriteLength(v)) <= n + 1
      BY <2>3, <2>4, LongAccepted
    <2>6. ParseLength(bs, off) = Done(v, off + 1 + n)
      BY <2>2, <2>3, <2>5
    <2>7. PICK z \in Nat : z = off + 1 + n
      OBVIOUS
    <2>8. PICK y \in Nat : y = Len(WriteLength(v))
      <3>1. v < 128 => Len(WriteLength(v)) = 1
        BY <2>5, ShortLength
      <3>2. ~(v < 128) => \E r \in 1..4 : Len(WriteLength(v)) = r + 1
        BY <2>5, LongLength
      <3> QED
        BY <3>1, <3>2
    <2>9. off + y <= z /\ z <= Len(bs)
      BY <2>5, <2>7, <2>8
    <2> QED
      BY <2>5, <2>6, <2>7, <2>8, <2>9
  <1> QED
    BY <1>4, <1>5

LEMMA Base128Accepted ==
  ASSUME NEW bs, NEW off \in Nat, ParseBase128Int(bs, off).ok
  PROVE  \E z \in Nat : off < z /\ \E tag : ParseBase128Int(bs, off) = Done(tag, z)
  <1> DEFINE ends == {n \in 1..5 : off + n <= Len(bs) /\ bs[off + n] < 128}
             last == CHOOSE n \in ends : \A m \in ends : n <= m
  <1>1. ends # {} /\ \E tag : ParseBase128Int(bs, off) = Done(tag, off + last)
    BY DEF ParseBase128Int, Fail
  <1>2. \E n \in ends : \A m \in ends : n <= m
    <2>1. ends \subseteq 1..5
      OBVIOUS
    <2> HIDE DEF ends
    <2>2. \A n \in ends : n = 1 \/ n = 2 \/ n = 3 \/ n = 4 \/ n = 5
      BY <2>1
    <2>3. CASE 1 \in ends
      BY <2>2, <2>3
    <2>4. CASE 1 \notin ends /\ 2 \in ends
      BY <2>2, <2>4
    <2>5. CASE 1 \notin ends /\ 2 \notin ends /\ 3 \in ends
      BY <2>2, <2>5
    <2>6. CASE 1 \notin ends /\ 2 \notin ends /\ 3 \notin ends /\ 4 \in ends
      BY <2>2, <2>6
    <2>7. CASE 1 \notin ends /\ 2 \notin ends /\ 3 \notin ends /\ 4 \notin ends
      BY <1>1, <2>2, <2>7
    <2> QED
      BY <2>3, <2>4, <2>5, <2>6, <2>7
  <1>3. last \in ends
    BY <1>2
  <1>4. last \in 1..5
    BY <1>3
  <1> HIDE DEF last
  <1>5. PICK z \in Nat : z = off + last /\ off < z
    BY <1>4
  <1> QED
    BY <1>1, <1>5

LEMMA HeaderAccepted ==
  ASSUME NEW bs \in Seq(Byte), NEW off \in Nat, ParseTagAndLength(bs, off).ok
  PROVE  \E v \in Nat, z \in Nat :
            /\ \E class, compound, tag : ParseTagAndLength(bs, off) =
                 Done([class |-> class, compound |-> compound, tag |-> tag, length |-> v], z)
            /\ v \in Wide /\ z <= Len(bs)
            /\ (off + 1) + Len(WriteLength(v)) <= z
  <1> DEFINE b   == bs[off + 1]
             tag == IF b % 32 = 31 THEN ParseBase128Int(bs, off + 1) ELSE Done(b % 32, off + 1)
             len == IF tag.ok THEN ParseLength(bs, tag.off) ELSE Fail
  <1>1. off < Len(bs)
    BY DEF ParseTagAndLength, Fail
  <1>2. ParseTagAndLength(bs, off) =
          IF ~len.ok THEN Fail
          ELSE Done([class |-> b \div 64, compound |-> (b \div 32) % 2 = 1,
                     tag |-> tag.val, length |-> len.val], len.off)
    <2>1. ~(off >= Len(bs))
      BY <1>1
    <2> QED
      BY <2>1, Zenon DEF ParseTagAndLength
  <1>3. ~Fail.ok
    BY DEF Fail
  <1>4. len.ok /\ tag.ok
    <2> HIDE DEF tag
    <2>1. len.ok
      <3> HIDE DEF len
      <3> QED
        BY <1>2, <1>3
    <2> QED
      BY <1>3, <2>1
  <1>5. PICK y \in Nat : off + 1 <= y /\ \E t : tag = Done(t, y)
    <2>1. CASE b % 32 = 31
      <3>1. off + 1 \in Nat /\ ParseBase128Int(bs, off + 1).ok
        BY <1>4, <2>1
      <3>2. \E y \in Nat : off + 1 < y /\ \E t : ParseBase128Int(bs, off + 1) = Done(t, y)
        BY <3>1, Base128Accepted
      <3>3. \A y \in Nat : off + 1 < y => off + 1 <= y
        OBVIOUS
      <3> QED
        BY <2>1, <3>2, <3>3
    <2>2. CASE b % 32 # 31
      <3>1. off + 1 \in Nat /\ off + 1 <= off + 1
        OBVIOUS
      <3> QED
        BY <2>2, <3>1
    <2> QED
      BY <2>1, <2>2
  <1>6. tag.off = y
    <2> HIDE DEF tag
    <2> QED
      BY <1>5 DEF Done
  <1>7. len = ParseLength(bs, y)
    BY <1>4, <1>6
  <1> DEFINE class == b \div 64
             compound == (b \div 32) % 2 = 1
             number == tag.val
  <1> HIDE DEF tag, len, class, compound, number
  <1>8. PICK v \in Nat, z \in Nat : ParseLength(bs, y) = Done(v, z) /\ v \in Wide
                                    /\ y + Len(WriteLength(v)) <= z /\ z <= Len(bs)
    BY <1>4, <1>7, LengthAccepted
  <1>9. len.val = v /\ len.off = z
    BY <1>7, <1>8 DEF Done
  <1>10. ParseTagAndLength(bs, off) =
           Done([class |-> class, compound |-> compound, tag |-> number, length |-> v], z)
    BY <1>2, <1>4, <1>9 DEF class, compound, number
  <1>11. (off + 1) + Len(WriteLength(v)) <= z
    <2>1. PICK x \in Nat : x = Len(WriteLength(v))
      <3>1. v < 128 => Len(WriteLength(v)) = 1
        BY <1>8, ShortLength
      <3>2. ~(v < 128) => \E r \in 1..4 : Len(WriteLength(v)) = r + 1
        BY <1>8, LongLength
      <3> QED
        BY <3>1, <3>2
    <2>2. (off + 1) + x <= z
      BY <1>5, <1>8, <2>1
    <2> QED
      BY <2>1, <2>2
  <1> QED
    BY <1>8, <1>10, <1>11

\* The number in one to four bytes is an int32 that takes no more of them.
LEMMA Int32Bytes ==
  ASSUME NEW bs, NEW off \in Nat, NEW m \in 1..4, \A k \in 1..m : bs[off + k] \in Byte,
         NEW sign \in {-1, 0}, sign = -1 <=> bs[off + 1] > 127
  PROVE  LET v == Int32After(bs, off, sign)[m] IN v \in Int /\ v \in Int32 /\ SizeInt32(v) \in 1..m
  <1>1. PICK f : f = Int32After(bs, off, sign)
    OBVIOUS
  <1>2. f[0] = sign /\ \A k \in 0..3 : f[k + 1] = f[k] * 256 + bs[off + (k + 1)]
    BY <1>1, Int32AfterNext
  <1>3. \A k \in 1..m : bs[off + k] \in Nat /\ bs[off + k] <= 255
    BY ByteIs
  <1>4. PICK a \in Int : a = f[1] /\ -128 <= a /\ a <= 127 /\ a - f[0] * 256 \in Byte
    <2>1. PICK b \in Nat : b = bs[off + 1] /\ b <= 255 /\ b \in Byte
      BY <1>3
    <2>2. f[0 + 1] = f[0] * 256 + bs[off + (0 + 1)]
      BY <1>2
    <2>3. f[1] = sign * 256 + b
      BY <1>2, <2>1, <2>2
    <2>4. CASE sign = -1
      BY <1>2, <2>1, <2>3, <2>4
    <2>5. CASE sign = 0
      BY <1>2, <2>1, <2>3, <2>5
    <2> QED
      BY <2>4, <2>5
  <1>5. m >= 2 => \E c \in Int : c = f[2] /\ -32768 <= c /\ c <= 32767 /\ c - f[1] * 256 \in Byte
    <2> HAVE m >= 2
    <2>1. PICK b \in Nat : b = bs[off + 2] /\ b <= 255 /\ b \in Byte
      BY <1>3
    <2>2. f[1 + 1] = f[1] * 256 + bs[off + (1 + 1)]
      BY <1>2
    <2>3. f[2] = a * 256 + b
      BY <1>4, <2>1, <2>2
    <2>4. -32768 <= a * 256 + b /\ a * 256 + b <= 32767 /\ (a * 256 + b) - a * 256 = b
      BY SMT, <1>4, <2>1
    <2> QED
      BY SMT, <1>4, <2>1, <2>3, <2>4
  <1>6. m >= 3 => \E c \in Int : c = f[3] /\ -8388608 <= c /\ c <= 8388607 /\ c - f[2] * 256 \in Byte
    <2> HAVE m >= 3
    <2>1. PICK b \in Nat : b = bs[off + 3] /\ b <= 255 /\ b \in Byte
      BY SMT, <1>3
    <2>2. f[2 + 1] = f[2] * 256 + bs[off + (2 + 1)]
      BY SMT, <1>2
    <2>3. PICK c \in Int : c = f[2] /\ -32768 <= c /\ c <= 32767
      BY SMT, <1>5
    <2>4. f[3] = c * 256 + b
      BY SMT, <2>1, <2>2, <2>3
    <2>5. -8388608 <= c * 256 + b /\ c * 256 + b <= 8388607 /\ (c * 256 + b) - c * 256 = b
      BY SMT, <2>1, <2>3
    <2> QED
      BY SMT, <2>1, <2>3, <2>4, <2>5
  <1>7. m >= 4 => \E c \in Int : c = f[4] /\ -2147483648 <= c /\ c <= 2147483647 /\ c - f[3] * 256 \in Byte
    <2> HAVE m >= 4
    <2>1. PICK b \in Nat : b = bs[off + 4] /\ b <= 255 /\ b \in Byte
      BY SMT, <1>3
    <2>2. f[3 + 1] = f[3] * 256 + bs[off + (3 + 1)]
      BY SMT, <1>2
    <2>3. PICK c \in Int : c = f[3] /\ -8388608 <= c /\ c <= 8388607
      BY SMT, <1>6
    <2>4. f[4] = c * 256 + b
      BY SMT, <2>1, <2>2, <2>3
    <2>5. -2147483648 <= c * 256 + b /\ c * 256 + b <= 2147483647 /\ (c * 256 + b) - c * 256 = b
      BY SMT, <2>1, <2>3
    <2> QED
      BY SMT, <2>1, <2>3, <2>4, <2>5
  <1>8. \A k \in 1..m : f[k] \in Int /\ f[k] \in Int32 /\ f[k] - f[k - 1] * 256 \in Byte
    <2> SUFFICES ASSUME NEW k \in 1..m PROVE f[k] \in Int /\ f[k] \in Int32 /\ f[k] - f[k - 1] * 256 \in Byte
      OBVIOUS
    <2>1. CASE k = 1
      BY SMT, <1>4, <2>1 DEF Int32
    <2>2. CASE k = 2
      BY SMT, <1>5, <2>2 DEF Int32
    <2>3. CASE k = 3
      BY SMT, <1>6, <2>3 DEF Int32
    <2>4. CASE k = 4
      BY SMT, <1>7, <2>4 DEF Int32
    <2> QED
      BY <2>1, <2>2, <2>3, <2>4
  <1>9. \A k \in 0..m : Shifted(f[m], 256)[k] = f[m - k]
    <2>1. \A k \in 0..m : f[k] \in Int
      BY <1>2, <1>8
    <2>2. \A k \in 0..(m - 1) : f[k + 1] - f[k] * 256 \in Byte
      <3> SUFFICES ASSUME NEW k \in 0..(m - 1) PROVE f[k + 1] - f[k] * 256 \in Byte
        OBVIOUS
      <3>1. k + 1 \in 1..m /\ (k + 1) - 1 = k
        OBVIOUS
      <3>2. f[k + 1] - f[(k + 1) - 1] * 256 \in Byte
        BY <1>8, <3>1
      <3> QED
        BY <3>1, <3>2
    <2> QED
      <3>1. Gathered(f, m)
        BY <2>1, <2>2, Zenon DEF Gathered
      <3> QED
        BY <3>1, ShiftedBack
  <1>10. PICK v \in Int : v = f[m] /\ v \in Int32
    BY <1>8
  <1>11. PICK i \in 0..5 : i = m - 1
    OBVIOUS
  <1>12. Shifted(v, 256)[i] \in SignedByte
    <2>1. i \in 0..m /\ m - i = 1
      BY <1>11
    <2>2. Shifted(v, 256)[i] = f[1]
      BY <1>9, <1>10, <2>1
    <2> QED
      BY <1>4, <2>2, SignedByteIs
  <1>13. Rounds(v, 256, SignedByte) \in 0..i
    BY <1>12, RoundsStop
  <1>14. SizeInt32(v) \in 1..m
    BY <1>11, <1>13 DEF SizeInt32
  <1> QED
    BY <1>1, <1>10, <1>14

LEMMA IntegerAccepted ==
  ASSUME NEW bs \in Seq(Byte), ParseInt32(bs).ok
  PROVE  \E v \in Int : /\ ParseInt32(bs) = Done(v, Len(bs)) /\ v \in Int32
                        /\ SizeInt32(v) <= (IF Len(bs) = 0 THEN 1 ELSE Len(bs))
  <1>1. PICK n \in Nat : n = Len(bs)
    OBVIOUS
  <1> DEFINE skip == IF n > 4 THEN n - 4 ELSE 0
             sign == IF n > 0 /\ bs[skip + 1] > 127 THEN -1 ELSE 0
             bad == n > 8 \/ \E i \in 1..skip : bs[i] # (IF sign = -1 THEN 255 ELSE 0)
  <1>2. ParseInt32(bs) = IF bad THEN Fail ELSE Done(Int32After(bs, skip, sign)[n - skip], n)
    BY <1>1 DEF ParseInt32
  <1>3. ParseInt32(bs) = Done(Int32After(bs, skip, sign)[n - skip], n)
    <2>1. ~Fail.ok
      BY DEF Fail
    <2> HIDE DEF skip, sign, bad
    <2> QED
      BY <1>2, <2>1
  <1>4. CASE n = 0
    <2>1. skip = 0 /\ sign = 0 /\ n - skip = 0
      BY <1>4
    <2> HIDE DEF skip, sign
    <2>2. Int32After(bs, 0, 0)[0] = 0
      BY Int32AfterNext
    <2>3. 0 \in Int32
      BY SMT DEF Int32
    <2>4. Shifted(0, 256)[0] \in SignedByte
      <3>1. Shifted(0, 256)[0] = 0
        BY AllRounds
      <3>2. 0 \in SignedByte
        BY SignedByteIs
      <3> QED
        BY <3>1, <3>2
    <2>5. Rounds(0, 256, SignedByte) \in 0..0
      BY <2>4, RoundsStop
    <2>6. SizeInt32(0) = 1
      BY <2>5 DEF SizeInt32
    <2> QED
      BY <1>1, <1>3, <1>4, <2>1, <2>2, <2>3, <2>6
  <1>5. CASE n # 0
    <2>1. skip \in Nat /\ n - skip \in 1..4 /\ n - skip <= n /\ sign \in {-1, 0} /\ n > 0
      BY <1>5
    <2>2. sign = -1 <=> bs[skip + 1] > 127
      BY <2>1
    <2> HIDE DEF skip, sign
    <2>3. PICK m \in 1..4 : m = n - skip
      BY <2>1
    <2>4. \A k \in 1..m : bs[skip + k] \in Byte
      <3>1. \A k \in 1..m : skip + k \in 1..Len(bs)
        BY <1>1, <2>1, <2>3
      <3> QED
        BY <3>1
    <2>5. PICK v \in Int : v = Int32After(bs, skip, sign)[m] /\ v \in Int32 /\ SizeInt32(v) \in 1..m
      BY <2>1, <2>2, <2>4, Int32Bytes
    <2>6. SizeInt32(v) <= n
      BY <2>1, <2>3, <2>5
    <2> QED
      BY <1>1, <1>3, <1>5, <2>3, <2>5, <2>6
  <1> QED
    BY <1>4, <1>5

\* What is accepted as a header or as an integer could have been written, in
\* no more bytes than it came in; an integer of no bytes comes in one.
AcceptedHeader(bs, off) ==
  LET h == ParseTagAndLength(bs, off)
  IN h.ok => /\ h.val.length \in Wide /\ h.off <= Len(bs)
             /\ h.val.tag \in 0..30 => off + SizeTagAndLength(h.val.tag, h.val.length) <= h.off

AcceptedInteger(bs) ==
  LET r == ParseInt32(bs)
  IN r.ok => /\ r.val \in Int32 /\ r.off = Len(bs)
             /\ SizeInt32(r.val) <= (IF Len(bs) = 0 THEN 1 ELSE Len(bs))

(***************************************************************************)
(* AcceptedIsWritable: whatever the bytes are, a header that               *)
(* parseTagAndLength accepts has a length below 2^31, ends within the      *)
(* data and, with a tag below 31 as all of LDAP have, takes no more bytes  *)
(* when it is written again; an integer that parseInt32 accepts is an      *)
(* int32 that takes no more bytes, but for the one without any, which is   *)
(* read as 0.                                                              *)
(***************************************************************************)
THEOREM AcceptedIsWritable ==
  \A bs \in Seq(Byte), off \in Nat : AcceptedHeader(bs, off) /\ AcceptedInteger(bs)
  <1> SUFFICES ASSUME NEW bs \in Seq(Byte), NEW off \in Nat
               PROVE  AcceptedHeader(bs, off) /\ AcceptedInteger(bs)
    OBVIOUS
  <1>1. AcceptedHeader(bs, off)
    <2> DEFINE h == ParseTagAndLength(bs, off)
    <2> SUFFICES ASSUME h.ok
                 PROVE  /\ h.val.length \in Wide /\ h.off <= Len(bs)
                        /\ h.val.tag \in 0..30 => off + SizeTagAndLength(h.val.tag, h.val.length) <= h.off
      BY DEF AcceptedHeader
    <2>1. PICK v \in Nat, z \in Nat :
            /\ \E class, compound, tag :
                 h = Done([class |-> class, compound |-> compound, tag |-> tag, length |-> v], z)
            /\ v \in Wide /\ z <= Len(bs) /\ (off + 1) + Len(WriteLength(v)) <= z
      BY HeaderAccepted
    <2> HIDE DEF h
    <2>2. h.val.length = v /\ h.off = z
      BY <2>1 DEF Done
    <2>3. ASSUME NEW tag \in 0..30 PROVE off + SizeTagAndLength(tag, v) <= z
      <3>1. PICK bs0 : bs0 = WriteTagAndLength(0, FALSE, tag, v)
        OBVIOUS
      <3>2. SizeTagAndLength(tag, v) = Len(bs0)
        <4>1. 0 \in 0..3 /\ FALSE \in BOOLEAN
          OBVIOUS
        <4> QED
          BY <2>1, <3>1, <4>1, HeaderLemma DEF HeaderReadsBack
      <3>3. WriteLength(v) \in Seq(Byte) /\ Len(bs0) = 1 + Len(WriteLength(v))
        <4>1. 0 \in 0..3 /\ FALSE \in BOOLEAN
          OBVIOUS
        <4> QED
          BY <2>1, <3>1, <4>1, HeaderParts
      <3>4. PICK x \in Nat : x = Len(WriteLength(v))
        BY <3>3
      <3>5. off + (1 + x) <= z
        BY <2>1, <3>4
      <3> QED
        BY <3>2, <3>3, <3>4, <3>5
    <2> QED
      BY <2>1, <2>2, <2>3
  <1>2. AcceptedInteger(bs)
    <2> DEFINE r == ParseInt32(bs)
    <2> SUFFICES ASSUME r.ok
                 PROVE  /\ r.val \in Int32 /\ r.off = Len(bs)
                        /\ SizeInt32(r.val) <= (IF Len(bs) = 0 THEN 1 ELSE Len(bs))
      BY DEF AcceptedInteger
    <2>1. PICK v \in Int : /\ r = Done(v, Len(bs)) /\ v \in Int32
                           /\ SizeInt32(v) <= (IF Len(bs) = 0 THEN 1 ELSE Len(bs))
      BY IntegerAccepted
    <2> HIDE DEF r
    <2>2. r.val = v /\ r.off = Len(bs)
      BY <2>1 DEF Done
    <2> QED
      BY <2>1, <2>2
  <1> QED
    BY <1>1, <1>2
=============================================================================
