----------------------------- MODULE LdapServer -----------------------------
(***************************************************************************)
(* lib/ldapsrv: the server that accepts connections (ldapsrv.go) and the   *)
(* goroutines of each connection (client.go): the one that reads and       *)
(* handles requests one after the other, the writer behind the unbuffered  *)
(* channel chanOut, and the notifier that waits for the server to stop.    *)
(* Goldap models the bytes; here a message is its kind and its number.     *)
(***************************************************************************)
EXTENDS Integers, Sequences, SequencesExt, FiniteSets

CONSTANTS Conns,        \* connections the server may accept
          MaxRequests,  \* requests a client sends on one connection
          MaxEntries,   \* entries a search finds
          ReadTimeout,  \* whether a read timeout is configured
          WriteTimeout  \* whether a write timeout is configured

ASSUME LdapServerAssumption ==
  /\ IsFiniteSet(Conns)
  /\ MaxRequests \in Nat /\ MaxEntries \in Nat
  /\ ReadTimeout \in BOOLEAN /\ WriteTimeout \in BOOLEAN

VARIABLES
  ctxDone,   \* the server was told to stop
  run,       \* Run: "top", "accept", "draining", "graceful", "late"
  srvwg,     \* the server's wait group
  waiter,    \* the goroutine that waits for it: "none", "waiting", "ready", "done"
  panic,     \* "none", or the channel a send found closed
  pc,        \* per connection, serve and close
  sock,      \* what has arrived and is not read: the kind, and if all of it is there
  gone,      \* the client hung up
  nreq,      \* requests sent
  deadline,  \* the read deadline: "none", "soon", "later"
  late,      \* the write deadline has passed
  todo,      \* responses of the request being handled, not sent yet
  cwg,       \* the connection's wait group
  closing,   \* channel closing was closed
  outClosed, \* channel chanOut was closed
  writer,    \* "idle", "writing", "done"
  pipe,      \* the message the writer holds
  notifier,  \* "select", "sending", "sent", "done"
  sent,      \* what was written to the client
  broken,    \* a write failed, and the buffer keeps its error
  expected,  \* history: the responses of all requests read, in order
  uncounted  \* history: serve counted itself after the server's wait was over

serverVars == <<ctxDone, run, srvwg, waiter>>
clientVars == <<sock, gone, nreq>>
outVars == <<outClosed, writer, pipe, sent, broken>>
history == <<expected, uncounted>>
vars == <<serverVars, panic, pc, clientVars, deadline, late, todo, cwg, closing,
          outVars, notifier, history>>

Kinds == {"search", "other", "garbage", "unbind"}
Nothing == [kind |-> "none", whole |-> FALSE]
Eof == [kind |-> "eof", whole |-> TRUE]
Notice == [id |-> 0, part |-> "notice"]
Final(id) == [id |-> id, part |-> "final"]
Entry(id) == [id |-> id, part |-> "entry"]

Init ==
  /\ ctxDone = FALSE /\ run = "top" /\ srvwg = 0 /\ waiter = "none" /\ panic = "none"
  /\ pc = [c \in Conns |-> "none"]
  /\ sock = [c \in Conns |-> Nothing]
  /\ gone = [c \in Conns |-> FALSE]
  /\ nreq = [c \in Conns |-> 0]
  /\ deadline = [c \in Conns |-> "none"]
  /\ late = [c \in Conns |-> FALSE]
  /\ todo = [c \in Conns |-> << >>]
  /\ cwg = [c \in Conns |-> 0]
  /\ closing = [c \in Conns |-> FALSE]
  /\ outClosed = [c \in Conns |-> FALSE]
  /\ writer = [c \in Conns |-> "idle"]
  /\ pipe = [c \in Conns |-> Notice]
  /\ notifier = [c \in Conns |-> "select"]
  /\ sent = [c \in Conns |-> << >>]
  /\ expected = [c \in Conns |-> << >>]
  /\ broken = [c \in Conns |-> FALSE]
  /\ uncounted = [c \in Conns |-> FALSE]

connVars == <<pc, clientVars, deadline, late, todo, cwg, closing, outVars, notifier, history>>

-----------------------------------------------------------------------------
(***************************************************************************)
(* LDAPSrv.Run.  The context is looked at between two calls of Accept; a   *)
(* call that waits is not interrupted.                                     *)
(***************************************************************************)
Stop ==
  /\ ~ctxDone /\ ctxDone' = TRUE
  /\ UNCHANGED <<run, srvwg, waiter, panic, connVars>>

LoopTop ==
  /\ run = "top"
  /\ IF ctxDone THEN run' = "draining" /\ waiter' = "waiting"
                ELSE run' = "accept" /\ UNCHANGED waiter
  /\ UNCHANGED <<ctxDone, srvwg, panic, connVars>>

Accept(c) ==
  /\ run = "accept" /\ pc[c] = "none"
  /\ run' = "top"
  /\ pc' = [pc EXCEPT ![c] = "spawned"]
  /\ UNCHANGED <<ctxDone, srvwg, waiter, panic, clientVars, deadline, late, todo, cwg,
                 closing, outVars, notifier, history>>

AcceptFails ==
  /\ run = "accept" /\ run' = "top"
  /\ UNCHANGED <<ctxDone, srvwg, waiter, panic, connVars>>

WaitReturns ==
  /\ waiter = "waiting" /\ srvwg = 0
  /\ waiter' = "ready"
  /\ UNCHANGED <<ctxDone, run, srvwg, panic, connVars>>

Drained ==
  /\ run = "draining" /\ waiter = "ready"
  /\ run' = "graceful" /\ waiter' = "done"
  /\ UNCHANGED <<ctxDone, srvwg, panic, connVars>>

\* The delay is over; the deferred calls close the channel the waiter sends on.
ShutdownDeadline ==
  /\ run = "draining" /\ run' = "late"
  /\ UNCHANGED <<ctxDone, srvwg, waiter, panic, connVars>>

LateSend ==
  /\ run = "late" /\ waiter = "ready"
  /\ panic' = "ch"
  /\ UNCHANGED <<serverVars, connVars>>

-----------------------------------------------------------------------------
(***************************************************************************)
(* The client.                                                             *)
(***************************************************************************)
\* A message arrives, or its first part.
ClientSend(c, k, whole) ==
  /\ pc[c] # "none" /\ ~gone[c] /\ sock[c] = Nothing /\ nreq[c] < MaxRequests
  /\ sock' = [sock EXCEPT ![c] = [kind |-> k, whole |-> whole]]
  /\ nreq' = [nreq EXCEPT ![c] = @ + 1]
  /\ UNCHANGED <<serverVars, panic, pc, gone, deadline, late, todo, cwg, closing, outVars,
                 notifier, history>>

ClientSendRest(c) ==
  /\ ~gone[c] /\ sock[c].kind \in Kinds /\ ~sock[c].whole
  /\ sock' = [sock EXCEPT ![c].whole = TRUE]
  /\ UNCHANGED <<serverVars, panic, pc, gone, nreq, deadline, late, todo, cwg, closing,
                 outVars, notifier, history>>

ClientHangsUp(c) ==
  /\ pc[c] # "none" /\ ~gone[c] /\ sock[c] = Nothing
  /\ gone' = [gone EXCEPT ![c] = TRUE]
  /\ sock' = [sock EXCEPT ![c] = Eof]
  /\ UNCHANGED <<serverVars, panic, pc, nreq, deadline, late, todo, cwg, closing, outVars,
                 notifier, history>>

-----------------------------------------------------------------------------
(***************************************************************************)
(* serve.                                                                  *)
(***************************************************************************)
\* The deadlines the loop sets before each read.  That of the writes is not
\* set again when the responses to what was read are written.
NextDeadline(c) ==
  /\ deadline' = [deadline EXCEPT ![c] = IF ReadTimeout THEN "later" ELSE @]
  /\ late' = [late EXCEPT ![c] = FALSE]

BeginUncounted(c) ==
  /\ pc[c] = "spawned"
  /\ pc' = [pc EXCEPT ![c] = "read"]
  /\ srvwg' = IF ctxDone THEN srvwg ELSE srvwg + 1
  /\ NextDeadline(c)
  /\ uncounted' = [uncounted EXCEPT ![c] = waiter \in {"ready", "done"}]
  /\ UNCHANGED <<ctxDone, run, waiter, panic, clientVars, todo, cwg, closing, outVars,
                 notifier, expected>>

\* serve counts itself; nothing makes Run wait for this step.
Begin(c) ==
  /\ pc[c] = "spawned"
  /\ pc' = [pc EXCEPT ![c] = "read"]
  /\ srvwg' = srvwg + 1
  /\ NextDeadline(c)
  /\ uncounted' = [uncounted EXCEPT ![c] = waiter \in {"ready", "done"}]
  /\ UNCHANGED <<ctxDone, run, waiter, panic, clientVars, todo, cwg, closing, outVars,
                 notifier, expected>>

\* readBytes reads once: of a message that has come in part, the part; that
\* ends the connection, like the end of the data and an unbind.
ReadEnds(c) ==
  /\ pc[c] = "read" /\ sock[c] # Nothing
  /\ ~sock[c].whole \/ sock[c].kind \in {"eof", "unbind"}
  /\ pc' = [pc EXCEPT ![c] = "leaving"]
  /\ sock' = [sock EXCEPT ![c] = Nothing]
  /\ UNCHANGED <<serverVars, panic, gone, nreq, deadline, late, todo, cwg, closing, outVars,
                 notifier, history>>

ReadTimesOut(c) ==
  /\ pc[c] = "read" /\ deadline[c] # "none"
  /\ pc' = [pc EXCEPT ![c] = "leaving"]
  /\ UNCHANGED <<serverVars, panic, clientVars, deadline, late, todo, cwg, closing, outVars,
                 notifier, history>>

\* What cannot be decoded is logged and not answered.
ReadGarbage(c) ==
  /\ pc[c] = "read" /\ sock[c] = [kind |-> "garbage", whole |-> TRUE]
  /\ sock' = [sock EXCEPT ![c] = Nothing]
  /\ NextDeadline(c)
  /\ UNCHANGED <<serverVars, panic, pc, gone, nreq, todo, cwg, closing, outVars, notifier,
                 history>>

\* handle runs to its end in this goroutine; what it writes to the channel are
\* the responses of the request.
Respond(c, responses) ==
  /\ pc[c] = "read" /\ sock[c].whole
  /\ pc' = [pc EXCEPT ![c] = "handling"]
  /\ sock' = [sock EXCEPT ![c] = Nothing]
  /\ cwg' = [cwg EXCEPT ![c] = @ + 1]
  /\ todo' = [todo EXCEPT ![c] = responses]
  /\ expected' = [expected EXCEPT ![c] = @ \o responses]
  /\ UNCHANGED <<serverVars, panic, gone, nreq, deadline, late, closing, outVars, notifier, uncounted>>

HandleSearch(c) ==
  /\ sock[c].kind = "search"
  /\ \E n \in 0..MaxEntries :
       Respond(c, [i \in 1..n |-> Entry(nreq[c])] \o <<Final(nreq[c])>>)

\* Every other request has one response, also the one no handler exists for.
\* An abandon finds no request to abandon: none is running but itself.
HandleOther(c) ==
  /\ sock[c].kind = "other"
  /\ Respond(c, <<Final(nreq[c])>>)

\* responseWriterImpl.Write: the channel has no buffer.
SendResponse(c) ==
  /\ pc[c] = "handling" /\ todo[c] # << >> /\ writer[c] = "idle"
  /\ writer' = [writer EXCEPT ![c] = "writing"]
  /\ pipe' = [pipe EXCEPT ![c] = Head(todo[c])]
  /\ todo' = [todo EXCEPT ![c] = Tail(@)]
  /\ UNCHANGED <<serverVars, panic, pc, clientVars, deadline, late, cwg, closing, outClosed,
                 sent, broken, notifier, history>>

Handled(c) ==
  /\ pc[c] = "handling" /\ todo[c] = << >>
  /\ pc' = [pc EXCEPT ![c] = "read"]
  /\ cwg' = [cwg EXCEPT ![c] = @ - 1]
  /\ NextDeadline(c)
  /\ UNCHANGED <<serverVars, panic, clientVars, todo, closing, outVars, notifier, history>>

\* The deferred function: the server is told first, then close begins.  No
\* request is running, so there is none to abandon.
Leave(c) ==
  /\ pc[c] = "leaving"
  /\ pc' = [pc EXCEPT ![c] = "waiting"]
  /\ srvwg' = srvwg - 1
  /\ closing' = [closing EXCEPT ![c] = TRUE]
  /\ UNCHANGED <<ctxDone, run, waiter, panic, clientVars, deadline, late, todo, cwg, outVars,
                 notifier, history>>

CloseWaited(c) ==
  /\ pc[c] = "waiting" /\ cwg[c] = 0
  /\ pc' = [pc EXCEPT ![c] = "waited"]
  /\ UNCHANGED <<serverVars, panic, clientVars, deadline, late, todo, cwg, closing, outVars,
                 notifier, history>>

\* A send that is waiting when the channel is closed panics.
CloseOut(c) ==
  /\ pc[c] = "waited"
  /\ pc' = [pc EXCEPT ![c] = "flushing"]
  /\ outClosed' = [outClosed EXCEPT ![c] = TRUE]
  /\ panic' = IF notifier[c] = "sending" THEN "chanOut" ELSE panic
  /\ UNCHANGED <<serverVars, clientVars, deadline, late, todo, cwg, closing, writer, pipe,
                 sent, broken, notifier, history>>

CloseConn(c) ==
  /\ pc[c] = "flushing" /\ writer[c] = "done"
  /\ pc' = [pc EXCEPT ![c] = "closed"]
  /\ UNCHANGED <<serverVars, panic, clientVars, deadline, late, todo, cwg, closing, outVars,
                 notifier, history>>

-----------------------------------------------------------------------------
(***************************************************************************)
(* The writer and the notifier of a connection.                            *)
(***************************************************************************)
WriteMessageOn(c) ==
  /\ writer[c] = "writing"
  /\ writer' = [writer EXCEPT ![c] = "idle"]
  /\ \/ /\ ~late[c]
        /\ sent' = [sent EXCEPT ![c] = Append(@, pipe[c])]
        /\ UNCHANGED broken
     \/ /\ late[c] \/ gone[c]
        /\ broken' = [broken EXCEPT ![c] = TRUE]
        /\ UNCHANGED sent
  /\ UNCHANGED <<serverVars, panic, pc, clientVars, deadline, late, todo, cwg, closing,
                 outClosed, pipe, notifier, history>>

\* A write fails when the client is gone or the deadline has passed.  The
\* buffered writer keeps the error, so that no later message is written.
WriteMessage(c) ==
  /\ writer[c] = "writing"
  /\ writer' = [writer EXCEPT ![c] = "idle"]
  /\ \/ /\ ~broken[c] /\ ~late[c]
        /\ sent' = [sent EXCEPT ![c] = Append(@, pipe[c])]
        /\ UNCHANGED broken
     \/ /\ broken[c] \/ late[c] \/ gone[c]
        /\ broken' = [broken EXCEPT ![c] = TRUE]
        /\ UNCHANGED sent
  /\ UNCHANGED <<serverVars, panic, pc, clientVars, deadline, late, todo, cwg, closing,
                 outClosed, pipe, notifier, history>>

WriterEnds(c) ==
  /\ writer[c] = "idle" /\ outClosed[c]
  /\ writer' = [writer EXCEPT ![c] = "done"]
  /\ UNCHANGED <<serverVars, panic, pc, clientVars, deadline, late, todo, cwg, closing,
                 outClosed, pipe, sent, broken, notifier, history>>

Started(c) == pc[c] \notin {"none", "spawned"}

NotifierStop(c) ==
  /\ Started(c) /\ notifier[c] = "select" /\ ctxDone
  /\ notifier' = [notifier EXCEPT ![c] = "sending"]
  /\ cwg' = [cwg EXCEPT ![c] = @ + 1]
  /\ panic' = IF outClosed[c] THEN "chanOut" ELSE panic
  /\ UNCHANGED <<serverVars, pc, clientVars, deadline, late, todo, closing, outVars, history>>

NotifierQuit(c) ==
  /\ Started(c) /\ notifier[c] = "select" /\ closing[c]
  /\ notifier' = [notifier EXCEPT ![c] = "done"]
  /\ UNCHANGED <<serverVars, panic, pc, clientVars, deadline, late, todo, cwg, closing,
                 outVars, history>>

NotifierSend(c) ==
  /\ notifier[c] = "sending" /\ writer[c] = "idle"
  /\ notifier' = [notifier EXCEPT ![c] = "sent"]
  /\ writer' = [writer EXCEPT ![c] = "writing"]
  /\ pipe' = [pipe EXCEPT ![c] = Notice]
  /\ UNCHANGED <<serverVars, panic, pc, clientVars, deadline, late, todo, cwg, closing,
                 outClosed, sent, broken, history>>

NotifierEndsQuietly(c) ==
  /\ notifier[c] = "sent"
  /\ notifier' = [notifier EXCEPT ![c] = "done"]
  /\ cwg' = [cwg EXCEPT ![c] = @ - 1]
  /\ UNCHANGED <<serverVars, panic, pc, clientVars, deadline, late, todo, closing, outVars, history>>

NotifierEnds(c) ==
  /\ notifier[c] = "sent"
  /\ notifier' = [notifier EXCEPT ![c] = "done"]
  /\ cwg' = [cwg EXCEPT ![c] = @ - 1]
  /\ deadline' = [deadline EXCEPT ![c] = "soon"]
  /\ UNCHANGED <<serverVars, panic, pc, clientVars, late, todo, closing, outVars, history>>

\* The configured time is over since the loop last set the deadline.
WriteDeadlinePasses(c) ==
  /\ WriteTimeout /\ Started(c) /\ ~late[c]
  /\ late' = [late EXCEPT ![c] = TRUE]
  /\ UNCHANGED <<serverVars, panic, pc, clientVars, deadline, todo, cwg, closing, outVars,
                 notifier, history>>

-----------------------------------------------------------------------------
Serve(c) ==
  \/ Begin(c) \/ ReadEnds(c) \/ ReadTimesOut(c) \/ ReadGarbage(c)
  \/ HandleSearch(c) \/ HandleOther(c)
  \/ SendResponse(c) \/ Handled(c)
  \/ Leave(c) \/ CloseWaited(c) \/ CloseOut(c) \/ CloseConn(c)

Writer(c) == WriteMessage(c) \/ WriterEnds(c)

Notifier(c) == NotifierStop(c) \/ NotifierQuit(c) \/ NotifierSend(c) \/ NotifierEnds(c)

Client(c) ==
  \/ \E k \in Kinds, whole \in BOOLEAN : ClientSend(c, k, whole)
  \/ ClientSendRest(c)
  \/ ClientHangsUp(c)
  \/ WriteDeadlinePasses(c)

Server ==
  \/ Stop \/ LoopTop \/ AcceptFails \/ WaitReturns \/ Drained \/ ShutdownDeadline \/ LateSend
  \/ \E c \in Conns : Accept(c)

\* A panic in any goroutine ends the process.
Next ==
  /\ panic = "none"
  /\ Server \/ \E c \in Conns : Serve(c) \/ Writer(c) \/ Notifier(c) \/ Client(c)

Spec == Init /\ [][Next]_vars

Alive(A) == panic = "none" /\ A

FairSpec ==
  /\ Spec
  /\ \A c \in Conns :
       /\ WF_vars(Alive(Serve(c)))
       /\ WF_vars(Alive(Writer(c)))
       /\ WF_vars(Alive(Notifier(c)))

-----------------------------------------------------------------------------
(***************************************************************************)
(* The type invariant.                                                     *)
(***************************************************************************)
Responses == [id : 0..MaxRequests, part : {"notice", "final", "entry"}]

LdapServerTypeOK ==
  /\ ctxDone \in BOOLEAN
  /\ run \in {"top", "accept", "draining", "graceful", "late"}
  /\ srvwg \in Int
  /\ waiter \in {"none", "waiting", "ready", "done"}
  /\ panic \in {"none", "ch", "chanOut"}
  /\ pc \in [Conns -> {"none", "spawned", "read", "handling", "leaving", "waiting", "waited",
                       "flushing", "closed"}]
  /\ sock \in [Conns -> [kind : Kinds \cup {"none", "eof"}, whole : BOOLEAN]]
  /\ gone \in [Conns -> BOOLEAN]
  /\ nreq \in [Conns -> 0..MaxRequests]
  /\ deadline \in [Conns -> {"none", "soon", "later"}]
  /\ late \in [Conns -> BOOLEAN]
  /\ todo \in [Conns -> Seq(Responses)]
  /\ cwg \in [Conns -> Int]
  /\ closing \in [Conns -> BOOLEAN]
  /\ outClosed \in [Conns -> BOOLEAN]
  /\ writer \in [Conns -> {"idle", "writing", "done"}]
  /\ pipe \in [Conns -> Responses]
  /\ notifier \in [Conns -> {"select", "sending", "sent", "done"}]
  /\ sent \in [Conns -> Seq(Responses)]
  /\ expected \in [Conns -> Seq(Responses)]
  /\ broken \in [Conns -> BOOLEAN]
  /\ uncounted \in [Conns -> BOOLEAN]

\* What the client gets of what was handled so far.
Output(c) == sent[c] \o (IF writer[c] = "writing" THEN <<pipe[c]>> ELSE << >>) \o todo[c]

\* The responses s with the notice of disconnection at some place among them.
WithNotice(s) == {InsertAt(s, i, Notice) : i \in 1..(Len(s) + 1)}

\* What a client may be sent for the responses it is owed.
Answers(c) == {expected[c]} \cup WithNotice(expected[c])

(***************************************************************************)
(* AnsweredInOrder: what the client was sent, what the writer holds and    *)
(* what the handler has left to send are together the responses to the     *)
(* requests read so far, each once and in order, with at most one notice   *)
(* of disconnection among them.  Once a write has failed, which takes a    *)
(* client that is gone or a write timeout, what was sent stays a beginning *)
(* of that: nothing is written behind a response that was lost             *)
(* (writeMessage, client.go).                                              *)
(***************************************************************************)
AnsweredInOrder ==
  \A c \in Conns :
    /\ ~broken[c] => Output(c) \in Answers(c)
    /\ broken[c] => \E all \in Answers(c) : IsPrefix(sent[c], all)
    /\ broken[c] => gone[c] \/ WriteTimeout

(***************************************************************************)
(* GracefulUnlessUncounted: when Run reports a graceful end, no connection *)
(* reads or handles requests any more, except one whose goroutine had not  *)
(* counted itself yet when the wait group was found at zero.               *)
(***************************************************************************)
GracefulUnlessUncounted ==
  run = "graceful" =>
    \A c \in Conns : pc[c] \in {"read", "handling", "leaving"} => uncounted[c]

(***************************************************************************)
(* ConnectionsEnd: once the server is told to stop, every connection that  *)
(* is being served is closed, whatever its goroutines were doing, unless   *)
(* the process goes down first.                                            *)
(***************************************************************************)
ConnectionsEnd ==
  \A c \in Conns : (ctxDone /\ pc[c] # "none") ~> (pc[c] = "closed" \/ panic # "none")
=============================================================================
