------------------------------ MODULE LdapPool ------------------------------
(***************************************************************************)
(* lib/ldap: the pool of connections to an LDAP server.                    *)
(*                                                                         *)
(* demand and source are buffered channels of one capacity.  A unit in     *)
(* demand asks for a connection; a filler takes it, dials, and puts the    *)
(* connection in source; a caller that takes one out asks for the next.    *)
(* Factory.Run starts the fillers and counts them with a WaitGroup.        *)
(*                                                                         *)
(* A connection is an element of Conns; one that was closed is free to     *)
(* stand for a later one.  The server and the network are external: they   *)
(* may go down, which breaks every open connection.                        *)
(***************************************************************************)
EXTENDS Integers, Sequences, FiniteSets

CONSTANTS
    Fillers,     \* workers
    Callers,     \* requests and health checks that call get
    Conns,       \* bound: connections that exist at the same time
    Size,        \* MaxConnections: the capacity of both channels
    MaxTries,    \* BackoffMaxRetries
    MaxOutages,  \* bound: times the server goes down
    MaxRefused,  \* bound: root binds that fail
    NoConn

ASSUME PoolAssumption ==
    /\ IsFiniteSet(Fillers) /\ IsFiniteSet(Callers) /\ IsFiniteSet(Conns)
    /\ NoConn \notin Conns
    /\ Size \in Nat
    /\ MaxTries \in Nat \ {0}
    /\ {MaxOutages, MaxRefused} \subseteq Nat

VARIABLES
    demand,    \* units in the demand channel
    source,    \* connections in the source channel
    filler,    \* where each filler is
    dials,     \* its failed dials for the unit it holds
    fresh,     \* the connection it is about to hand over
    caller,    \* where each caller is
    conn,      \* the connection it has
    state,     \* of each connection: none, open, broken
    server,    \* whether the server answers
    outages,
    refused,   \* root binds that failed
    ctx,       \* whether the context is done
    main,      \* Factory.Run: starting, notified, returned
    wg,        \* the counter of the WaitGroup
    panicked   \* the counter went below zero

vars == <<demand, source, filler, dials, fresh, caller, conn, state, server,
          outages, refused, ctx, main, wg, panicked>>

fillerVars == <<filler, dials, fresh>>
callerVars == <<caller, conn>>
runVars    == <<ctx, main, wg, panicked>>
worldVars  == <<server, outages, refused>>

FillerAt == {"new", "idle", "dial", "send", "refund", "half", "left"}
CallerAt == {"out", "wait", "taken", "check", "close", "held", "client"}

\* The types of the channels, goroutines and connections of the pool.
LdapPoolTypeOK ==
    /\ demand \in Nat
    /\ source \in Seq(Conns)
    /\ filler \in [Fillers -> FillerAt]
    /\ dials \in [Fillers -> 0..MaxTries]
    /\ fresh \in [Fillers -> Conns \cup {NoConn}]
    /\ caller \in [Callers -> CallerAt]
    /\ conn \in [Callers -> Conns \cup {NoConn}]
    /\ state \in [Conns -> {"none", "open", "broken"}]
    /\ server \in BOOLEAN /\ ctx \in BOOLEAN /\ panicked \in BOOLEAN
    /\ outages \in Nat /\ refused \in Nat
    /\ main \in {"starting", "notified", "returned"}
    /\ wg \in Int

\* newPool puts every unit into demand.
Init ==
    /\ demand = Size /\ source = <<>>
    /\ filler = [w \in Fillers |-> "new"]
    /\ dials = [w \in Fillers |-> 0]
    /\ fresh = [w \in Fillers |-> NoConn]
    /\ caller = [c \in Callers |-> "out"]
    /\ conn = [c \in Callers |-> NoConn]
    /\ state = [k \in Conns |-> "none"]
    /\ server = TRUE /\ outages = 0 /\ refused = 0
    /\ ctx = FALSE /\ main = "starting" /\ wg = 0 /\ panicked = FALSE

\* A send on a channel of capacity Size, and the steps it is used in.
Room(n) == n < Size
GiveBack == Room(demand) /\ demand' = demand + 1

----------------------------------------------------------------------------
(* Factory.Run *)

\* Done: the counter of a WaitGroup that drops below zero panics.
Done(n) == wg' = wg - n /\ panicked' = (wg - n < 0)

\* Mutant of StartWorker: wg.Go alone.
StartWorkerGoOnly(w) ==
    /\ main = "starting" /\ filler[w] = "new"
    /\ filler' = [filler EXCEPT ![w] = "idle"]
    /\ wg' = wg + 1
    /\ UNCHANGED <<demand, source, dials, fresh, callerVars, state, worldVars, ctx, main, panicked>>

\* wg.Add(1) and wg.Go, which adds one more.
StartWorker(w) ==
    /\ main = "starting" /\ filler[w] = "new"
    /\ filler' = [filler EXCEPT ![w] = "idle"]
    /\ wg' = wg + 2
    /\ UNCHANGED <<demand, source, dials, fresh, callerVars, state, worldVars, ctx, main, panicked>>

NotifyStarted ==
    /\ main = "starting" /\ \A w \in Fillers : filler[w] # "new"
    /\ main' = "notified"
    /\ UNCHANGED <<demand, source, fillerVars, callerVars, state, worldVars, ctx, wg, panicked>>

\* Run ends with wg.Done where it could wait.
RunReturns ==
    /\ main = "notified"
    /\ main' = "returned"
    /\ Done(1)
    /\ UNCHANGED <<demand, source, fillerVars, callerVars, state, worldVars, ctx>>

Cancel ==
    /\ ~ ctx /\ ctx' = TRUE
    /\ UNCHANGED <<demand, source, fillerVars, callerVars, state, worldVars, main, wg, panicked>>

----------------------------------------------------------------------------
(* fill *)

AwaitDemand(w) ==
    /\ filler[w] = "idle" /\ demand > 0
    /\ demand' = demand - 1
    /\ filler' = [filler EXCEPT ![w] = "dial"]
    /\ dials' = [dials EXCEPT ![w] = 0]
    /\ UNCHANGED <<source, fresh, callerVars, state, worldVars, runVars>>

Dial(w) ==
    /\ filler[w] = "dial" /\ server
    /\ \E k \in Conns :
         /\ state[k] = "none"
         /\ state' = [state EXCEPT ![k] = "open"]
         /\ fresh' = [fresh EXCEPT ![w] = k]
    /\ filler' = [filler EXCEPT ![w] = "send"]
    /\ UNCHANGED <<demand, source, dials, callerVars, worldVars, runVars>>

\* Mutant of DialFails: one try more than allowed.
DialFailsOnceMore(w) ==
    /\ filler[w] = "dial" /\ ~ server
    /\ dials' = [dials EXCEPT ![w] = @ + 1]
    /\ filler' = [filler EXCEPT ![w] = IF dials[w] = MaxTries \/ ctx THEN "refund" ELSE "dial"]
    /\ UNCHANGED <<demand, source, fresh, callerVars, state, worldVars, runVars>>

\* A dial that fails; backoff.Retry gives up after MaxTries or when the
\* context is done.
DialFails(w) ==
    /\ filler[w] = "dial" /\ ~ server
    /\ dials' = [dials EXCEPT ![w] = @ + 1]
    /\ filler' = [filler EXCEPT ![w] = IF dials[w] + 1 = MaxTries \/ ctx THEN "refund" ELSE "dial"]
    /\ UNCHANGED <<demand, source, fresh, callerVars, state, worldVars, runVars>>

\* p.demand <- unit{}: retry this slot.
RetrySlot(w) ==
    /\ filler[w] = "refund" /\ GiveBack
    /\ filler' = [filler EXCEPT ![w] = "idle"]
    /\ UNCHANGED <<source, dials, fresh, callerVars, state, worldVars, runVars>>

HandOver(w) ==
    /\ filler[w] = "send" /\ Room(Len(source))
    /\ source' = Append(source, fresh[w])
    /\ fresh' = [fresh EXCEPT ![w] = NoConn]
    /\ filler' = [filler EXCEPT ![w] = "idle"]
    /\ UNCHANGED <<demand, dials, callerVars, state, worldVars, runVars>>

\* Mutant of SendAborts: the fresh connection is not closed.
SendAbortsOpen(w) ==
    /\ filler[w] = "send" /\ ctx
    /\ fresh' = [fresh EXCEPT ![w] = NoConn]
    /\ filler' = [filler EXCEPT ![w] = "half"]
    /\ Done(1)
    /\ UNCHANGED <<demand, source, dials, callerVars, state, worldVars, ctx, main>>

\* The other branch of the select: the fresh connection is closed, and the
\* slot is gone with the filler.
SendAborts(w) ==
    /\ filler[w] = "send" /\ ctx
    /\ state' = [state EXCEPT ![fresh[w]] = "none"]
    /\ fresh' = [fresh EXCEPT ![w] = NoConn]
    /\ filler' = [filler EXCEPT ![w] = "half"]
    /\ Done(1)
    /\ UNCHANGED <<demand, source, dials, callerVars, worldVars, ctx, main>>

\* Mutant of Leave: the context is only looked at once there is demand.
LeaveOnDemand(w) ==
    /\ filler[w] = "idle" /\ ctx /\ demand > 0
    /\ filler' = [filler EXCEPT ![w] = "half"]
    /\ Done(1)
    /\ UNCHANGED <<demand, source, dials, fresh, callerVars, state, worldVars, ctx, main>>

\* fill returns and the worker calls Done.
Leave(w) ==
    /\ filler[w] = "idle" /\ ctx
    /\ filler' = [filler EXCEPT ![w] = "half"]
    /\ Done(1)
    /\ UNCHANGED <<demand, source, dials, fresh, callerVars, state, worldVars, ctx, main>>

\* The Done of wg.Go itself.
WorkerDone(w) ==
    /\ filler[w] = "half"
    /\ filler' = [filler EXCEPT ![w] = "left"]
    /\ Done(1)
    /\ UNCHANGED <<demand, source, dials, fresh, callerVars, state, worldVars, ctx, main>>

----------------------------------------------------------------------------
(* get, NewClient, Close and the health checks *)

Goto(c, pc) == caller' = [caller EXCEPT ![c] = pc]

Call(c) ==
    /\ caller[c] = "out"
    /\ Goto(c, "wait")
    /\ UNCHANGED <<demand, source, fillerVars, conn, state, worldVars, runVars>>

\* The caller's own context ends while it waits.
GiveUp(c) ==
    /\ caller[c] = "wait"
    /\ Goto(c, "out")
    /\ UNCHANGED <<demand, source, fillerVars, conn, state, worldVars, runVars>>

Take(c) ==
    /\ caller[c] = "wait" /\ source # <<>>
    /\ conn' = [conn EXCEPT ![c] = Head(source)]
    /\ source' = Tail(source)
    /\ Goto(c, "taken")
    /\ UNCHANGED <<demand, fillerVars, state, worldVars, runVars>>

\* Mutant of AskNext: a dead connection is not replaced.
AskNextIfAlive(c) ==
    /\ caller[c] = "taken"
    /\ IF state[conn[c]] = "open" THEN GiveBack ELSE UNCHANGED demand
    /\ Goto(c, "check")
    /\ UNCHANGED <<source, fillerVars, conn, state, worldVars, runVars>>

AskNext(c) ==
    /\ caller[c] = "taken" /\ GiveBack
    /\ Goto(c, "check")
    /\ UNCHANGED <<source, fillerVars, conn, state, worldVars, runVars>>

isAlive(c) ==
    /\ caller[c] = "check"
    /\ Goto(c, IF state[conn[c]] = "open" THEN "held" ELSE "close")
    /\ UNCHANGED <<demand, source, fillerVars, conn, state, worldVars, runVars>>

\* The connection of c is closed; c goes on at pc.
CloseConn(c, pc) ==
    /\ state' = [state EXCEPT ![conn[c]] = "none"]
    /\ conn' = [conn EXCEPT ![c] = NoConn]
    /\ Goto(c, pc)
    /\ UNCHANGED <<demand, source, fillerVars, worldVars, runVars>>

\* Mutant of CloseDead: the slot is given back a second time.
CloseDeadRefunds(c) ==
    /\ caller[c] = "close"
    /\ demand' = demand + 1
    /\ state' = [state EXCEPT ![conn[c]] = "none"]
    /\ conn' = [conn EXCEPT ![c] = NoConn]
    /\ Goto(c, "wait")
    /\ UNCHANGED <<source, fillerVars, worldVars, runVars>>

\* A connection that is not alive: the loop goes on, or the error of Close is
\* returned.
CloseDead(c) == caller[c] = "close" /\ \E pc \in {"wait", "out"} : CloseConn(c, pc)

\* NewClient binds as root.
BindRoot(c) ==
    /\ caller[c] = "held" /\ state[conn[c]] = "open"
    /\ Goto(c, "client")
    /\ UNCHANGED <<demand, source, fillerVars, conn, state, worldVars, runVars>>

\* The bind fails: NewClient returns the error and drops the connection.
BindFails(c) ==
    /\ caller[c] = "held" /\ refused < MaxRefused
    /\ refused' = refused + 1
    /\ conn' = [conn EXCEPT ![c] = NoConn]
    /\ Goto(c, "out")
    /\ UNCHANGED <<demand, source, fillerVars, state, server, outages, runVars>>

\* Client.Close, and the health checks, which close what get returned.
Close(c) == caller[c] \in {"held", "client"} /\ CloseConn(c, "out")

----------------------------------------------------------------------------
(* The LDAP server *)

ServerDown ==
    /\ server /\ outages < MaxOutages
    /\ server' = FALSE /\ outages' = outages + 1
    /\ state' = [k \in Conns |-> IF state[k] = "open" THEN "broken" ELSE state[k]]
    /\ UNCHANGED <<demand, source, fillerVars, callerVars, refused, runVars>>

ServerUp ==
    /\ ~ server /\ server' = TRUE
    /\ UNCHANGED <<demand, source, fillerVars, callerVars, state, outages, refused, runVars>>

----------------------------------------------------------------------------

Fill(w) ==
    \/ AwaitDemand(w) \/ Dial(w) \/ DialFails(w) \/ RetrySlot(w) \/ HandOver(w)
    \/ SendAborts(w) \/ Leave(w) \/ WorkerDone(w)

get(c) == Take(c) \/ AskNext(c) \/ isAlive(c) \/ CloseDead(c)

\* A panic ends the process.
Next ==
    /\ ~ panicked
    /\ \/ \E w \in Fillers : StartWorker(w) \/ Fill(w)
       \/ NotifyStarted \/ RunReturns \/ Cancel
       \/ \E c \in Callers : Call(c) \/ GiveUp(c) \/ get(c) \/ BindRoot(c) \/ BindFails(c) \/ Close(c)
       \/ ServerDown \/ ServerUp

Spec == Init /\ [][Next]_vars

\* Goroutines keep running.  Callers blocked on source are served in order,
\* and a select with two ready branches takes each with the same chance: both
\* are strong fairness.  Whoever got a connection closes it in the end.
Fairness ==
    /\ WF_vars(~ panicked /\ (NotifyStarted \/ RunReturns))
    /\ \A w \in Fillers :
         /\ WF_vars(~ panicked /\ (StartWorker(w) \/ Fill(w)))
         /\ SF_vars(~ panicked /\ (Leave(w) \/ SendAborts(w)))
    /\ \A c \in Callers :
         /\ SF_vars(~ panicked /\ Take(c))
         /\ WF_vars(~ panicked /\ (AskNext(c) \/ isAlive(c) \/ CloseDead(c)))
         /\ WF_vars(~ panicked /\ (BindRoot(c) \/ Close(c)))

FairSpec == Spec /\ Fairness

----------------------------------------------------------------------------
(* Properties *)

\* What the type invariant rests on: a filler that dials has tries left, and
\* one that sends has a connection.
Trying ==
    \A w \in Fillers : /\ filler[w] = "dial" => dials[w] < MaxTries
                       /\ filler[w] = "send" => fresh[w] \in Conns

Holding == {w \in Fillers : filler[w] \in {"dial", "send", "refund"}}
Taken   == {c \in Callers : caller[c] = "taken"}

\* A unit sits in one of the channels, with a filler or with a caller that is
\* about to give it back; a filler that stops while it sends takes its unit
\* along.
Slots == demand + Len(source) + Cardinality(Holding) + Cardinality(Taken)
SlotsConserved == Slots <= Size

\* The sends on both channels never block, although none of them is guarded by
\* a select on another event that could free them: the channels have room for
\* every unit that is out.
SendsNeverBlock ==
    /\ \A w \in Fillers : filler[w] = "refund" => Room(demand)
    /\ \A w \in Fillers : filler[w] = "send" => Room(Len(source))
    /\ \A c \in Callers : caller[c] = "taken" => Room(demand)

\* Where connection k is.
Places(k) ==
    {<<"source", n>> : n \in {m \in DOMAIN source : source[m] = k}}
    \cup {<<"filler", w>> : w \in {v \in Fillers : fresh[v] = k}}
    \cup {<<"caller", c>> : c \in {d \in Callers : conn[d] = k}}

Forgotten == {k \in Conns : state[k] # "none" /\ Places(k) = {}}

\* A connection that is not closed is in exactly one place, so it is never
\* used by two callers and never forgotten, but for the ones that NewClient
\* drops when the bind fails; a closed one is nowhere.
OneOwner ==
    /\ \A k \in Conns : IF state[k] = "none" THEN Places(k) = {} ELSE \A x, y \in Places(k) : x = y
    /\ Cardinality(Forgotten) <= refused

\* The WaitGroup of Factory.Run counts one Done too many, but the panic comes
\* only when the service is being stopped and every filler has finished.
PanicOnlyAtTheEnd == panicked => \A w \in Fillers : ctx /\ filler[w] = "left"

\* Its reason: each filler at work stands for two, one about to end for one,
\* and Run has taken one off that nobody put on.
Working == {w \in Fillers : filler[w] \in {"idle", "dial", "send", "refund"}}
Ending  == {w \in Fillers : filler[w] = "half"}
Counted ==
    /\ wg = 2 * Cardinality(Working) + Cardinality(Ending) - (IF main = "returned" THEN 1 ELSE 0)
    /\ panicked => wg < 0
    /\ main # "starting" => \A w \in Fillers : filler[w] # "new"
    /\ \A w \in Fillers : filler[w] \in {"half", "left"} => ctx

\* When the server stays up and the service runs, a caller that waits gets a
\* connection or gives up.
CallersServed ==
    \A c \in Callers : (caller[c] = "wait" /\ [](server /\ ~ ctx)) ~> caller[c] # "wait"

\* Once the context is done, every filler finishes.
FillersStop == ctx ~> (\A w \in Fillers : filler[w] = "left")

=============================================================================
