--------------------------- MODULE LdapPoolProofs ---------------------------
(* The connection pool for any number of fillers, callers and connections. *)
EXTENDS LdapPool, FiniteSetTheorems, TLAPS

TypeInv == LdapPoolTypeOK /\ Trying

LEMMA TypeInit == Init => TypeInv
  <1> SUFFICES ASSUME Init PROVE TypeInv
    OBVIOUS
  <1> USE PoolAssumption DEF Init
  <1>1. demand \in Nat /\ source \in Seq(Conns) /\ wg \in Int /\ outages \in Nat /\ refused \in Nat
    OBVIOUS
  <1>2. filler \in [Fillers -> FillerAt] /\ dials \in [Fillers -> 0..MaxTries]
        /\ fresh \in [Fillers -> Conns \cup {NoConn}]
    BY DEF FillerAt
  <1>3. /\ caller \in [Callers -> CallerAt] /\ conn \in [Callers -> Conns \cup {NoConn}]
        /\ state \in [Conns -> {"none", "open", "broken"}]
    BY DEF CallerAt
  <1>4. /\ server \in BOOLEAN /\ ctx \in BOOLEAN /\ panicked \in BOOLEAN
        /\ main \in {"starting", "notified", "returned"}
    BY Zenon
  <1>5. Trying
    BY DEF Trying
  <1> QED
    BY <1>1, <1>2, <1>3, <1>4, <1>5 DEF TypeInv, LdapPoolTypeOK

LEMMA TypeFill ==
  ASSUME TypeInv, NEW w \in Fillers, StartWorker(w) \/ Fill(w) PROVE TypeInv'
  <1> USE PoolAssumption DEF TypeInv, LdapPoolTypeOK, Trying, FillerAt, CallerAt,
        callerVars, worldVars, runVars
  <1>1. CASE StartWorker(w)
    BY <1>1 DEF StartWorker
  <1>2. CASE AwaitDemand(w)
    BY <1>2 DEF AwaitDemand
  <1>3. CASE Dial(w)
    BY <1>3 DEF Dial
  <1>4. CASE DialFails(w)
    BY <1>4 DEF DialFails
  <1>5. CASE RetrySlot(w)
    BY <1>5 DEF RetrySlot, GiveBack
  <1>6. CASE HandOver(w)
    BY <1>6 DEF HandOver
  <1>7. CASE SendAborts(w)
    BY <1>7 DEF SendAborts, Done
  <1>8. CASE Leave(w)
    BY <1>8 DEF Leave, Done
  <1>9. CASE WorkerDone(w)
    BY <1>9 DEF WorkerDone, Done
  <1> QED
    BY <1>1, <1>2, <1>3, <1>4, <1>5, <1>6, <1>7, <1>8, <1>9 DEF Fill

Serve(c) == Call(c) \/ GiveUp(c) \/ get(c) \/ BindRoot(c) \/ BindFails(c) \/ Close(c)

LEMMA TypeServe ==
  ASSUME TypeInv, NEW c \in Callers, Serve(c) PROVE TypeInv'
  <1> USE PoolAssumption DEF TypeInv, LdapPoolTypeOK, Trying, FillerAt, CallerAt,
        fillerVars, worldVars, runVars, Goto
  <1>1. CASE Call(c)
    BY <1>1 DEF Call
  <1>2. CASE GiveUp(c)
    BY <1>2 DEF GiveUp
  <1>3. CASE Take(c)
    BY <1>3 DEF Take
  <1>4. CASE AskNext(c)
    BY <1>4 DEF AskNext, GiveBack
  <1>5. CASE isAlive(c)
    BY <1>5 DEF isAlive
  <1>6. ASSUME NEW pc \in {"wait", "out"}, CloseConn(c, pc) PROVE TypeInv'
    BY <1>6 DEF CloseConn
  <1>7. CASE BindRoot(c)
    BY <1>7 DEF BindRoot
  <1>8. CASE BindFails(c)
    BY <1>8 DEF BindFails
  <1> QED
    BY <1>1, <1>2, <1>3, <1>4, <1>5, <1>6, <1>7, <1>8 DEF Serve, get, CloseDead, Close

LEMMA TypeNext == TypeInv /\ [Next]_vars => TypeInv'
  <1> SUFFICES ASSUME TypeInv, [Next]_vars PROVE TypeInv'
    OBVIOUS
  <1> USE DEF callerVars, fillerVars, worldVars, runVars
  <1>1. CASE UNCHANGED vars
    BY <1>1 DEF vars, TypeInv, LdapPoolTypeOK, Trying
  <1>2. CASE NotifyStarted
    BY <1>2 DEF NotifyStarted, TypeInv, LdapPoolTypeOK, Trying
  <1>3. CASE RunReturns
    BY <1>3 DEF RunReturns, Done, TypeInv, LdapPoolTypeOK, Trying
  <1>4. CASE Cancel
    BY <1>4 DEF Cancel, TypeInv, LdapPoolTypeOK, Trying
  <1>5. CASE ServerDown
    <2>1. state' \in [Conns -> {"none", "open", "broken"}]
      BY <1>5 DEF ServerDown, TypeInv, LdapPoolTypeOK
    <2>2. server' \in BOOLEAN
      BY <1>5, Zenon DEF ServerDown
    <2>3. outages' \in Nat
      BY <1>5 DEF ServerDown, TypeInv, LdapPoolTypeOK
    <2> QED
      BY <1>5, <2>1, <2>2, <2>3 DEF ServerDown, TypeInv, LdapPoolTypeOK, Trying
  <1>6. CASE ServerUp
    BY <1>6 DEF ServerUp, TypeInv, LdapPoolTypeOK, Trying
  <1> QED
    BY <1>1, <1>2, <1>3, <1>4, <1>5, <1>6, TypeFill, TypeServe DEF Next, Serve

\* Every variable of the pool keeps its type; in particular a filler never
\* dials more often than BackoffMaxRetries.
THEOREM PoolTypeCorrect == Spec => []LdapPoolTypeOK
  <1>1. TypeInv => LdapPoolTypeOK
    BY DEF TypeInv
  <1> QED
    BY <1>1, TypeInit, TypeNext, PTL DEF Spec

----------------------------------------------------------------------------
(* Counting the elements that are at some place of their program *)

\* A part of a finite set that is not empty has a positive cardinality.
LEMMA Some ==
  ASSUME NEW F, IsFiniteSet(F), NEW A, A \subseteq F, NEW x \in A
  PROVE  Cardinality(A) \in Nat /\ Cardinality(A) > 0
  <1>1. IsFiniteSet(A)
    BY FS_Subset
  <1>2. Cardinality(A) # 0 /\ Cardinality(A) \in Nat
    BY <1>1, FS_EmptySet, FS_CardinalityType
  <1> QED
    BY <1>2

SlotInv == TypeInv /\ SlotsConserved

LEMMA SlotFill ==
  ASSUME SlotInv, NEW w \in Fillers, StartWorker(w) \/ Fill(w) PROVE SlotsConserved'
  <1> USE PoolAssumption DEF SlotInv, TypeInv, LdapPoolTypeOK, SlotsConserved, Slots,
        callerVars, worldVars, runVars
  <1>0. /\ Holding \subseteq Fillers /\ Taken \subseteq Callers
        /\ IsFiniteSet(Holding) /\ IsFiniteSet(Taken)
    BY FS_Subset DEF Holding, Taken
  <1>1. Cardinality(Holding) \in Nat /\ Cardinality(Taken) \in Nat
    BY <1>0, FS_CardinalityType
  <1>2. CASE StartWorker(w)
    <2>1. Holding' = Holding /\ Taken' = Taken
      BY <1>2 DEF StartWorker, Holding, Taken
    <2> QED
      BY <1>1, <1>2, <2>1 DEF StartWorker
  <1>3. CASE AwaitDemand(w)
    <2>1. Holding' = Holding \cup {w} /\ w \notin Holding /\ Taken' = Taken
      BY <1>3 DEF AwaitDemand, Holding, Taken
    <2>2. Cardinality(Holding') = Cardinality(Holding) + 1
      BY <1>0, <2>1, FS_AddElement
    <2> QED
      BY <1>1, <1>3, <2>1, <2>2 DEF AwaitDemand
  <1>4. CASE Dial(w) \/ DialFails(w)
    <2>1. Holding' = Holding /\ Taken' = Taken
      BY <1>4 DEF Dial, DialFails, Holding, Taken
    <2> QED
      BY <1>1, <1>4, <2>1 DEF Dial, DialFails
  <1>5. CASE RetrySlot(w)
    <2>1. Holding' = Holding \ {w} /\ w \in Holding /\ Taken' = Taken
      BY <1>5 DEF RetrySlot, Holding, Taken
    <2>2. Cardinality(Holding') = Cardinality(Holding) - 1
      BY <1>0, <2>1, FS_RemoveElement
    <2> QED
      BY <1>1, <1>5, <2>1, <2>2 DEF RetrySlot, GiveBack
  <1>6. CASE HandOver(w)
    <2>1. Holding' = Holding \ {w} /\ w \in Holding /\ Taken' = Taken
      BY <1>6 DEF HandOver, Holding, Taken
    <2>2. Cardinality(Holding') = Cardinality(Holding) - 1
      BY <1>0, <2>1, FS_RemoveElement
    <2>3. Len(source') = Len(source) + 1 /\ Len(source) \in Nat /\ demand' = demand
      BY <1>6 DEF HandOver, Trying
    <2> QED
      BY <1>1, <2>1, <2>2, <2>3
  <1>7. CASE SendAborts(w)
    <2>1. Holding' = Holding \ {w} /\ w \in Holding /\ Taken' = Taken
      BY <1>7 DEF SendAborts, Holding, Taken
    <2>2. Cardinality(Holding') = Cardinality(Holding) - 1
      BY <1>0, <2>1, FS_RemoveElement
    <2> QED
      BY <1>1, <1>7, <2>1, <2>2 DEF SendAborts
  <1>8. CASE Leave(w) \/ WorkerDone(w)
    <2>1. Holding' = Holding /\ Taken' = Taken
      BY <1>8 DEF Leave, WorkerDone, Holding, Taken
    <2> QED
      BY <1>1, <1>8, <2>1 DEF Leave, WorkerDone
  <1> QED
    BY <1>2, <1>3, <1>4, <1>5, <1>6, <1>7, <1>8 DEF Fill

LEMMA SlotServe ==
  ASSUME SlotInv, NEW c \in Callers, Serve(c) PROVE SlotsConserved'
  <1> USE PoolAssumption DEF SlotInv, TypeInv, LdapPoolTypeOK, SlotsConserved, Slots,
        fillerVars, worldVars, runVars, Goto
  <1>0. /\ Holding \subseteq Fillers /\ Taken \subseteq Callers
        /\ IsFiniteSet(Holding) /\ IsFiniteSet(Taken)
    BY FS_Subset DEF Holding, Taken
  <1>1. Cardinality(Holding) \in Nat /\ Cardinality(Taken) \in Nat
    BY <1>0, FS_CardinalityType
  <1>2. CASE Take(c)
    <2>1. Taken' = Taken \cup {c} /\ c \notin Taken /\ Holding' = Holding
      BY <1>2 DEF Take, Holding, Taken
    <2>2. Cardinality(Taken') = Cardinality(Taken) + 1
      BY <1>0, <2>1, FS_AddElement
    <2>3. Len(source') = Len(source) - 1 /\ Len(source) \in Nat /\ demand' = demand
      BY <1>2 DEF Take
    <2> QED
      BY <1>1, <2>1, <2>2, <2>3
  <1>3. CASE AskNext(c)
    <2>1. Taken' = Taken \ {c} /\ c \in Taken /\ Holding' = Holding
      BY <1>3 DEF AskNext, Holding, Taken
    <2>2. Cardinality(Taken') = Cardinality(Taken) - 1
      BY <1>0, <2>1, FS_RemoveElement
    <2> QED
      BY <1>1, <1>3, <2>1, <2>2 DEF AskNext, GiveBack
  <1>4. ASSUME NEW pc \in {"wait", "out"}, CloseConn(c, pc), caller[c] # "taken"
        PROVE  SlotsConserved'
    <2>1. Holding' = Holding /\ Taken' = Taken
      BY <1>4 DEF CloseConn, Holding, Taken
    <2> QED
      BY <1>1, <1>4, <2>1 DEF CloseConn
  <1>5. CASE Call(c) \/ GiveUp(c) \/ isAlive(c) \/ BindRoot(c) \/ BindFails(c)
    <2>1. Holding' = Holding /\ Taken' = Taken
      BY <1>5 DEF Call, GiveUp, isAlive, BindRoot, BindFails, Holding, Taken
    <2>2. demand' = demand /\ source' = source
      BY <1>5 DEF Call, GiveUp, isAlive, BindRoot, BindFails
    <2> QED
      BY <1>1, <2>1, <2>2
  <1> QED
    BY <1>2, <1>3, <1>4, <1>5 DEF Serve, get, CloseDead, Close

LEMMA SlotNext == SlotInv /\ [Next]_vars => SlotInv'
  <1> SUFFICES ASSUME SlotInv, [Next]_vars PROVE SlotInv'
    OBVIOUS
  <1>1. TypeInv'
    BY TypeNext DEF SlotInv
  <1>2. CASE UNCHANGED <<demand, source, filler, caller>>
    BY <1>1, <1>2 DEF SlotInv, SlotsConserved, Slots, Holding, Taken
  <1>3. NotifyStarted \/ RunReturns \/ Cancel \/ ServerDown \/ ServerUp \/ UNCHANGED vars
        => UNCHANGED <<demand, source, filler, caller>>
    BY DEF NotifyStarted, RunReturns, Cancel, ServerDown, ServerUp, vars, fillerVars, callerVars
  <1> QED
    BY <1>1, <1>2, <1>3, SlotFill, SlotServe DEF Next, Serve, SlotInv

\* However fillers, callers, failing dials, dead connections and the shutdown
\* interleave, a send on one of the two channels of the pool finds room.
THEOREM PoolNeverBlocks == Spec => []SendsNeverBlock
  <1>1. Init => SlotInv
    <2> SUFFICES ASSUME Init PROVE SlotInv
      OBVIOUS
    <2>1. Holding = {} /\ Taken = {} /\ demand = Size /\ Len(source) = 0
      BY DEF Init, Holding, Taken
    <2>2. Cardinality(Holding) = 0 /\ Cardinality(Taken) = 0
      BY <2>1, FS_EmptySet
    <2> QED
      BY <2>1, <2>2, TypeInit, PoolAssumption DEF SlotInv, SlotsConserved, Slots
  <1>2. ASSUME SlotInv PROVE SendsNeverBlock
    <2> USE PoolAssumption, <1>2 DEF SlotInv, TypeInv, LdapPoolTypeOK
    <2>1. Holding \subseteq Fillers /\ Taken \subseteq Callers /\ Len(source) \in Nat
      BY DEF Holding, Taken
    <2>2. Cardinality(Holding) \in Nat /\ Cardinality(Taken) \in Nat
      BY <2>1, FS_Subset, FS_CardinalityType
    <2>3. ASSUME NEW w \in Fillers, filler[w] \in {"refund", "send"}
          PROVE  Cardinality(Holding) > 0
      <3>1. w \in Holding
        BY <2>3 DEF Holding
      <3> QED
        BY <2>1, <3>1, Some
    <2>4. ASSUME NEW c \in Callers, caller[c] = "taken" PROVE Cardinality(Taken) > 0
      <3>1. c \in Taken
        BY <2>4 DEF Taken
      <3> QED
        BY <2>1, <3>1, Some
    <2> QED
      BY <2>1, <2>2, <2>3, <2>4 DEF SendsNeverBlock, Room, SlotsConserved, Slots
  <1> QED
    BY <1>1, <1>2, SlotNext, PTL DEF Spec

----------------------------------------------------------------------------
(* The WaitGroup *)

CountInv == TypeInv /\ Counted

\* The steps that do not touch a filler, the counter or Run.
LEMMA CountFrame ==
  ASSUME CountInv, UNCHANGED <<filler, main, wg, panicked>>, ctx => ctx' PROVE Counted'
  BY DEF CountInv, Counted, Working, Ending

LEMMA CountFill ==
  ASSUME CountInv, NEW w \in Fillers, StartWorker(w) \/ Fill(w), ~ panicked PROVE Counted'
  <1> USE PoolAssumption DEF CountInv, TypeInv, LdapPoolTypeOK, callerVars, worldVars, runVars
  <1>0. IsFiniteSet(Working) /\ IsFiniteSet(Ending)
    BY FS_Subset DEF Working, Ending
  <1>1. Cardinality(Working) \in Nat /\ Cardinality(Ending) \in Nat
    BY <1>0, FS_CardinalityType
  <1>2. CASE StartWorker(w)
    <2>1. Working' = Working \cup {w} /\ w \notin Working /\ Ending' = Ending
      BY <1>2 DEF StartWorker, Working, Ending
    <2>2. Cardinality(Working') = Cardinality(Working) + 1
      BY <1>0, <2>1, FS_AddElement
    <2>3. wg' = wg + 2 /\ main' = main /\ main = "starting" /\ panicked' = panicked
      BY <1>2 DEF StartWorker
    <2>4. wg' = 2 * Cardinality(Working') + Cardinality(Ending') - (IF main' = "returned" THEN 1 ELSE 0)
      <3>1. wg = 2 * Cardinality(Working) + Cardinality(Ending)
        BY <1>1, <2>3 DEF Counted
      <3>2. 2 * Cardinality(Working') = 2 * Cardinality(Working) + 2
        BY <1>1, <2>2
      <3> QED
        BY <1>1, <2>1, <2>3, <3>1, <3>2
    <2>5. \A v \in Fillers : filler'[v] \in {"half", "left"} => ctx'
      BY <1>2 DEF StartWorker, Counted
    <2>6. ~ panicked' /\ main' # "returned" /\ main' = "starting"
      BY <2>3
    <2> QED
      BY <2>4, <2>5, <2>6 DEF Counted
  <1>3. CASE AwaitDemand(w) \/ Dial(w) \/ DialFails(w) \/ RetrySlot(w) \/ HandOver(w)
    <2>1. Working' = Working /\ Ending' = Ending
      BY <1>3 DEF AwaitDemand, Dial, DialFails, RetrySlot, HandOver, Working, Ending
    <2>2. UNCHANGED <<ctx, main, wg, panicked>>
      BY <1>3 DEF AwaitDemand, Dial, DialFails, RetrySlot, HandOver
    <2>3. \A v \in Fillers : /\ filler'[v] \in {"half", "left"} => filler[v] \in {"half", "left"}
                             /\ filler'[v] = "new" => filler[v] = "new"
      BY <1>3 DEF AwaitDemand, Dial, DialFails, RetrySlot, HandOver
    <2>4. wg' = 2 * Cardinality(Working') + Cardinality(Ending') - (IF main' = "returned" THEN 1 ELSE 0)
      BY <2>1, <2>2 DEF Counted
    <2>5. \A v \in Fillers : filler'[v] \in {"half", "left"} => ctx'
      BY <2>2, <2>3 DEF Counted
    <2> QED
      BY <2>2, <2>3, <2>4, <2>5 DEF Counted
  <1>4. CASE SendAborts(w) \/ Leave(w)
    <2>1. Working' = Working \ {w} /\ w \in Working /\ Ending' = Ending \cup {w} /\ w \notin Ending
      BY <1>4 DEF SendAborts, Leave, Working, Ending
    <2>2. Cardinality(Working') = Cardinality(Working) - 1 /\ Cardinality(Ending') = Cardinality(Ending) + 1
      BY <1>0, <2>1, FS_RemoveElement, FS_AddElement
    <2>3. wg' = wg - 1 /\ main' = main /\ (panicked' => wg' < 0) /\ ctx /\ ctx' = ctx
      BY <1>4 DEF SendAborts, Leave, Done
    <2>4. \A v \in Fillers : filler'[v] = "new" => filler[v] = "new"
      BY <1>4 DEF SendAborts, Leave
    <2>5. wg' = 2 * Cardinality(Working') + Cardinality(Ending') - (IF main' = "returned" THEN 1 ELSE 0)
      <3>1. 2 * Cardinality(Working') = 2 * Cardinality(Working) - 2
        BY <1>1, <2>2
      <3>2. wg = 2 * Cardinality(Working) + Cardinality(Ending) - (IF main' = "returned" THEN 1 ELSE 0)
        BY <2>3 DEF Counted
      <3>3. wg' = wg - 1 /\ Cardinality(Ending') = Cardinality(Ending) + 1
        BY <2>2, <2>3
      <3> HIDE DEF CountInv, TypeInv, LdapPoolTypeOK
      <3>4. CASE main' = "returned"
        BY <1>1, <3>1, <3>2, <3>3, <3>4
      <3>5. CASE main' # "returned"
        BY <1>1, <3>1, <3>2, <3>3, <3>5
      <3> QED
        BY <3>4, <3>5
    <2>6. \A v \in Fillers : filler'[v] \in {"half", "left"} => ctx'
      BY <2>3
    <2> QED
      BY <2>3, <2>4, <2>5, <2>6 DEF Counted
  <1>5. CASE WorkerDone(w)
    <2>1. Working' = Working /\ Ending' = Ending \ {w} /\ w \in Ending
      BY <1>5 DEF WorkerDone, Working, Ending
    <2>2. Cardinality(Ending') = Cardinality(Ending) - 1
      BY <1>0, <2>1, FS_RemoveElement
    <2>3. wg' = wg - 1 /\ main' = main /\ (panicked' => wg' < 0) /\ ctx' = ctx
      BY <1>5 DEF WorkerDone, Done
    <2>4. \A v \in Fillers : filler'[v] = "new" => filler[v] = "new"
      BY <1>5 DEF WorkerDone
    <2>5. ctx
      BY <1>5 DEF WorkerDone, Counted
    <2>6. wg' = 2 * Cardinality(Working') + Cardinality(Ending') - (IF main' = "returned" THEN 1 ELSE 0)
      BY <1>1, <2>1, <2>2, <2>3, SMTT(30) DEF Counted
    <2>7. \A v \in Fillers : filler'[v] \in {"half", "left"} => ctx'
      BY <2>3, <2>5
    <2> QED
      BY <2>3, <2>4, <2>6, <2>7 DEF Counted
  <1> QED
    BY <1>2, <1>3, <1>4, <1>5 DEF Fill

LEMMA CountNext == CountInv /\ [Next]_vars => CountInv'
  <1> SUFFICES ASSUME CountInv, [Next]_vars PROVE CountInv'
    OBVIOUS
  <1>1. TypeInv'
    BY TypeNext DEF CountInv
  <1> USE DEF callerVars, fillerVars, worldVars, runVars
  <1>2. CASE UNCHANGED vars \/ ServerDown \/ ServerUp
    BY <1>1, <1>2, CountFrame DEF vars, ServerDown, ServerUp, CountInv
  <1>3. CASE Cancel
    BY <1>1, <1>3, CountFrame DEF Cancel, CountInv
  <1>4. CASE NotifyStarted
    <2>1. Working' = Working /\ Ending' = Ending
      BY <1>4 DEF NotifyStarted, Working, Ending
    <2> QED
      BY <1>1, <1>4, <2>1 DEF NotifyStarted, CountInv, Counted
  <1>5. CASE RunReturns
    <2>1. Working' = Working /\ Ending' = Ending
      BY <1>5 DEF RunReturns, Working, Ending
    <2>2. Cardinality(Working) \in Nat /\ Cardinality(Ending) \in Nat
      BY PoolAssumption, FS_Subset, FS_CardinalityType DEF Working, Ending
    <2>3. wg' = wg - 1 /\ main' = "returned" /\ main = "notified" /\ (panicked' => wg' < 0)
      BY <1>5 DEF RunReturns, Done
    <2>4. UNCHANGED <<filler, ctx>> /\ wg \in Int
      BY <1>5 DEF RunReturns, CountInv, TypeInv, LdapPoolTypeOK
    <2> QED
      BY <1>1, <2>1, <2>2, <2>3, <2>4 DEF CountInv, Counted
  <1>6. ASSUME NEW c \in Callers, Serve(c) PROVE UNCHANGED <<filler, main, wg, panicked, ctx>>
    BY <1>6 DEF Serve, get, Call, GiveUp, Take, AskNext, isAlive, CloseDead, Close, CloseConn,
                BindRoot, BindFails
  <1> QED
    BY <1>1, <1>2, <1>3, <1>4, <1>5, <1>6, CountFill, CountFrame DEF Next, Serve, CountInv

\* The counter of the WaitGroup goes below zero, but never before the service
\* is being stopped and every filler has returned.
THEOREM PoolPanicsLast == Spec => []PanicOnlyAtTheEnd
  <1>1. Init => CountInv
    <2> SUFFICES ASSUME Init PROVE CountInv
      OBVIOUS
    <2>1. Working = {} /\ Ending = {}
      BY DEF Init, Working, Ending
    <2>2. Cardinality(Working) = 0 /\ Cardinality(Ending) = 0
      BY <2>1, FS_EmptySet
    <2>3. wg = 2 * 0 + 0 - 0 /\ ~ panicked /\ main = "starting"
      BY DEF Init
    <2>4. \A w \in Fillers : filler[w] = "new"
      BY DEF Init
    <2> QED
      BY <2>2, <2>3, <2>4, TypeInit DEF CountInv, Counted
  <1>2. ASSUME CountInv PROVE PanicOnlyAtTheEnd
    <2> SUFFICES ASSUME panicked, NEW w \in Fillers PROVE ctx /\ filler[w] = "left"
      BY DEF PanicOnlyAtTheEnd
    <2> USE PoolAssumption, <1>2 DEF CountInv, TypeInv, LdapPoolTypeOK
    <2>1. IsFiniteSet(Working) /\ IsFiniteSet(Ending)
      BY FS_Subset DEF Working, Ending
    <2>2. Cardinality(Working) \in Nat /\ Cardinality(Ending) \in Nat
      BY <2>1, FS_CardinalityType
    <2>3. main = "returned" /\ Cardinality(Working) = 0 /\ Cardinality(Ending) = 0
      BY <2>2 DEF Counted
    <2>4. w \notin Working /\ w \notin Ending
      BY <2>1, <2>3, FS_EmptySet
    <2> QED
      BY <2>3, <2>4 DEF Counted, Working, Ending, FillerAt
  <1> QED
    BY <1>1, <1>2, CountNext, PTL DEF Spec

----------------------------------------------------------------------------
(* Connections and their owners *)

Held(k) ==
  \/ \E n \in DOMAIN source : source[n] = k
  \/ \E w \in Fillers : fresh[w] = k
  \/ \E c \in Callers : conn[c] = k

\* A filler has a connection exactly while it sends, a caller from Take to the
\* end of its use, so that neither overwrites one it has; nothing that is held
\* is closed, and nobody holds what somebody else holds.
Owned ==
  /\ \A w \in Fillers : fresh[w] # NoConn <=> filler[w] = "send"
  /\ \A c \in Callers : conn[c] # NoConn <=> caller[c] \notin {"out", "wait"}
  /\ \A k \in Conns : Held(k) => state[k] # "none"
  /\ \A m, n \in DOMAIN source : source[m] = source[n] => m = n
  /\ \A w, v \in Fillers : fresh[w] = fresh[v] /\ fresh[w] # NoConn => w = v
  /\ \A c, d \in Callers : conn[c] = conn[d] /\ conn[c] # NoConn => c = d
  /\ \A n \in DOMAIN source : /\ \A w \in Fillers : source[n] # fresh[w]
                              /\ \A c \in Callers : source[n] # conn[c]
  /\ \A w \in Fillers, c \in Callers : fresh[w] = conn[c] => fresh[w] = NoConn

OwnerInv == TypeInv /\ Owned /\ Cardinality(Forgotten) <= refused

LEMMA ForgottenIs ==
  /\ Forgotten = {k \in Conns : state[k] # "none" /\ ~ Held(k)}
  /\ Forgotten' = {k \in Conns : state'[k] # "none" /\ ~ Held(k)'}
  <1>1. ASSUME NEW k PROVE Places(k) = {} <=> ~ Held(k)
    BY DEF Places, Held
  <1>2. ASSUME NEW k PROVE Places(k)' = {} <=> ~ Held(k)'
    BY DEF Places, Held
  <1> QED
    BY <1>1, <1>2 DEF Forgotten

\* No step forgets a connection but one that counts it.
LEMMA ForgottenBound ==
  ASSUME TypeInv, TypeInv', Cardinality(Forgotten) <= refused,
         \/ Forgotten' \subseteq Forgotten /\ refused' = refused
         \/ \E k \in Conns : Forgotten' \subseteq Forgotten \cup {k} /\ refused' = refused + 1
  PROVE  Cardinality(Forgotten') <= refused'
  <1> USE PoolAssumption
  <1>1. IsFiniteSet(Forgotten) /\ Cardinality(Forgotten) \in Nat
    BY FS_Subset, FS_CardinalityType DEF Forgotten
  <1>2. refused \in Nat
    BY DEF TypeInv, LdapPoolTypeOK
  <1>3. CASE Forgotten' \subseteq Forgotten /\ refused' = refused
    BY <1>1, <1>2, <1>3, FS_Subset, FS_CardinalityType
  <1>4. ASSUME NEW k \in Conns, Forgotten' \subseteq Forgotten \cup {k}, refused' = refused + 1
        PROVE  Cardinality(Forgotten') <= refused'
    <2>1. /\ IsFiniteSet(Forgotten \cup {k})
          /\ Cardinality(Forgotten \cup {k}) <= Cardinality(Forgotten) + 1
          /\ Cardinality(Forgotten \cup {k}) \in Nat
      <3>1. CASE k \in Forgotten
        <4>1. Forgotten \cup {k} = Forgotten
          BY <3>1
        <4> QED
          BY <1>1, <4>1
      <3>2. CASE k \notin Forgotten
        <4>1. /\ IsFiniteSet(Forgotten \cup {k})
              /\ Cardinality(Forgotten \cup {k}) = Cardinality(Forgotten) + 1
          BY <1>1, <3>2, FS_AddElement
        <4> QED
          BY <1>1, <4>1
      <3> QED
        BY <3>1, <3>2
    <2>2. Cardinality(Forgotten') <= Cardinality(Forgotten \cup {k}) /\ Cardinality(Forgotten') \in Nat
      BY <1>4, <2>1, FS_Subset, FS_CardinalityType
    <2> QED
      BY <1>1, <1>2, <1>4, <2>1, <2>2
  <1> QED
    BY <1>3, <1>4

LEMMA OwnerFill ==
  ASSUME OwnerInv, TypeInv', NEW w \in Fillers, StartWorker(w) \/ Fill(w)
  PROVE  Owned' /\ Forgotten' \subseteq Forgotten /\ refused' = refused
  <1> USE PoolAssumption DEF OwnerInv, TypeInv, LdapPoolTypeOK, callerVars, worldVars, runVars
  <1>0. /\ Forgotten = {k \in Conns : state[k] # "none" /\ ~ Held(k)}
        /\ Forgotten' = {k \in Conns : state'[k] # "none" /\ ~ Held(k)'}
    BY ForgottenIs
  <1>1. CASE StartWorker(w) \/ AwaitDemand(w) \/ DialFails(w) \/ RetrySlot(w) \/ Leave(w) \/ WorkerDone(w)
    <2>1. UNCHANGED <<source, fresh, conn, state, caller, refused>>
      BY <1>1 DEF StartWorker, AwaitDemand, DialFails, RetrySlot, Leave, WorkerDone
    <2>2. \A v \in Fillers : filler'[v] = "send" <=> filler[v] = "send"
      BY <1>1 DEF StartWorker, AwaitDemand, DialFails, RetrySlot, Leave, WorkerDone
    <2> QED
      BY <1>0, <2>1, <2>2 DEF Owned, Held
  <1>2. CASE Dial(w)
    <2>1. PICK k \in Conns : state[k] = "none" /\ state' = [state EXCEPT ![k] = "open"]
                             /\ fresh' = [fresh EXCEPT ![w] = k]
      BY <1>2 DEF Dial
    <2>2. UNCHANGED <<source, conn, caller, refused>> /\ filler' = [filler EXCEPT ![w] = "send"]
      BY <1>2 DEF Dial
    <2>3. fresh[w] = NoConn /\ ~ Held(k)
      BY <1>2, <2>1 DEF Dial, Owned
    <2>4. \A j \in Conns : Held(j)' <=> Held(j) \/ j = k
      BY <2>1, <2>2, <2>3 DEF Held
    <2>5. Owned'
      BY <2>1, <2>2, <2>3, <2>4 DEF Owned, Held
    <2>6. Forgotten' \subseteq Forgotten
      BY <1>0, <2>1, <2>4
    <2> QED
      BY <2>2, <2>5, <2>6
  <1>3. CASE HandOver(w)
    <2>1. /\ source' = Append(source, fresh[w]) /\ fresh' = [fresh EXCEPT ![w] = NoConn]
          /\ filler' = [filler EXCEPT ![w] = "idle"] /\ filler[w] = "send"
          /\ UNCHANGED <<conn, caller, state, refused>>
      BY <1>3 DEF HandOver
    <2>2. fresh[w] \in Conns /\ fresh[w] # NoConn
      BY <2>1 DEF Owned
    <2>3. /\ Len(source') = Len(source) + 1 /\ DOMAIN source' = 1..(Len(source) + 1)
          /\ \A n \in 1..Len(source) : source'[n] = source[n]
          /\ source'[Len(source) + 1] = fresh[w] /\ DOMAIN source = 1..Len(source)
      BY <2>1, <2>2
    <2>4. \A j \in Conns : Held(j)' <=> Held(j)
      <3>1. \A j \in Conns : (\E n \in DOMAIN source' : source'[n] = j)
                             <=> (j = fresh[w] \/ \E n \in DOMAIN source : source[n] = j)
        <4> HIDE DEF OwnerInv, TypeInv, LdapPoolTypeOK
        <4>1. Len(source) \in Nat
          BY DEF OwnerInv, TypeInv, LdapPoolTypeOK
        <4> QED
          BY <2>3, <4>1
      <3>2. \A j \in Conns : (\E v \in Fillers : fresh[v] = j)
                             <=> (j = fresh[w] \/ \E v \in Fillers : fresh'[v] = j)
        BY <2>1, <2>2
      <3> QED
        BY <2>1, <3>1, <3>2 DEF Held
    <2>5. Owned'
      BY <2>1, <2>2, <2>3, <2>4 DEF Owned
    <2>6. Forgotten' \subseteq Forgotten
      BY <1>0, <2>1, <2>4
    <2> QED
      BY <2>1, <2>5, <2>6
  <1>4. CASE SendAborts(w)
    <2>1. /\ state' = [state EXCEPT ![fresh[w]] = "none"] /\ fresh' = [fresh EXCEPT ![w] = NoConn]
          /\ filler' = [filler EXCEPT ![w] = "half"] /\ filler[w] = "send"
          /\ UNCHANGED <<source, conn, caller, refused>>
      BY <1>4 DEF SendAborts
    <2>2. fresh[w] \in Conns /\ fresh[w] # NoConn
      BY <2>1 DEF Owned
    <2>3. \A j \in Conns : Held(j)' <=> Held(j) /\ j # fresh[w]
      BY <2>1, <2>2 DEF Held, Owned
    <2>4. Owned'
      BY <2>1, <2>2, <2>3 DEF Owned
    <2>5. Forgotten' \subseteq Forgotten
      BY <1>0, <2>1, <2>2, <2>3
    <2> QED
      BY <2>1, <2>4, <2>5
  <1> QED
    BY <1>1, <1>2, <1>3, <1>4 DEF Fill

LEMMA OwnerServe ==
  ASSUME OwnerInv, TypeInv', NEW c \in Callers, Serve(c)
  PROVE  /\ Owned'
         /\ \/ Forgotten' \subseteq Forgotten /\ refused' = refused
            \/ \E k \in Conns : Forgotten' \subseteq Forgotten \cup {k} /\ refused' = refused + 1
  <1> USE PoolAssumption DEF OwnerInv, TypeInv, LdapPoolTypeOK, fillerVars, worldVars, runVars, Goto
  <1>0. /\ Forgotten = {k \in Conns : state[k] # "none" /\ ~ Held(k)}
        /\ Forgotten' = {k \in Conns : state'[k] # "none" /\ ~ Held(k)'}
    BY ForgottenIs
  <1>1. CASE Call(c) \/ GiveUp(c) \/ AskNext(c) \/ isAlive(c) \/ BindRoot(c)
    <2>1. UNCHANGED <<source, fresh, conn, state, filler, refused>>
      BY <1>1 DEF Call, GiveUp, AskNext, isAlive, BindRoot
    <2>2. \A d \in Callers : caller'[d] \in {"out", "wait"} <=> caller[d] \in {"out", "wait"}
      BY <1>1 DEF Call, GiveUp, AskNext, isAlive, BindRoot
    <2> QED
      BY <1>0, <2>1, <2>2 DEF Owned, Held
  <1>2. CASE Take(c)
    <2>1. /\ source # <<>> /\ source' = Tail(source) /\ conn' = [conn EXCEPT ![c] = Head(source)]
          /\ caller' = [caller EXCEPT ![c] = "taken"] /\ caller[c] = "wait"
          /\ UNCHANGED <<fresh, filler, state, refused>>
      BY <1>2 DEF Take
    <2>2. /\ Len(source) \in Nat /\ Len(source) > 0 /\ Head(source) = source[1] /\ Head(source) \in Conns
          /\ DOMAIN source = 1..Len(source) /\ DOMAIN source' = 1..(Len(source) - 1)
          /\ \A n \in 1..(Len(source) - 1) : source'[n] = source[n + 1]
      BY <2>1
    <2>3. conn[c] = NoConn /\ source[1] # NoConn
      BY <2>1, <2>2 DEF Owned
    <2>4. \A j \in Conns : Held(j)' <=> Held(j)
      <3>1. \A j \in Conns : (\E n \in DOMAIN source : source[n] = j)
                             <=> (j = source[1] \/ \E n \in DOMAIN source' : source'[n] = j)
        <4> SUFFICES ASSUME NEW j \in Conns PROVE (\E n \in DOMAIN source : source[n] = j)
                             <=> (j = source[1] \/ \E n \in DOMAIN source' : source'[n] = j)
          OBVIOUS
        <4>1. ASSUME NEW n \in DOMAIN source, source[n] = j, j # source[1]
              PROVE  n - 1 \in DOMAIN source' /\ source'[n - 1] = j
          BY <2>2, <4>1
        <4>2. ASSUME NEW n \in DOMAIN source', source'[n] = j
              PROVE  n + 1 \in DOMAIN source /\ source[n + 1] = j
          BY <2>2, <4>2
        <4>3. ASSUME j = source[1] PROVE \E n \in DOMAIN source : source[n] = j
          <5>1. 1 \in DOMAIN source
            BY <2>2
          <5> QED
            BY <4>3, <5>1, Zenon
        <4> HIDE DEF OwnerInv, TypeInv, LdapPoolTypeOK
        <4> QED
          BY <4>1, <4>2, <4>3
      <3> QED
        BY <2>1, <2>2, <2>3, <3>1 DEF Held
    <2>5. \A n \in DOMAIN source' : /\ source'[n] = source[n + 1] /\ n + 1 \in DOMAIN source
                                    /\ source[n + 1] # source[1]
      <3>1. \A n \in DOMAIN source' : n + 1 \in DOMAIN source /\ n + 1 # 1 /\ 1 \in DOMAIN source
        BY <2>2
      <3> QED
        BY <2>2, <3>1 DEF Owned
    <2>6. conn'[c] = source[1] /\ \A d \in Callers \ {c} : conn'[d] = conn[d]
      BY <2>1, <2>2
    <2>7. Owned'
      <3>1. /\ \A w \in Fillers : fresh'[w] # NoConn <=> filler'[w] = "send"
            /\ \A d \in Callers : conn'[d] # NoConn <=> caller'[d] \notin {"out", "wait"}
            /\ \A k \in Conns : Held(k)' => state'[k] # "none"
        BY <2>1, <2>3, <2>4, <2>6 DEF Owned
      <3>2. \A m, n \in DOMAIN source' : source'[m] = source'[n] => m = n
        <4>1. \A m, n \in DOMAIN source' : source'[m] = source'[n] => m + 1 = n + 1
          BY <2>5 DEF Owned
        <4>2. \A m \in DOMAIN source' : m \in Nat
          BY <2>2
        <4> QED
          BY ONLY <4>1, <4>2
      <3> HIDE DEF OwnerInv, TypeInv, LdapPoolTypeOK
      <3>3. Owned /\ 1 \in DOMAIN source /\ fresh' = fresh
        BY <2>1, <2>2 DEF OwnerInv
      <3>4. \A e, d \in Callers : conn'[e] = conn'[d] /\ conn'[e] # NoConn => e = d
        BY <2>6, <3>3 DEF Owned
      <3>5. \A n \in DOMAIN source' : /\ \A w \in Fillers : source'[n] # fresh'[w]
                                      /\ \A d \in Callers : source'[n] # conn'[d]
        BY <2>5, <2>6, <3>3 DEF Owned
      <3>6. \A w \in Fillers, d \in Callers : fresh'[w] = conn'[d] => fresh'[w] = NoConn
        BY <2>6, <3>3 DEF Owned
      <3> QED
        BY <3>1, <3>2, <3>3, <3>4, <3>5, <3>6 DEF Owned
    <2>8. Forgotten' \subseteq Forgotten
      BY <1>0, <2>1, <2>4
    <2> QED
      BY <2>1, <2>7, <2>8
  <1>3. ASSUME NEW pc \in {"wait", "out"}, CloseConn(c, pc), caller[c] \notin {"out", "wait"}
        PROVE  Owned' /\ Forgotten' \subseteq Forgotten /\ refused' = refused
    <2>1. /\ state' = [state EXCEPT ![conn[c]] = "none"] /\ conn' = [conn EXCEPT ![c] = NoConn]
          /\ caller' = [caller EXCEPT ![c] = pc]
          /\ UNCHANGED <<source, fresh, filler, refused>>
      BY <1>3 DEF CloseConn
    <2>2. conn[c] \in Conns /\ conn[c] # NoConn
      BY <1>3 DEF Owned
    <2>3. \A j \in Conns : Held(j)' <=> Held(j) /\ j # conn[c]
      BY <2>1, <2>2 DEF Held, Owned
    <2>4. Owned'
      BY <2>1, <2>2, <2>3 DEF Owned
    <2>5. Forgotten' \subseteq Forgotten
      BY <1>0, <2>1, <2>2, <2>3
    <2> QED
      BY <2>1, <2>4, <2>5
  <1>4. CASE BindFails(c)
    <2>1. /\ conn' = [conn EXCEPT ![c] = NoConn] /\ caller' = [caller EXCEPT ![c] = "out"]
          /\ caller[c] = "held" /\ refused' = refused + 1
          /\ UNCHANGED <<source, fresh, filler, state>>
      BY <1>4 DEF BindFails
    <2>2. conn[c] \in Conns /\ conn[c] # NoConn
      BY <2>1 DEF Owned
    <2>3. \A j \in Conns : Held(j)' <=> Held(j) /\ j # conn[c]
      BY <2>1, <2>2 DEF Held, Owned
    <2>4. Owned'
      BY <2>1, <2>2, <2>3 DEF Owned
    <2>5. Forgotten' \subseteq Forgotten \cup {conn[c]}
      BY <1>0, <2>1, <2>2, <2>3
    <2> QED
      BY <2>1, <2>2, <2>4, <2>5
  <1> QED
    BY <1>1, <1>2, <1>3, <1>4 DEF Serve, get, CloseDead, Close

LEMMA OwnerNext == OwnerInv /\ [Next]_vars => OwnerInv'
  <1> SUFFICES ASSUME OwnerInv, [Next]_vars PROVE OwnerInv'
    OBVIOUS
  <1>1. TypeInv'
    BY TypeNext DEF OwnerInv
  <1>2. CASE UNCHANGED vars \/ NotifyStarted \/ RunReturns \/ Cancel \/ ServerUp \/ ServerDown
    <2>1. UNCHANGED <<source, fresh, conn, filler, caller, refused>>
      BY <1>2 DEF vars, NotifyStarted, RunReturns, Cancel, ServerUp, ServerDown, fillerVars,
                  callerVars, worldVars, runVars
    <2>2. \A k \in Conns : state'[k] = "none" <=> state[k] = "none"
      BY <1>2 DEF vars, NotifyStarted, RunReturns, Cancel, ServerUp, ServerDown, OwnerInv, TypeInv,
                  LdapPoolTypeOK
    <2> QED
      BY <1>1, <2>1, <2>2 DEF OwnerInv, Owned, Held, Forgotten, Places
  <1>3. ASSUME NEW w \in Fillers, StartWorker(w) \/ Fill(w) PROVE OwnerInv'
    BY <1>1, <1>3, OwnerFill, ForgottenBound DEF OwnerInv
  <1>4. ASSUME NEW c \in Callers, Serve(c) PROVE OwnerInv'
    BY <1>1, <1>4, OwnerServe, ForgottenBound DEF OwnerInv
  <1> QED
    BY <1>2, <1>3, <1>4 DEF Next, Serve

\* A connection that is not closed has one owner at any time, whatever fails or
\* is cancelled; the connections nobody owns and nobody closes are at most as
\* many as the root binds that failed.
THEOREM PoolOneOwner == Spec => []OneOwner
  <1>1. Init => OwnerInv
    <2> SUFFICES ASSUME Init PROVE OwnerInv
      OBVIOUS
    <2>1. TypeInv
      BY TypeInit
    <2>2. Forgotten = {} /\ refused = 0
      BY DEF Init, Forgotten
    <2>3. Cardinality(Forgotten) <= refused
      BY <2>2, FS_EmptySet
    <2>4. Owned
      BY PoolAssumption DEF Init, Owned, Held
    <2> QED
      BY <2>1, <2>3, <2>4 DEF OwnerInv
  <1>2. ASSUME OwnerInv PROVE OneOwner
    <2> SUFFICES ASSUME NEW k \in Conns
                 PROVE  IF state[k] = "none" THEN Places(k) = {} ELSE \A x, y \in Places(k) : x = y
      BY <1>2 DEF OwnerInv, OneOwner
    <2> USE <1>2, PoolAssumption DEF OwnerInv, TypeInv, LdapPoolTypeOK
    <2>1. CASE state[k] = "none"
      BY <2>1 DEF Owned, Held, Places
    <2>2. ASSUME NEW x \in Places(k), NEW y \in Places(k) PROVE x = y
      <3>1. \/ \E n \in DOMAIN source : x = <<"source", n>> /\ source[n] = k
            \/ \E w \in Fillers : x = <<"filler", w>> /\ fresh[w] = k
            \/ \E c \in Callers : x = <<"caller", c>> /\ conn[c] = k
        BY DEF Places
      <3>2. \/ \E n \in DOMAIN source : y = <<"source", n>> /\ source[n] = k
            \/ \E w \in Fillers : y = <<"filler", w>> /\ fresh[w] = k
            \/ \E c \in Callers : y = <<"caller", c>> /\ conn[c] = k
        BY DEF Places
      <3> HIDE DEF OwnerInv, TypeInv, LdapPoolTypeOK
      <3>3. k # NoConn /\ Owned
        BY DEF OwnerInv
      <3>4. CASE \E n \in DOMAIN source : x = <<"source", n>> /\ source[n] = k
        BY <3>2, <3>3, <3>4 DEF Owned
      <3>5. CASE \E w \in Fillers : x = <<"filler", w>> /\ fresh[w] = k
        BY <3>2, <3>3, <3>5 DEF Owned
      <3>6. CASE \E c \in Callers : x = <<"caller", c>> /\ conn[c] = k
        BY <3>2, <3>3, <3>6 DEF Owned
      <3> QED
        BY <3>1, <3>4, <3>5, <3>6
    <2> QED
      BY <2>1, <2>2
  <1> QED
    BY <1>1, <1>2, OwnerNext, PTL DEF Spec

=============================================================================
