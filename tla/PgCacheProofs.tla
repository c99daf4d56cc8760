--------------------------- MODULE PgCacheProofs ---------------------------
(* Invariants of PgCache for every number of processes, keys and           *)
(* transactions, and every bound.                                          *)
EXTENDS PgCache, TLAPS

LEMMA TypeInit == Init => TypeOK
  <1> SUFFICES ASSUME Init PROVE TypeOK
    OBVIOUS
  <1>1. IdleLoop \in Loops /\ FreshTx \in Txs
    BY BoundsAssumption DEF IdleLoop, Loops, FreshTx, Txs, Version
  <1> QED
    BY <1>1 DEF Init, TypeOK, Table, Row, Version, EmptyMap

LEMMA TypeListen == ASSUME TypeOK, NEW i \in Inst, List(i) \/ Listen(i) \/ Restart(i) PROVE TypeOK'
  BY DEF TypeOK, List, Listen, Restart, Enter, Window

LEMMA FreshType == FreshTx \in Txs /\ IdleLoop \in Loops /\ EmptyMap \in Table
  BY BoundsAssumption DEF FreshTx, Txs, IdleLoop, Loops, EmptyMap, Table, Row, Version

LEMMA TypeExited ==
  ASSUME TypeOK, NEW i \in Inst, NEW ph \in {"start", "listed", "running", "dead"}, Exited(i, ph)
  PROVE  /\ phase' \in [Inst -> {"start", "listed", "running", "dead"}]
         /\ cache' \in [Inst -> Table]
         /\ queue' \in [Inst -> Seq(Payload)]
         /\ loop' \in [Inst -> Loops]
         /\ tx' \in [Tx -> Txs]
  <1>2. \A p \in {"done", "failed"} : [FreshTx EXCEPT !.pc = p] \in Txs
    BY FreshType DEF Txs
  <1>3. tx' \in [Tx -> Txs]
    BY <1>2 DEF TypeOK, Exited
  <1> QED
    BY FreshType, <1>3 DEF TypeOK, Exited

LEMMA TypeProcess == ASSUME TypeOK, NEW i \in Inst, ProcessStep(i) PROVE TypeOK'
  <1>1. CASE List(i) \/ Listen(i) \/ Restart(i)
    BY <1>1, TypeListen
  <1>2. CASE StartFails(i)
    BY <1>2, TypeExited DEF StartFails, Fault, TypeOK
  <1>3. CASE Crash(i)
    BY <1>3, TypeExited DEF Crash, Enter, Window, TypeOK
  <1> QED
    BY <1>1, <1>2, <1>3 DEF ProcessStep

LEMMA TypeGoto ==
  ASSUME TypeOK, NEW t \in Tx, NEW p \in {"idle", "open", "exec", "notify", "sent", "apply",
                "done", "lost", "failed", "aborted", "stuck"}, Goto(t, p)
  PROVE  tx' \in [Tx -> Txs]
  BY ZenonT(40) DEF TypeOK, Goto, Txs

LEMMA TxsAborted == ASSUME NEW x \in Txs, NEW W \in SUBSET Update PROVE [x EXCEPT !.pc = "aborted", !.want = W] \in Txs
  BY DEF Txs

LEMMA TypeClient == ASSUME TypeOK, NEW t \in Tx, ClientStep(t) PROVE TypeOK'
  <1>1. CASE Begin(t) \/ Abandon(t) \/ CommitBegin(t)
    BY <1>1, TypeGoto DEF Begin, Abandon, CommitBegin, TypeOK
  <1>2. ASSUME NEW u \in Update, Issue(t, u) PROVE TypeOK'
    BY <1>2, ZenonT(40) DEF Issue, TypeOK, Txs
  <1>3. CASE Execute(t)
    <2>1. PICK u \in tx[t].want :
            tx' = [tx EXCEPT ![t].pc = "open", ![t].want = {},
                             ![t].ups = Append(tx[t].ups, u),
                             ![t].eff[u.key] = Effect(t, u)]
      BY <1>3 DEF Execute
    <2>2. u \in Update /\ Append(tx[t].ups, u) \in Seq(Update)
      BY <2>1 DEF TypeOK, Txs
    <2>3. Effect(t, u) \in Version \cup {None, Same}
      BY <2>2 DEF Effect, Visible, TypeOK, Txs, Table, Row, Version, Update
    <2>4. tx' \in [Tx -> Txs]
      BY <2>1, <2>2, <2>3 DEF TypeOK, Txs, Update
    <2> QED
      BY <1>3, <2>4 DEF Execute, Enter, Window, TypeOK
  <1>4. CASE StatementFails(t)
    <2>1. tx' = [tx EXCEPT ![t].pc = "aborted", ![t].want = {}]
      BY <1>4 DEF StatementFails
    <2>2. tx' \in [Tx -> Txs]
      BY <2>1, TxsAborted DEF TypeOK
    <2> QED
      BY <1>4, <2>2 DEF StatementFails, Fault, TypeOK
  <1> QED
    BY <1>1, <1>2, <1>3, <1>4, Zenon DEF ClientStep

LEMMA KeyMapType == ASSUME NEW ups \in Seq(Update) PROVE KeyMap(ups) \in [Keys -> {"store", "delete", "none"}]
  <1> SUFFICES ASSUME NEW k \in Keys
               PROVE  KeyMap(ups)[k] \in {"store", "delete", "none"}
    BY DEF KeyMap
  <1> DEFINE at == CHOOSE n \in LastOf(ups, k) : TRUE
  <1>1. KeyMap(ups)[k] = IF LastOf(ups, k) = {} THEN "none" ELSE ups[at].type
    BY DEF KeyMap
  <1>2. LastOf(ups, k) # {} => at \in DOMAIN ups
    BY DEF LastOf
  <1>3. LastOf(ups, k) # {} => ups[at] \in Update
    BY <1>2
  <1> QED
    BY <1>1, <1>3 DEF Update

LEMMA TypeBroadcast ==
  ASSUME TypeOK, NEW t \in Tx, Broadcast([id |-> Home[t], keymap |-> KeyMap(tx[t].ups)])
  PROVE  queue' \in [Inst -> Seq(Payload)]
  <1> DEFINE msg == [id |-> Home[t], keymap |-> KeyMap(tx[t].ups)]
  <1>1. msg \in Payload
    BY KeyMapType, TablesAssumption DEF Payload, TypeOK, Txs
  <1> HIDE DEF msg
  <1>2. Broadcast(msg)
    BY DEF msg
  <1> QED
    BY <1>1, <1>2 DEF Broadcast, TypeOK

LEMMA CommittedType == ASSUME TypeOK, NEW t \in Tx PROVE Committed(t) \in Table
  BY DEF Committed, Visible, TypeOK, Txs, Table, Row

LEMMA CopyType == ASSUME TypeOK, NEW i \in Inst, NEW k \in Keys, NEW v \in Row PROVE CopyWith(i, k, v) \in Table
  BY DEF CopyWith, TypeOK, Table

LEMMA TypeCommit == ASSUME TypeOK, NEW t \in Tx, CommitStep(t) PROVE TypeOK'
  <1>1. CASE Notify(t)
    BY <1>1, TypeGoto, TypeBroadcast DEF Notify, TypeOK
  <1>2. CASE NotifyFails(t)
    <2>1. queue' \in [Inst -> Seq(Payload)]
      BY <1>2, TypeBroadcast DEF NotifyFails, TypeOK
    <2> QED
      BY <1>2, <2>1, TypeGoto DEF NotifyFails, Fault, Enter, Window, TypeOK
  <1>3. CASE Commit(t)
    BY <1>3, TypeGoto, CommittedType DEF Commit, Enter, Window, TypeOK
  <1>4. CASE CommitFails(t)
    BY <1>4, TypeGoto, CommittedType DEF CommitFails, Fault, Enter, Window, TypeOK
  <1>5. CASE ApplyCopy(t)
    <2> DEFINE u == Head(tx[t].ups)
               v == IF u.type = "store" THEN t ELSE None
    <2>1. u \in Update /\ Tail(tx[t].ups) \in Seq(Update)
      BY <1>5 DEF ApplyCopy, TypeOK, Txs
    <2>2. v \in Row
      BY DEF Row, Version
    <2>3. CopyWith(Home[t], u.key, v) \in Table
      BY <2>1, <2>2, CopyType, TablesAssumption DEF Update
    <2>4. tx' \in [Tx -> Txs]
      <3> DEFINE snap == CopyWith(Home[t], u.key, v)
                 ups == Tail(tx[t].ups)
                 r == [tx[t] EXCEPT !.snap = snap, !.ups = ups]
      <3>1. tx' = [tx EXCEPT ![t] = r] /\ tx[t] \in Txs /\ tx \in [Tx -> Txs]
        BY <1>5 DEF ApplyCopy, TypeOK
      <3> HIDE DEF snap, ups, u, v
      <3>2. r \in Txs
        BY <2>1, <2>3, <3>1 DEF Txs, snap, ups
      <3> HIDE DEF r
      <3> QED
        BY <3>1, <3>2
    <2> QED
      BY <1>5, <2>4 DEF ApplyCopy, EnterOne, Enter, Window, TypeOK
  <1>6. CASE ApplyPublish(t)
    BY <1>6, TablesAssumption, ZenonT(40) DEF ApplyPublish, TypeOK, Txs
  <1>7. CASE CommitReturns(t)
    BY <1>7, TypeGoto DEF CommitReturns, TypeOK
  <1> QED
    BY <1>1, <1>2, <1>3, <1>4, <1>5, <1>6, <1>7 DEF CommitStep

\* The record updates of the loop, apart from the function they are part of.
LEMMA LoopsDels ==
  ASSUME NEW l \in Loops, NEW D \in SUBSET Keys, NEW m \in Table
  PROVE  [l EXCEPT !.dels = D, !.snap = m] \in Loops
  BY DEF Loops

LEMMA LoopsGot ==
  ASSUME NEW l \in Loops, NEW G \in SUBSET Object, NEW m \in Table
  PROVE  [l EXCEPT !.got = G, !.snap = m] \in Loops
  BY DEF Loops

LEMMA LoopsTries ==
  ASSUME NEW l \in Loops, NEW n \in 0..MaxTries
  PROVE  [l EXCEPT !.tries = n] \in Loops
  BY DEF Loops

LEMMA LoopsFetched ==
  ASSUME NEW l \in Loops, NEW G \in SUBSET Object, NEW R \in SUBSET Keys, NEW n \in 0..MaxTries
  PROVE  [l EXCEPT !.refresh = R, !.tries = n, !.got = G] \in Loops
  BY DEF Loops

LEMMA TypeLoop == ASSUME TypeOK, NEW i \in Inst, LoopStep(i) PROVE TypeOK'
  <1>1. CASE NextEvents(i)
    <2>1. Tail(queue[i]) \in Seq(Payload)
      BY <1>1 DEF NextEvents, TypeOK
    <2>2. loop' \in [Inst -> Loops]
      BY <1>1, ZenonT(40) DEF NextEvents, TypeOK, Loops
    <2> QED
      BY <1>1, <2>1, <2>2 DEF NextEvents, TypeOK
  <1>2. ASSUME NEW k \in Keys, DeleteCopy(i, k) PROVE TypeOK'
    <2>1. CopyWith(i, k, None) \in Table
      BY CopyType DEF Row
    <2>2. loop' \in [Inst -> Loops]
      <3>1. [loop[i] EXCEPT !.dels = loop[i].dels \ {k}, !.snap = CopyWith(i, k, None)] \in Loops
        <4>1. loop[i].dels \ {k} \in SUBSET Keys /\ loop[i] \in Loops
          BY DEF TypeOK, Loops
        <4> QED
          BY <4>1, <2>1, LoopsDels
      <3> QED
        BY <1>2, <3>1 DEF DeleteCopy, TypeOK
    <2> QED
      BY <1>2, <2>2 DEF DeleteCopy, EnterOne, Enter, Window, TypeOK
  <1>3. CASE Fetch(i)
    <2>1. {<<k, db[k]>> : k \in loop[i].refresh} \subseteq Object
      BY <1>3 DEF Object,  Fetch, TypeOK, Loops, Table, Row
    <2>2. loop' \in [Inst -> Loops]
      <3>1. [loop[i] EXCEPT !.refresh = {}, !.tries = 0,
                            !.got = {<<k, db[k]>> : k \in loop[i].refresh}] \in Loops
        <4>1. loop[i] \in Loops /\ {} \in SUBSET Keys /\ 0 \in 0..MaxTries
          BY BoundsAssumption DEF TypeOK
        <4> QED
          BY <4>1, <2>1, LoopsFetched
      <3> QED
        BY <1>3, <3>1 DEF Fetch, TypeOK
    <2> QED
      BY <1>3, <2>2 DEF Fetch, Enter, Window, TypeOK
  <1>4. CASE FetchFails(i)
    <2>1. faults' \in Nat
      BY <1>4 DEF FetchFails, Fault, TypeOK
    <2>2. CASE loop[i].tries + 1 < MaxTries
      <3>1. loop' \in [Inst -> Loops]
        <4>1. loop[i] \in Loops /\ loop[i].tries + 1 \in 0..MaxTries
          BY <2>2, BoundsAssumption DEF TypeOK, Loops
        <4>2. [loop[i] EXCEPT !.tries = loop[i].tries + 1] \in Loops
          BY <4>1, LoopsTries
        <4> QED
          BY <1>4, <2>2, <4>2 DEF FetchFails, TypeOK
      <3> QED
        BY <1>4, <2>1, <2>2, <3>1 DEF FetchFails, TypeOK
    <2>3. CASE ~ (loop[i].tries + 1 < MaxTries)
      <3>1. Exited(i, "dead") /\ window' \in Window \cup {"none"}
        BY <1>4, <2>3 DEF FetchFails, Enter, Window, TypeOK
      <3> QED
        BY <1>4, <2>1, <3>1, TypeExited DEF FetchFails, TypeOK
    <2> QED
      BY <2>2, <2>3
  <1>5. ASSUME NEW o \in loop[i].got, RefreshCopy(i, o) PROVE TypeOK'
    <2>1. o \in Object
      BY DEF TypeOK, Loops
    <2>2. CopyWith(i, o[1], o[2]) \in Table
      BY <2>1, CopyType DEF Row, Object
    <2>3. loop' \in [Inst -> Loops]
      <3>1. [loop[i] EXCEPT !.got = loop[i].got \ {o}, !.snap = CopyWith(i, o[1], o[2])] \in Loops
        <4>1. loop[i].got \ {o} \in SUBSET Object /\ loop[i] \in Loops
          BY DEF TypeOK, Loops
        <4> QED
          BY <4>1, <2>2, LoopsGot
      <3> QED
        BY <1>5, <3>1 DEF RefreshCopy, TypeOK
    <2> QED
      BY <1>5, <2>3 DEF RefreshCopy, EnterOne, Enter, Window, TypeOK
  <1>6. CASE LoopPublish(i)
    BY <1>6 DEF LoopPublish, TypeOK, Loops
  <1> QED
    BY <1>1, <1>2, <1>3, <1>4, <1>5, <1>6 DEF LoopStep

LEMMA TypeNext == TypeOK /\ [Next]_vars => TypeOK'
  <1>1. TypeOK /\ UNCHANGED vars => TypeOK'
    BY DEF TypeOK, vars
  <1> QED
    BY <1>1, TypeProcess, TypeClient, TypeCommit, TypeLoop DEF Next

\* Every state the program reaches is well typed: statements, queues, the
\* loop's counter of tries and the copies stay within their sets.
THEOREM TypeCorrect == Spec => []TypeOK
  BY TypeInit, TypeNext, PTL DEF Spec

----------------------------------------------------------------------------
(* No uncommitted object is ever visible *)

\* A step on tx that keeps committed transactions committed.
LEMMA DurableGrows == ASSUME TypeOK, [Next]_vars PROVE Durable \subseteq Durable'
  <1>1. ASSUME NEW i \in Inst, NEW ph, Exited(i, ph) PROVE Durable \subseteq Durable'
    BY <1>1 DEF Exited, Durable, FreshTx, TypeOK, Txs
  <1>2. ASSUME NEW t \in Tx, NEW p, Goto(t, p), tx[t].pc \notin {"apply", "done", "lost"} \/ p \in {"apply", "done", "lost"}
        PROVE Durable \subseteq Durable'
    BY <1>2 DEF Goto, Durable, TypeOK, Txs
  <1>3. ASSUME NEW i \in Inst, ProcessStep(i) PROVE Durable \subseteq Durable'
    BY <1>1, <1>3 DEF ProcessStep, List, Listen, StartFails, Restart, Crash, Durable
  <1>4. ASSUME NEW i \in Inst, LoopStep(i) PROVE Durable \subseteq Durable'
    <2>1. CASE FetchFails(i)
      <3>1. CASE loop[i].tries + 1 < MaxTries
        BY <2>1, <3>1 DEF FetchFails, Durable
      <3>2. CASE ~ (loop[i].tries + 1 < MaxTries)
        BY <1>1, <2>1, <3>2 DEF FetchFails
      <3> QED
        BY <3>1, <3>2
    <2> QED
      BY <1>4, <2>1 DEF LoopStep, NextEvents, DeleteCopy, Fetch, RefreshCopy, LoopPublish, Durable
  <1>5. ASSUME NEW t \in Tx, ClientStep(t) PROVE Durable \subseteq Durable'
    <2>1. CASE Begin(t) \/ Abandon(t) \/ CommitBegin(t)
      BY <1>2, <2>1 DEF Begin, Abandon, CommitBegin
    <2>2. CASE \E u \in Update : Issue(t, u)
      BY <2>2 DEF Issue, Durable, TypeOK, Txs
    <2>3. CASE Execute(t)
      BY <2>3 DEF Execute, Durable, TypeOK, Txs
    <2>4. CASE StatementFails(t)
      <3>1. tx[t].pc = "exec" /\ \A u \in Tx \ {t} : tx'[u] = tx[u]
        BY <2>4 DEF StatementFails, TypeOK
      <3> QED
        BY <3>1 DEF Durable
    <2> QED
      BY <1>5, <2>1, <2>2, <2>3, <2>4, Zenon DEF ClientStep
  <1>6. ASSUME NEW t \in Tx, CommitStep(t) PROVE Durable \subseteq Durable'
    <2>1. CASE Notify(t) \/ NotifyFails(t) \/ Commit(t) \/ CommitFails(t) \/ CommitReturns(t)
      BY <1>2, <2>1 DEF Notify, NotifyFails, Commit, CommitFails, CommitReturns
    <2>2. CASE ApplyCopy(t)
      BY <2>2 DEF ApplyCopy, Durable, TypeOK, Txs
    <2>3. CASE ApplyPublish(t)
      BY <2>3 DEF ApplyPublish, Durable, TypeOK, Txs
    <2> QED
      BY <1>6, <2>1, <2>2, <2>3 DEF CommitStep
  <1>7. CASE UNCHANGED vars
    BY <1>7 DEF vars, Durable
  <1> QED
    BY <1>3, <1>4, <1>5, <1>6, <1>7 DEF Next

LEMMA CommittedInit == Init => CommittedInv
  BY TablesAssumption DEF Init, CommittedInv, CommittedOnly, Clean, EmptyMap, IdleLoop, FreshTx

\* What is committed stays committed, so a step that changes none of the maps
\* keeps the invariant.
LEMMA CommittedFrame ==
  ASSUME TypeOK, CommittedInv, Durable \subseteq Durable',
         UNCHANGED <<db, cache, loop>>,
         \A t \in Tx : tx'[t].snap = tx[t].snap /\ tx'[t].eff = tx[t].eff
  PROVE  CommittedInv'
  BY DEF CommittedInv, CommittedOnly, Clean

LEMMA GotoFrame ==
  ASSUME TypeOK, NEW t \in Tx, NEW p, Goto(t, p)
  PROVE  \A u \in Tx : tx'[u].snap = tx[u].snap /\ tx'[u].eff = tx[u].eff
  BY DEF Goto, TypeOK, Txs

LEMMA CommittedExited ==
  ASSUME TypeOK, CommittedInv, Durable \subseteq Durable', UNCHANGED db,
         NEW i \in Inst, NEW ph, Exited(i, ph)
  PROVE  CommittedInv'
  <1>1. \A j \in Inst : cache'[j] = cache[j] \/ cache'[j] = EmptyMap
    BY DEF Exited, TypeOK
  <1>2. CommittedOnly' /\ Clean(db)'
    BY <1>1, TablesAssumption DEF CommittedInv, CommittedOnly, Clean, EmptyMap
  <1>3. \A j \in Inst : loop'[j] = loop[j] \/ (loop'[j].got = {} /\ loop'[j].snap = NoSnap)
    BY DEF Exited, TypeOK, IdleLoop
  <1>4. \A t \in Tx : \/ tx'[t] = tx[t]
                      \/ tx'[t].snap = NoSnap /\ tx'[t].eff = [k \in Keys |-> Same]
    BY DEF Exited, FreshTx
  <1>5. \A t \in Tx, k \in Keys : tx'[t].eff[k] \in {t, None, Same}
    BY <1>4 DEF CommittedInv
  <1>6. \A t \in Tx : tx'[t].snap # NoSnap => Clean(tx[t].snap)'
    BY <1>4 DEF CommittedInv, Clean
  <1> QED
    BY <1>2, <1>3, <1>5, <1>6 DEF CommittedInv, Clean

LEMMA CommittedProcess ==
  ASSUME TypeOK, CommittedInv, Durable \subseteq Durable', NEW i \in Inst, ProcessStep(i)
  PROVE  CommittedInv'
  <1>1. CASE List(i)
    BY <1>1 DEF List, CommittedInv, CommittedOnly, Clean, TypeOK
  <1>2. CASE Listen(i) \/ Restart(i)
    BY <1>2, CommittedFrame DEF Listen, Restart
  <1>3. CASE StartFails(i) \/ Crash(i)
    BY <1>3, CommittedExited DEF StartFails, Crash
  <1> QED
    BY <1>1, <1>2, <1>3 DEF ProcessStep

LEMMA CommittedLoop ==
  ASSUME TypeOK, CommittedInv, Durable \subseteq Durable', NEW i \in Inst, LoopStep(i)
  PROVE  CommittedInv'
  <1>1. CASE NextEvents(i)
    <2>1. \A j \in Inst : loop'[j].got = loop[j].got /\ loop'[j].snap = loop[j].snap
      BY <1>1 DEF NextEvents, TypeOK, Loops
    <2> QED
      BY <1>1, <2>1 DEF NextEvents, CommittedInv, CommittedOnly, Clean
  <1>2. ASSUME NEW k \in Keys, DeleteCopy(i, k) PROVE CommittedInv'
    <2>1. Clean(CopyWith(i, k, None))
      BY TablesAssumption DEF CopyWith, CommittedInv, CommittedOnly, Clean, TypeOK, Table
    <2>2. \A j \in Inst : /\ loop'[j].got = loop[j].got
                          /\ loop'[j].snap = loop[j].snap \/ loop'[j].snap = CopyWith(i, k, None)
      BY <1>2 DEF DeleteCopy, TypeOK, Loops
    <2>3. \A j \in Inst : loop'[j].snap # NoSnap => Clean(loop[j].snap)'
      BY <2>1, <2>2 DEF CommittedInv, Clean
    <2> QED
      BY <1>2, <2>2, <2>3 DEF DeleteCopy, CommittedInv, CommittedOnly, Clean
  <1>3. CASE Fetch(i)
    <2>1. \A j \in Inst : /\ loop'[j].snap = loop[j].snap
                          /\ \/ loop'[j].got = loop[j].got
                             \/ loop'[j].got = {<<k, db[k]>> : k \in loop[i].refresh}
      BY <1>3 DEF Fetch, TypeOK, Loops
    <2>2. \A o \in {<<k, db[k]>> : k \in loop[i].refresh} : o[2] \in Tx => o[2] \in Durable
      BY DEF CommittedInv, Clean, TypeOK, Loops
    <2>3. \A j \in Inst : \A o \in loop'[j].got : o[2] \in Tx => o[2] \in Durable'
      BY <2>1, <2>2 DEF CommittedInv
    <2> QED
      BY <1>3, <2>1, <2>3 DEF Fetch, CommittedInv, CommittedOnly, Clean
  <1>4. CASE FetchFails(i)
    <2>1. CASE loop[i].tries + 1 < MaxTries
      <3>1. \A j \in Inst : loop'[j].got = loop[j].got /\ loop'[j].snap = loop[j].snap
        <4>1. loop' = [loop EXCEPT ![i].tries = @ + 1]
          BY <1>4, <2>1 DEF FetchFails
        <4> QED
          BY <4>1 DEF TypeOK, Loops
      <3> QED
        BY <1>4, <2>1, <3>1 DEF FetchFails, CommittedInv, CommittedOnly, Clean
    <2>2. CASE ~ (loop[i].tries + 1 < MaxTries)
      BY <1>4, <2>2, CommittedExited DEF FetchFails
    <2> QED
      BY <2>1, <2>2
  <1>5. ASSUME NEW o \in loop[i].got, RefreshCopy(i, o) PROVE CommittedInv'
    <2>1. o[1] \in Keys /\ (o[2] \in Tx => o[2] \in Durable)
      BY DEF CommittedInv, TypeOK, Loops, Object
    <2>2. Clean(CopyWith(i, o[1], o[2]))
      BY <2>1 DEF CopyWith, CommittedInv, CommittedOnly, Clean, TypeOK, Table
    <2>3. \A j \in Inst : /\ loop'[j].got \subseteq loop[j].got
                          /\ loop'[j].snap = loop[j].snap \/ loop'[j].snap = CopyWith(i, o[1], o[2])
      BY <1>5 DEF RefreshCopy, TypeOK, Loops
    <2>4. \A j \in Inst : loop'[j].snap # NoSnap => Clean(loop[j].snap)'
      BY <2>2, <2>3 DEF CommittedInv, Clean
    <2> QED
      BY <1>5, <2>3, <2>4 DEF RefreshCopy, CommittedInv, CommittedOnly, Clean
  <1>6. CASE LoopPublish(i)
    <2>1. \A j \in Inst : cache'[j] = cache[j] \/ (loop[j].snap # NoSnap /\ cache'[j] = loop[j].snap)
      BY <1>6 DEF LoopPublish, TypeOK
    <2>2. \A j \in Inst : /\ loop'[j].got = loop[j].got
                          /\ loop'[j].snap = loop[j].snap \/ loop'[j].snap = NoSnap
      BY <1>6 DEF LoopPublish, TypeOK, Loops
    <2> QED
      BY <1>6, <2>1, <2>2 DEF LoopPublish, CommittedInv, CommittedOnly, Clean
  <1> QED
    BY <1>1, <1>2, <1>3, <1>4, <1>5, <1>6 DEF LoopStep

LEMMA CommittedClient ==
  ASSUME TypeOK, CommittedInv, Durable \subseteq Durable', NEW t \in Tx, ClientStep(t)
  PROVE  CommittedInv'
  <1>1. CASE Begin(t) \/ Abandon(t) \/ CommitBegin(t)
    BY <1>1, GotoFrame, CommittedFrame DEF Begin, Abandon, CommitBegin
  <1>2. CASE \E u \in Update : Issue(t, u)
    <2>1. \A u \in Tx : tx'[u].snap = tx[u].snap /\ tx'[u].eff = tx[u].eff
      BY <1>2 DEF Issue, TypeOK, Txs
    <2> QED
      BY <1>2, <2>1, CommittedFrame DEF Issue
  <1>4. CASE StatementFails(t)
    <2>1. tx' = [tx EXCEPT ![t].pc = "aborted", ![t].want = {}]
      BY <1>4 DEF StatementFails
    <2>2. \A u \in Tx : tx'[u].snap = tx[u].snap /\ tx'[u].eff = tx[u].eff
      BY <2>1 DEF TypeOK, Txs
    <2> QED
      BY <1>4, <2>2, CommittedFrame DEF StatementFails
  <1>3. CASE Execute(t)
    <2>1. PICK u \in tx[t].want :
            tx' = [tx EXCEPT ![t].pc = "open", ![t].want = {},
                             ![t].ups = Append(tx[t].ups, u),
                             ![t].eff[u.key] = Effect(t, u)]
      BY <1>3 DEF Execute
    <2>2. u \in Update
      BY <2>1 DEF TypeOK, Txs
    <2>3. Effect(t, u) \in {t, None, Same}
      BY <2>2 DEF Effect, CommittedInv, Update
    <2>4. \A v \in Tx : tx'[v].snap = tx[v].snap
      BY <2>1 DEF TypeOK, Txs
    <2>5. \A v \in Tx, k \in Keys : tx'[v].eff[k] \in {v, None, Same}
      BY <2>1, <2>2, <2>3 DEF TypeOK, Txs, CommittedInv, Update
    <2> QED
      BY <1>3, <2>4, <2>5 DEF Execute, CommittedInv, CommittedOnly, Clean
  <1> QED
    BY <1>1, <1>2, <1>3, <1>4, Zenon DEF ClientStep

LEMMA CommittedCommit ==
  ASSUME TypeOK, CommittedInv, Durable \subseteq Durable', NEW t \in Tx, CommitStep(t)
  PROVE  CommittedInv'
  <1>1. CASE Notify(t) \/ NotifyFails(t) \/ CommitReturns(t)
    BY <1>1, GotoFrame, CommittedFrame DEF Notify, NotifyFails, CommitReturns
  <1>2. CASE Commit(t) \/ CommitFails(t)
    <2>1. UNCHANGED <<cache, loop>> /\ \A u \in Tx : tx'[u].snap = tx[u].snap /\ tx'[u].eff = tx[u].eff
      BY <1>2, GotoFrame DEF Commit, CommitFails
    <2>2. \A k \in Keys : db'[k] = db[k] \/ db'[k] = tx[t].eff[k]
      BY <1>2 DEF Commit, CommitFails, Committed, Visible
    <2>3. CASE db' = db
      BY <2>1, <2>3, CommittedFrame
    <2>4. CASE db' # db
      <3>1. t \in Durable'
        BY <1>2, <2>4 DEF Commit, CommitFails, Goto, Durable, TypeOK, Txs
      <3>2. Clean(db)'
        BY <2>2, <3>1, TablesAssumption DEF CommittedInv, Clean
      <3> QED
        BY <2>1, <3>2 DEF CommittedInv, CommittedOnly, Clean
    <2> QED
      BY <2>3, <2>4
  <1>3. CASE ApplyCopy(t)
    <2> DEFINE u == Head(tx[t].ups)
               v == IF u.type = "store" THEN t ELSE None
               m == CopyWith(Home[t], u.key, v)
    <2>1. u \in Update /\ t \in Durable
      BY <1>3 DEF ApplyCopy, TypeOK, Txs, Durable
    <2>2. Clean(m)
      BY <2>1, TablesAssumption DEF CopyWith, CommittedInv, CommittedOnly, Clean, TypeOK, Table, Update
    <2>3. \A x \in Tx : /\ tx'[x].snap = tx[x].snap \/ tx'[x].snap = m
                        /\ tx'[x].eff = tx[x].eff
      BY <1>3 DEF ApplyCopy, TypeOK, Txs
    <2> HIDE DEF m
    <2>4. \A x \in Tx : tx'[x].snap # NoSnap => Clean(tx[x].snap)'
      BY <2>2, <2>3 DEF CommittedInv, Clean
    <2> QED
      BY <1>3, <2>3, <2>4 DEF ApplyCopy, CommittedInv, CommittedOnly, Clean
  <1>4. CASE ApplyPublish(t)
    <2>1. \A j \in Inst : cache'[j] = cache[j] \/ (tx[t].snap # NoSnap /\ cache'[j] = tx[t].snap)
      BY <1>4 DEF ApplyPublish, TypeOK
    <2>2. \A x \in Tx : /\ tx'[x].snap = tx[x].snap \/ tx'[x].snap = NoSnap
                        /\ tx'[x].eff = tx[x].eff
      BY <1>4 DEF ApplyPublish, TypeOK, Txs
    <2> QED
      BY <1>4, <2>1, <2>2 DEF ApplyPublish, CommittedInv, CommittedOnly, Clean
  <1> QED
    BY <1>1, <1>2, <1>3, <1>4 DEF CommitStep

LEMMA CommittedNext == TypeOK /\ CommittedInv /\ [Next]_vars => CommittedInv'
  <1> SUFFICES ASSUME TypeOK, CommittedInv, [Next]_vars PROVE CommittedInv'
    OBVIOUS
  <1>1. Durable \subseteq Durable'
    BY DurableGrows
  <1>2. CASE UNCHANGED vars
    BY <1>1, <1>2, CommittedFrame DEF vars
  <1>3. CASE Next
    BY <1>1, <1>3, CommittedProcess, CommittedLoop, CommittedClient, CommittedCommit DEF Next
  <1> QED
    BY <1>2, <1>3

\* Readers of Table.Get, List, From and Between never see an object that was
\* not committed, for any number of processes, clients, failures and crashes.
THEOREM OnlyCommittedIsVisible == Spec => []CommittedOnly
  <1>1. CommittedInv => CommittedOnly
    BY DEF CommittedInv
  <1> QED
    BY <1>1, TypeInit, TypeNext, CommittedInit, CommittedNext, PTL DEF Spec

----------------------------------------------------------------------------
(* Lists of updates *)

LEMMA LastAppend ==
  ASSUME NEW ups \in Seq(Update), NEW u \in Update, NEW k \in Keys
  PROVE  /\ u.key = k => LastOf(Append(ups, u), k) = {Len(ups) + 1}
         /\ u.key # k => LastOf(Append(ups, u), k) = LastOf(ups, k)
  <1> DEFINE ext == Append(ups, u)
  <1>1. /\ DOMAIN ext = 1..(Len(ups) + 1) /\ DOMAIN ups = 1..Len(ups) /\ Len(ups) \in Nat
        /\ ext[Len(ups) + 1] = u /\ \A n \in 1..Len(ups) : ext[n] = ups[n]
    OBVIOUS
  <1> HIDE DEF ext
  <1>2. ASSUME u.key = k PROVE LastOf(ext, k) = {Len(ups) + 1}
    <2>1. Len(ups) + 1 \in LastOf(ext, k)
      BY <1>1, <1>2 DEF LastOf
    <2>2. ASSUME NEW n \in LastOf(ext, k) PROVE n = Len(ups) + 1
      BY <1>1, <1>2 DEF LastOf
    <2> QED
      BY <2>1, <2>2
  <1>3. ASSUME u.key # k PROVE LastOf(ext, k) = LastOf(ups, k)
    <2>1. ASSUME NEW n \in LastOf(ext, k) PROVE n \in LastOf(ups, k)
      BY <1>1, <1>3 DEF LastOf
    <2>2. ASSUME NEW n \in LastOf(ups, k) PROVE n \in LastOf(ext, k)
      BY <1>1, <1>3 DEF LastOf
    <2> QED
      BY <2>1, <2>2
  <1> QED
    BY <1>2, <1>3 DEF ext

LEMMA LastTail ==
  ASSUME NEW ups \in Seq(Update), ups # <<>>, NEW k \in Keys, NEW n \in LastOf(Tail(ups), k)
  PROVE  n + 1 \in LastOf(ups, k) /\ Tail(ups)[n] = ups[n + 1]
  <1> DEFINE rest == Tail(ups)
  <1>1. /\ DOMAIN rest = 1..(Len(ups) - 1) /\ DOMAIN ups = 1..Len(ups) /\ Len(ups) \in Nat \ {0}
        /\ \A m \in 1..(Len(ups) - 1) : rest[m] = ups[m + 1]
    OBVIOUS
  <1>2. n \in LastOf(rest, k)
    OBVIOUS
  <1> HIDE DEF rest
  <1>3. n \in 1..(Len(ups) - 1) /\ rest[n].key = k
    BY <1>1, <1>2 DEF LastOf
  <1>4. ASSUME NEW m \in 1..Len(ups), ups[m].key = k PROVE m <= n + 1
    <2>1. CASE m = 1
      BY <1>3, <2>1
    <2>2. CASE m # 1
      <3>1. m - 1 \in DOMAIN rest /\ rest[m - 1] = ups[m]
        BY <1>1, <2>2
      <3>2. m - 1 <= n
        BY <1>2, <1>4, <3>1 DEF LastOf
      <3> QED
        BY <1>3, <3>2
    <2> QED
      BY <2>1, <2>2
  <1>5. n + 1 \in DOMAIN ups /\ rest[n] = ups[n + 1]
    BY <1>1, <1>3
  <1> QED
    BY <1>1, <1>3, <1>4, <1>5 DEF LastOf, rest

LEMMA TailIndex ==
  ASSUME NEW ups \in Seq(Update), ups # <<>>, NEW n \in DOMAIN ups, n # 1
  PROVE  n - 1 \in DOMAIN Tail(ups) /\ Tail(ups)[n - 1] = ups[n]
  <1>1. n \in 2..Len(ups) /\ Len(ups) \in Nat
    OBVIOUS
  <1>2. DOMAIN Tail(ups) = 1..(Len(ups) - 1) /\ \A j \in 1..(Len(ups) - 1) : Tail(ups)[j] = ups[j + 1]
    OBVIOUS
  <1>3. n - 1 \in 1..(Len(ups) - 1) /\ (n - 1) + 1 = n
    BY <1>1
  <1> QED
    BY <1>2, <1>3

LEMMA KeyMapLast ==
  ASSUME NEW ups \in Seq(Update), NEW k \in Keys, NEW n \in LastOf(ups, k)
  PROVE  KeyMap(ups)[k] = ups[n].type
  <1>1. \A m \in LastOf(ups, k) : m = n
    BY DEF LastOf
  <1>2. (CHOOSE m \in LastOf(ups, k) : TRUE) = n
    BY <1>1
  <1> QED
    BY <1>2 DEF KeyMap

----------------------------------------------------------------------------
(* Copies agree with the table unless a race window was entered *)

LEMMA AgreeInit == Init => AgreeInv
  <1> SUFFICES ASSUME Init PROVE AgreeInv
    OBVIOUS
  <1>1. Orderly
    BY DEF Init, Orderly, QuietUnlessRunning, CopiesCommitted, RowsExclusive, Live, UpdatesTell,
           LastOf, FreshTx
  <1>2. Current
    BY DEF Init, Current, HeardOf, Announced, FreshTx
  <1> QED
    BY <1>1, <1>2 DEF AgreeInv

LEMMA TellFrame ==
  ASSUME NEW t \in Tx, UpdatesTell(t), tx'[t].ups = tx[t].ups /\ tx'[t].eff = tx[t].eff,
         tx[t].pc \in {"apply", "done"} => tx'[t].pc \in {"apply", "done"},
         tx'[t].pc = "idle" => tx[t].pc = "idle"
  PROVE  UpdatesTell(t)'
  <1> DEFINE tell(x) ==
        /\ \A k \in Keys : \A n \in LastOf(x.ups, k) :
             x.eff[k] \in (IF x.ups[n].type = "store" THEN {t} ELSE {None, Same})
        /\ x.pc \notin {"apply", "done"} => \A k \in Keys : x.eff[k] # Same => LastOf(x.ups, k) # {}
        /\ x.pc = "idle" => x.ups = <<>>
  <1>1. tell(tx[t]) /\ (UpdatesTell(t)' <=> tell(tx'[t]))
    BY DEF UpdatesTell
  <1>2. tell(tx'[t])
    BY <1>1
  <1> QED
    BY <1>1, <1>2

\* A step of transaction t, which is in a running process, disturbs nobody else's
\* part of the invariant.
LEMMA OrderlyTx ==
  ASSUME TypeOK, Orderly, NEW t \in Tx, Running(t), UNCHANGED <<phase, loop>>,
         \A j \in Inst : phase[j] # "running" => queue'[j] = queue[j],
         \A u \in Tx \ {t} : tx'[u] = tx[u],
         tx'[t].snap # NoSnap => tx'[t].pc = "apply",
         \A u \in Tx \ {t}, k \in Keys : Live(t)' /\ Live(u) => tx'[t].eff[k] = Same \/ tx[u].eff[k] = Same,
         UpdatesTell(t)'
  PROVE  Orderly'
  <1>1. QuietUnlessRunning'
    BY DEF Orderly, QuietUnlessRunning, Running
  <1>2. CopiesCommitted'
    BY DEF Orderly, CopiesCommitted
  <1>3. \A u \in Tx \ {t} : Live(u)' = Live(u)
    BY DEF Live
  <1>4. RowsExclusive'
    <2> SUFFICES ASSUME NEW a \in Tx, NEW b \in Tx, NEW k \in Keys, a # b, Live(a)', Live(b)'
                 PROVE  tx'[a].eff[k] = Same \/ tx'[b].eff[k] = Same
      BY DEF RowsExclusive
    <2>1. CASE a = t
      BY <1>3, <2>1
    <2>2. CASE b = t
      BY <1>3, <2>2
    <2>3. CASE a # t /\ b # t
      BY <1>3, <2>3 DEF Orderly, RowsExclusive
    <2> QED
      BY <2>1, <2>2, <2>3
  <1>5. ASSUME NEW u \in Tx PROVE UpdatesTell(u)'
    <2>1. CASE u = t
      BY <2>1
    <2>2. CASE u # t
      BY <2>2, TellFrame DEF Orderly
    <2> QED
      BY <2>1, <2>2
  <1> QED
    BY <1>1, <1>2, <1>4, <1>5 DEF Orderly

\* A transaction that is under way belongs to a running process.
LEMMA BusyRuns ==
  ASSUME Orderly, NEW t \in Tx, tx[t].pc \notin {"idle", "done", "lost", "failed"}
  PROVE  Running(t)
  BY TablesAssumption DEF Orderly, QuietUnlessRunning, Running

\* So does a loop that takes a step.
LEMMA LoopRuns ==
  ASSUME Orderly, NEW i \in Inst, LoopStep(i)
  PROVE  phase[i] = "running"
  <1>1. CASE loop[i] # IdleLoop
    BY <1>1 DEF Orderly, QuietUnlessRunning
  <1>2. CASE loop[i] = IdleLoop
    <2>1. loop[i].dels = {} /\ loop[i].refresh = {} /\ loop[i].got = {} /\ loop[i].snap = NoSnap
      BY <1>2 DEF IdleLoop
    <2>2. NextEvents(i)
      BY <2>1 DEF LoopStep, DeleteCopy, Fetch, FetchFails, LoopPublish
    <2> QED
      BY <2>2 DEF NextEvents
  <1> QED
    BY <1>1, <1>2

\* A step of t that leaves its updates and their effects alone.
LEMMA OrderlyMoves ==
  ASSUME TypeOK, Orderly, NEW t \in Tx, Running(t), UNCHANGED <<phase, loop>>,
         \A j \in Inst : phase[j] # "running" => queue'[j] = queue[j],
         \A u \in Tx \ {t} : tx'[u] = tx[u],
         tx'[t].ups = tx[t].ups /\ tx'[t].eff = tx[t].eff,
         tx'[t].snap # NoSnap => tx'[t].pc = "apply",
         tx[t].pc \in {"apply", "done"} => tx'[t].pc \in {"apply", "done"},
         Live(t)' => Live(t) \/ tx[t].pc = "idle",
         tx'[t].pc # "idle"
  PROVE  Orderly'
  <1>1. UpdatesTell(t)'
    BY TellFrame DEF Orderly
  <1>2. \A u \in Tx \ {t}, k \in Keys : Live(t)' /\ Live(u) => tx'[t].eff[k] = Same \/ tx[u].eff[k] = Same
    <2> SUFFICES ASSUME NEW u \in Tx \ {t}, NEW k \in Keys, Live(t)', Live(u)
                 PROVE  tx[t].eff[k] = Same \/ tx[u].eff[k] = Same
      OBVIOUS
    <2>1. CASE Live(t)
      BY <2>1 DEF Orderly, RowsExclusive
    <2>2. CASE tx[t].pc = "idle"
      <3>1. tx[t].ups = <<>> /\ UpdatesTell(t)
        BY <2>2 DEF Orderly, UpdatesTell
      <3>2. LastOf(<<>>, k) = {}
        BY DEF LastOf
      <3> QED
        BY <2>2, <3>1, <3>2 DEF UpdatesTell
    <2> QED
      BY <2>1, <2>2
  <1> QED
    BY <1>1, <1>2, OrderlyTx

LEMMA OrderlyGoto ==
  ASSUME TypeOK, Orderly, NEW t \in Tx, NEW p, Goto(t, p), Running(t), UNCHANGED <<phase, loop>>,
         \A j \in Inst : phase[j] # "running" => queue'[j] = queue[j],
         tx[t].snap = NoSnap \/ p = "apply",
         tx[t].pc \in {"apply", "done"} => p \in {"apply", "done"},
         p \in {"open", "exec", "notify", "sent", "stuck"} => Live(t) \/ tx[t].pc = "idle",
         p # "idle"
  PROVE  Orderly'
  <1>1. /\ \A u \in Tx \ {t} : tx'[u] = tx[u]
        /\ tx'[t].pc = p /\ tx'[t].snap = tx[t].snap /\ tx'[t].eff = tx[t].eff /\ tx'[t].ups = tx[t].ups
    BY DEF Goto, TypeOK, Txs
  <1>2. Live(t)' => Live(t) \/ tx[t].pc = "idle"
    BY <1>1 DEF Live
  <1> QED
    BY <1>1, <1>2, OrderlyMoves

LEMMA OrderlyExited ==
  ASSUME TypeOK, Orderly, NEW i \in Inst, Exited(i, "dead")
  PROVE  Orderly'
  <1>1. \A t \in Tx : \/ tx'[t] = tx[t]
                      \/ tx'[t] = [FreshTx EXCEPT !.pc = "done"]
                      \/ tx'[t] = [FreshTx EXCEPT !.pc = "failed"]
    BY DEF Exited
  <1>2. \A t \in Tx : tx'[t] = tx[t] \/ (/\ tx'[t].pc \in {"done", "failed"} /\ tx'[t].ups = <<>>
                                         /\ tx'[t].eff = [k \in Keys |-> Same] /\ tx'[t].snap = NoSnap)
    BY <1>1 DEF FreshTx
  <1>3. QuietUnlessRunning'
    <2>1. phase'[i] = "dead" /\ loop'[i] = IdleLoop /\ queue'[i] = <<>>
      BY DEF Exited, TypeOK
    <2>2. \A j \in Inst \ {i} : phase'[j] = phase[j] /\ loop'[j] = loop[j] /\ queue'[j] = queue[j]
      BY DEF Exited, TypeOK
    <2>3. \A t \in Tx : Home[t] # i => tx'[t] = tx[t]
      BY DEF Exited
    <2>4. \A t \in Tx : Home[t] = i => tx'[t].pc \in {"idle", "done", "lost", "failed"}
      BY DEF Exited, FreshTx
    <2> QED
      BY <2>1, <2>2, <2>3, <2>4 DEF Orderly, QuietUnlessRunning
  <1>4. CopiesCommitted'
    BY <1>2 DEF Orderly, CopiesCommitted
  <1>5. RowsExclusive'
    BY <1>2 DEF Orderly, RowsExclusive, Live
  <1>6. ASSUME NEW t \in Tx PROVE UpdatesTell(t)'
    <2>1. CASE tx'[t] = tx[t]
      BY <2>1, TellFrame DEF Orderly
    <2>2. CASE tx'[t] # tx[t]
      <3>1. \A k \in Keys : LastOf(<<>>, k) = {}
        BY DEF LastOf
      <3> QED
        BY <1>2, <2>2, <3>1 DEF UpdatesTell
    <2> QED
      BY <2>1, <2>2
  <1> QED
    BY <1>3, <1>4, <1>5, <1>6 DEF Orderly

\* A step that leaves the transactions alone, and the loops and queues of
\* processes that do not run.
LEMMA OrderlyFrame ==
  ASSUME Orderly, UNCHANGED tx,
         \A j \in Inst : phase'[j] # "running" =>
             phase[j] # "running" /\ loop'[j] = loop[j] /\ queue'[j] = queue[j]
  PROVE  Orderly'
  <1>1. \A t \in Tx : UpdatesTell(t)'
    BY TellFrame DEF Orderly
  <1> QED
    BY <1>1 DEF Orderly, QuietUnlessRunning, CopiesCommitted, RowsExclusive, Live

LEMMA OrderlyProcess == ASSUME TypeOK, Orderly, NEW i \in Inst, ProcessStep(i) PROVE Orderly'
  <1>1. CASE List(i) \/ Listen(i) \/ Restart(i)
    BY <1>1, OrderlyFrame DEF List, Listen, Restart, TypeOK
  <1>2. CASE StartFails(i) \/ Crash(i)
    BY <1>2, OrderlyExited DEF StartFails, Crash
  <1> QED
    BY <1>1, <1>2 DEF ProcessStep

LEMMA OrderlyLoop == ASSUME TypeOK, Orderly, NEW i \in Inst, LoopStep(i) PROVE Orderly'
  <1>1. CASE FetchFails(i) /\ ~ (loop[i].tries + 1 < MaxTries)
    BY <1>1, OrderlyExited DEF FetchFails
  <1>2. CASE ~ (FetchFails(i) /\ ~ (loop[i].tries + 1 < MaxTries))
    <2>1. phase[i] = "running"
      BY LoopRuns
    <2>2. /\ UNCHANGED <<tx, phase>>
          /\ \A j \in Inst \ {i} : loop'[j] = loop[j] /\ queue'[j] = queue[j]
      <3>1. CASE NextEvents(i)
        BY <3>1 DEF NextEvents, TypeOK
      <3>2. CASE FetchFails(i)
        BY <1>2, <3>2 DEF FetchFails, TypeOK
      <3>3. CASE Fetch(i) \/ LoopPublish(i)
        BY <3>3 DEF Fetch, LoopPublish, TypeOK
      <3>4. CASE (\E k \in Keys : DeleteCopy(i, k)) \/ (\E o \in loop[i].got : RefreshCopy(i, o))
        BY <3>4 DEF DeleteCopy, RefreshCopy, TypeOK
      <3> QED
        BY <3>1, <3>2, <3>3, <3>4 DEF LoopStep
    <2> QED
      BY <2>1, <2>2, OrderlyFrame
  <1> QED
    BY <1>1, <1>2

\* What a statement leaves in t's view of the rows.
LEMMA ExecuteUpdate ==
  ASSUME TypeOK, NEW t \in Tx, Execute(t)
  PROVE  \E u \in Update :
           /\ CanRun(t, u)
           /\ tx'[t].pc = "open" /\ tx'[t].snap = tx[t].snap
           /\ tx'[t].ups = Append(tx[t].ups, u)
           /\ tx'[t].eff = [tx[t].eff EXCEPT ![u.key] = Effect(t, u)]
           /\ \A v \in Tx \ {t} : tx'[v] = tx[v]
  <1>1. PICK u \in tx[t].want :
          /\ CanRun(t, u)
          /\ tx' = [tx EXCEPT ![t].pc = "open", ![t].want = {},
                              ![t].ups = Append(tx[t].ups, u),
                              ![t].eff[u.key] = Effect(t, u)]
    BY DEF Execute
  <1>2. u \in Update
    BY DEF TypeOK, Txs
  <1>3. /\ tx'[t].pc = "open" /\ tx'[t].snap = tx[t].snap
        /\ tx'[t].ups = Append(tx[t].ups, u)
        /\ tx'[t].eff = [tx[t].eff EXCEPT ![u.key] = Effect(t, u)]
        /\ \A v \in Tx \ {t} : tx'[v] = tx[v]
    BY <1>1 DEF TypeOK, Txs
  <1> QED
    BY <1>1, <1>2, <1>3

LEMMA OrderlyExecute == ASSUME TypeOK, Orderly, NEW t \in Tx, Execute(t) PROVE Orderly'
  <1>0. tx[t].pc = "exec" /\ UNCHANGED <<phase, loop, queue>> /\ Running(t)
    BY BusyRuns DEF Execute
  <1>1. PICK u \in Update :
          /\ CanRun(t, u)
          /\ tx'[t].pc = "open" /\ tx'[t].snap = tx[t].snap
          /\ tx'[t].ups = Append(tx[t].ups, u)
          /\ tx'[t].eff = [tx[t].eff EXCEPT ![u.key] = Effect(t, u)]
          /\ \A v \in Tx \ {t} : tx'[v] = tx[v]
    BY ExecuteUpdate
  <1>2. /\ u.key \in Keys /\ u.type \in {"store", "delete"}
        /\ tx[t].ups \in Seq(Update) /\ tx[t].eff \in [Keys -> Version \cup {None, Same}]
    BY DEF Update, TypeOK, Txs
  <1>3. tx'[t].eff[u.key] = Effect(t, u) /\ \A k \in Keys \ {u.key} : tx'[t].eff[k] = tx[t].eff[k]
    BY <1>1, <1>2
  <1>4. Effect(t, u) \in (IF u.type = "store" THEN {t} ELSE {None, Same})
    BY <1>2 DEF Effect, Visible
  <1>5. tx'[t].snap = NoSnap
    BY <1>0, <1>1 DEF Orderly, CopiesCommitted
  <1>6. ASSUME NEW v \in Tx \ {t}, NEW k \in Keys, Live(v)
        PROVE  tx'[t].eff[k] = Same \/ tx[v].eff[k] = Same
    <2>1. tx[t].eff[k] = Same \/ tx[v].eff[k] = Same
      BY <1>0, <1>6 DEF Orderly, RowsExclusive, Live
    <2>2. CASE k # u.key
      BY <1>3, <2>1, <2>2
    <2>3. CASE k = u.key /\ ~ Locked(t, k)
      BY <1>6, <2>3 DEF Locked
    <2>4. CASE k = u.key /\ Locked(t, k)
      <3>1. u.type = "delete" /\ db[k] = None
        BY <1>1, <2>4 DEF CanRun
      <3>2. tx[t].eff[k] = Same
        BY <1>0, <2>4 DEF Orderly, RowsExclusive, Live, Locked
      <3>3. Effect(t, u) = Same
        BY <2>4, <3>1, <3>2 DEF Effect, Visible
      <3> QED
        BY <1>3, <2>4, <3>3
    <2> QED
      BY <2>2, <2>3, <2>4
  <1>7. UpdatesTell(t)'
    <2> DEFINE ups == tx[t].ups
               ext == Append(ups, u)
    <2>0. UpdatesTell(t) /\ Len(ups) \in Nat /\ ext[Len(ups) + 1] = u
          /\ \A n \in DOMAIN ups : ext[n] = ups[n]
      BY <1>2 DEF Orderly
    <2>1. LastOf(ext, u.key) = {Len(ups) + 1}
      BY <1>2, LastAppend
    <2>2. \A k \in Keys \ {u.key} : LastOf(ext, k) = LastOf(ups, k)
      BY <1>2, LastAppend
    <2>3. tx'[t].ups = ext
      BY <1>1
    <2> HIDE DEF ext
    <2>4. \A k \in Keys : \A n \in LastOf(ext, k) :
            tx'[t].eff[k] \in (IF ext[n].type = "store" THEN {t} ELSE {None, Same})
      <3> SUFFICES ASSUME NEW k \in Keys, NEW n \in LastOf(ext, k)
                   PROVE  tx'[t].eff[k] \in (IF ext[n].type = "store" THEN {t} ELSE {None, Same})
        OBVIOUS
      <3>1. CASE k = u.key
        BY <1>3, <1>4, <2>0, <2>1, <3>1
      <3>2. CASE k # u.key
        <4>1. n \in LastOf(ups, k) /\ n \in DOMAIN ups
          BY <2>2, <3>2 DEF LastOf
        <4> QED
          BY <1>3, <2>0, <3>2, <4>1 DEF UpdatesTell
      <3> QED
        BY <3>1, <3>2
    <2>5. \A k \in Keys : tx'[t].eff[k] # Same => LastOf(ext, k) # {}
      BY <1>0, <1>3, <2>0, <2>1, <2>2 DEF UpdatesTell
    <2>6. tx'[t].pc # "idle"
      BY <1>1
    <2> QED
      BY <2>3, <2>4, <2>5, <2>6 DEF UpdatesTell
  <1> QED
    BY <1>0, <1>1, <1>5, <1>6, <1>7, OrderlyTx

LEMMA OrderlyClient == ASSUME TypeOK, Orderly, NEW t \in Tx, ClientStep(t) PROVE Orderly'
  <1>0. tx[t].pc \notin {"apply", "done"} => tx[t].snap = NoSnap
    BY DEF Orderly, CopiesCommitted
  <1>1. CASE Begin(t) \/ Abandon(t) \/ CommitBegin(t)
    BY <1>0, <1>1, BusyRuns, OrderlyGoto DEF Begin, Abandon, CommitBegin, Live
  <1>2. CASE (\E u \in Update : Issue(t, u)) \/ StatementFails(t)
    <2>1. /\ tx[t].pc \in {"open", "exec"} /\ tx'[t].pc \in {"exec", "aborted"}
          /\ tx'[t].ups = tx[t].ups /\ tx'[t].eff = tx[t].eff /\ tx'[t].snap = tx[t].snap
          /\ \A v \in Tx \ {t} : tx'[v] = tx[v]
          /\ UNCHANGED <<phase, loop, queue>>
      <3>1. CASE \E u \in Update : Issue(t, u)
        BY <3>1 DEF Issue, TypeOK, Txs
      <3>2. CASE StatementFails(t)
        <4>1. /\ tx' = [tx EXCEPT ![t].pc = "aborted", ![t].want = {}]
              /\ tx[t].pc = "exec" /\ UNCHANGED <<phase, loop, queue>>
          BY <3>2 DEF StatementFails
        <4> QED
          BY <4>1 DEF TypeOK, Txs
      <3> QED
        BY <1>2, <3>1, <3>2
    <2>2. Running(t) /\ Live(t)
      BY <2>1, BusyRuns DEF Live
    <2> QED
      BY <1>0, <2>1, <2>2, OrderlyMoves
  <1>3. CASE Execute(t)
    BY <1>3, OrderlyExecute
  <1> QED
    BY <1>1, <1>2, <1>3, Zenon DEF ClientStep

\* The copy of the next update: what ApplyCopy does to its transaction.
LEMMA ApplyUpdate ==
  ASSUME TypeOK, NEW t \in Tx, ApplyCopy(t)
  PROVE  LET u == Head(tx[t].ups)
         IN  /\ u \in Update /\ tx[t].pc = "apply" /\ tx[t].ups # <<>> /\ tx[t].snap = NoSnap
             /\ tx'[t].pc = "apply" /\ tx'[t].eff = tx[t].eff /\ tx'[t].ups = Tail(tx[t].ups)
             /\ tx'[t].snap = CopyWith(Home[t], u.key, IF u.type = "store" THEN t ELSE None)
             /\ \A v \in Tx \ {t} : tx'[v] = tx[v]
  BY DEF ApplyCopy, TypeOK, Txs

LEMMA OrderlyCommit == ASSUME TypeOK, Orderly, NEW t \in Tx, CommitStep(t) PROVE Orderly'
  <1>0. tx[t].pc # "apply" => tx[t].snap = NoSnap
    BY DEF Orderly, CopiesCommitted
  <1>1. CASE Notify(t) \/ NotifyFails(t) \/ Commit(t) \/ CommitFails(t) \/ CommitReturns(t)
    <2>1. PICK p \in {"sent", "stuck", "apply", "failed", "lost", "done"} :
            /\ Goto(t, p)
            /\ p \in {"sent", "stuck"} => tx[t].pc = "notify"
            /\ tx[t].pc = "apply" => p = "done" /\ tx[t].snap = NoSnap
      BY <1>1 DEF Notify, NotifyFails, Commit, CommitFails, CommitReturns
    <2>2. tx[t].pc \in {"notify", "sent", "apply"} /\ UNCHANGED <<phase, loop>>
      BY <1>1 DEF Notify, NotifyFails, Commit, CommitFails, CommitReturns
    <2>3. Running(t) /\ (tx[t].pc # "apply" => Live(t))
      BY <2>2, BusyRuns DEF Live
    <2>4. \A j \in Inst : phase[j] # "running" => queue'[j] = queue[j]
      BY <1>1 DEF Notify, NotifyFails, Commit, CommitFails, CommitReturns, Broadcast
    <2> QED
      BY <1>0, <2>1, <2>2, <2>3, <2>4, OrderlyGoto
  <1>2. CASE ApplyCopy(t)
    <2>1. /\ tx[t].pc = "apply" /\ tx[t].ups # <<>> /\ tx'[t].pc = "apply"
          /\ tx'[t].eff = tx[t].eff /\ tx'[t].ups = Tail(tx[t].ups)
          /\ \A v \in Tx \ {t} : tx'[v] = tx[v]
          /\ UNCHANGED <<phase, loop, queue>> /\ tx[t].ups \in Seq(Update)
      BY <1>2, ApplyUpdate DEF ApplyCopy, TypeOK, Txs
    <2>2. \A k \in Keys : \A n \in LastOf(Tail(tx[t].ups), k) :
            tx[t].eff[k] \in (IF Tail(tx[t].ups)[n].type = "store" THEN {t} ELSE {None, Same})
      <3> SUFFICES ASSUME NEW k \in Keys, NEW n \in LastOf(Tail(tx[t].ups), k)
                   PROVE  tx[t].eff[k] \in (IF Tail(tx[t].ups)[n].type = "store" THEN {t} ELSE {None, Same})
        OBVIOUS
      <3>1. n + 1 \in LastOf(tx[t].ups, k) /\ Tail(tx[t].ups)[n] = tx[t].ups[n + 1]
        BY <2>1, LastTail
      <3> QED
        BY <3>1 DEF Orderly, UpdatesTell
    <2>3. UpdatesTell(t)'
      BY <2>1, <2>2 DEF UpdatesTell
    <2>4. Running(t) /\ ~ Live(t)'
      BY <2>1, BusyRuns DEF Live
    <2> QED
      BY <2>1, <2>3, <2>4, OrderlyTx
  <1>3. CASE ApplyPublish(t)
    <2>1. /\ tx[t].pc = "apply" /\ UNCHANGED <<phase, loop, queue>>
          /\ tx' = [tx EXCEPT ![t].snap = NoSnap]
      BY <1>3 DEF ApplyPublish
    <2>2. /\ tx'[t].pc = "apply" /\ tx'[t].snap = NoSnap
          /\ tx'[t].eff = tx[t].eff /\ tx'[t].ups = tx[t].ups
          /\ \A v \in Tx \ {t} : tx'[v] = tx[v]
      BY <2>1 DEF TypeOK, Txs
    <2>3. Running(t) /\ ~ Live(t)'
      BY <2>1, <2>2, BusyRuns DEF Live
    <2> QED
      BY <2>1, <2>2, <2>3, OrderlyMoves
  <1> QED
    BY <1>1, <1>2, <1>3 DEF CommitStep

LEMMA OrderlyNext == TypeOK /\ Orderly /\ [Next]_vars => Orderly'
  <1>1. ASSUME Orderly, UNCHANGED vars PROVE Orderly'
    BY <1>1, OrderlyFrame DEF vars
  <1> QED
    BY <1>1, OrderlyProcess, OrderlyLoop, OrderlyClient, OrderlyCommit DEF Next

LEMMA WindowStays == ASSUME TypeOK, [Next]_vars, window' = "none" PROVE window = "none"
  <1>1. ASSUME NEW i \in Inst, ProcessStep(i) PROVE window = "none"
    BY <1>1 DEF ProcessStep, List, Listen, StartFails, Restart, Crash, Enter
  <1>2. ASSUME NEW i \in Inst, LoopStep(i) PROVE window = "none"
    BY <1>2 DEF LoopStep, NextEvents, DeleteCopy, Fetch, FetchFails, RefreshCopy, LoopPublish, EnterOne, Enter
  <1>3. ASSUME NEW t \in Tx, ClientStep(t) PROVE window = "none"
    BY <1>3 DEF ClientStep, Begin, Issue, Execute, StatementFails, Abandon, CommitBegin, Enter
  <1>4. ASSUME NEW t \in Tx, CommitStep(t) PROVE window = "none"
    BY <1>4 DEF CommitStep, Notify, NotifyFails, Commit, CommitFails, ApplyCopy, ApplyPublish, CommitReturns,
                EnterOne, Enter
  <1> QED
    BY <1>1, <1>2, <1>3, <1>4 DEF Next, vars

\* Messages are kept while the queue only grows and the loop does nothing.
LEMMA ToldKept ==
  ASSUME NEW i \in Inst, NEW k \in Keys, NEW type, Told(i, k, type), loop'[i] = loop[i],
         \A n \in DOMAIN queue[i] : n \in DOMAIN queue'[i] /\ queue'[i][n] = queue[i][n]
  PROVE  Told(i, k, type)'
  BY DEF Told

\* So is everything else a process will still write.
LEMMA PendingKept ==
  ASSUME NEW i \in Inst, NEW k \in Keys, Pending(i, k), loop'[i] = loop[i],
         \A n \in DOMAIN queue[i] : n \in DOMAIN queue'[i] /\ queue'[i][n] = queue[i][n],
         \A t \in Tx : Home[t] = i /\ tx[t].pc = "apply" /\ tx[t].ups # <<>> =>
             tx'[t].pc = "apply" /\ tx'[t].ups = tx[t].ups
  PROVE  Pending(i, k)'
  <1>1. CASE Told(i, k, "store") \/ Told(i, k, "delete")
    BY <1>1, ToldKept DEF Pending
  <1>2. CASE \E o \in loop[i].got : o[1] = k
    BY <1>2 DEF Pending
  <1>3. CASE \E t \in Tx : /\ Home[t] = i /\ tx[t].pc = "apply"
                           /\ \E n \in DOMAIN tx[t].ups : tx[t].ups[n].key = k
    <2>1. PICK t \in Tx : /\ Home[t] = i /\ tx[t].pc = "apply"
                          /\ \E n \in DOMAIN tx[t].ups : tx[t].ups[n].key = k
      BY <1>3
    <2>2. tx[t].ups # <<>>
      BY <2>1
    <2> QED
      BY <2>1, <2>2 DEF Pending
  <1> QED
    BY <1>1, <1>2, <1>3 DEF Pending

\* A step that neither starts nor ends a copy, and after which process i will
\* still write what it had to, and what changes in the table.
LEMMA CopyMoves ==
  ASSUME NEW i \in Inst, CopyCurrent(i), cache'[i] = cache[i], loop'[i].snap = loop[i].snap,
         \A t \in Tx : Home[t] = i => tx'[t].snap = tx[t].snap,
         \A k \in Keys : Pending(i, k) => Pending(i, k)',
         \A k \in Keys : db'[k] = db[k] \/ Pending(i, k)'
  PROVE  CopyCurrent(i)'
  <1>1. \A m : UpToDate(i, m) => \A k \in Keys : m[k] = db'[k] \/ Pending(i, k)'
    BY DEF UpToDate
  <1>2. Copying(i)' = Copying(i)
    BY DEF Copying
  <1>3. Copying(i)' \/ UpToDate(i, cache[i])'
    BY <1>1, <1>2 DEF CopyCurrent, UpToDate
  <1>4. loop'[i].snap # NoSnap => UpToDate(i, loop[i].snap)'
    BY <1>1 DEF CopyCurrent, UpToDate
  <1>5. \A t \in Tx : Home[t] = i /\ tx'[t].snap # NoSnap => UpToDate(i, tx[t].snap)'
    BY <1>1 DEF CopyCurrent, UpToDate
  <1> QED
    BY <1>3, <1>4, <1>5 DEF CopyCurrent

\* A step in which process i does nothing to its copy.
LEMMA CopyFrame ==
  ASSUME NEW i \in Inst, CopyCurrent(i), OneCopy(i), cache'[i] = cache[i], loop'[i] = loop[i],
         \A n \in DOMAIN queue[i] : n \in DOMAIN queue'[i] /\ queue'[i][n] = queue[i][n],
         \A t \in Tx : Home[t] = i =>
             /\ tx'[t].snap = tx[t].snap
             /\ tx[t].pc = "apply" /\ tx[t].ups # <<>> => tx'[t].pc = "apply" /\ tx'[t].ups = tx[t].ups,
         \A k \in Keys : db'[k] = db[k] \/ Pending(i, k)'
  PROVE  CopyCurrent(i)' /\ OneCopy(i)'
  <1>1. \A k \in Keys : Pending(i, k) => Pending(i, k)'
    BY PendingKept
  <1>2. OneCopy(i)'
    BY DEF OneCopy
  <1> QED
    BY <1>1, <1>2, CopyMoves

\* A step that loses none of the messages about what t will change.
LEMMA HeardFrame ==
  ASSUME NEW t \in Tx, HeardOf(t), Announced(t)' => Announced(t) /\ tx'[t].eff = tx[t].eff,
         \A k \in Keys : Announced(t) /\ tx[t].eff[k] # Same => db'[k] = db[k],
         \A i \in Inst \ {Home[t]}, k \in Keys, type \in {"store", "delete"} :
             /\ Announced(t) /\ phase'[i] = "running" /\ tx[t].eff[k] \notin {Same, db[k]}
             /\ type = IF tx[t].eff[k] = None THEN "delete" ELSE "store"
             => phase[i] = "running" /\ (Told(i, k, type) => Told(i, k, type)')
  PROVE  HeardOf(t)'
  <1> SUFFICES ASSUME Announced(t)', NEW i \in Inst \ {Home[t]}, NEW k \in Keys, phase'[i] = "running",
                      tx'[t].eff[k] \notin {Same, db'[k]}
               PROVE  Told(i, k, IF tx[t].eff[k] = None THEN "delete" ELSE "store")'
    BY DEF HeardOf
  <1> DEFINE type == IF tx[t].eff[k] = None THEN "delete" ELSE "store"
  <1>1. Announced(t) /\ tx'[t].eff = tx[t].eff /\ tx[t].eff[k] \notin {Same, db[k]} /\ type \in {"store", "delete"}
    OBVIOUS
  <1>2. phase[i] = "running" /\ (Told(i, k, type) => Told(i, k, type)')
    BY <1>1
  <1>3. Told(i, k, type)
    BY <1>1, <1>2 DEF HeardOf
  <1>4. (IF tx[t].eff[k] = None THEN "delete" ELSE "store")' = type
    BY <1>1
  <1> QED
    BY <1>2, <1>3, <1>4 DEF Told

\* A process exits that has announced nothing it did not commit.
LEMMA CurrentExited ==
  ASSUME TypeOK, Current, NEW i \in Inst, Exited(i, "dead"), UNCHANGED db,
         \A t \in Tx : Home[t] = i => ~ Announced(t)
  PROVE  Current'
  <1>1. phase'[i] = "dead" /\ \A j \in Inst \ {i} : /\ phase'[j] = phase[j] /\ cache'[j] = cache[j]
                                                   /\ loop'[j] = loop[j] /\ queue'[j] = queue[j]
    BY DEF Exited, TypeOK
  <1>2. \A t \in Tx : Home[t] # i => tx'[t] = tx[t]
    BY DEF Exited
  <1>3. \A t \in Tx : Home[t] = i => tx'[t] = tx[t] \/ tx'[t].pc \in {"done", "failed"}
    BY DEF Exited, FreshTx
  <1>4. \A j \in Inst : phase'[j] = "listed" => cache'[j] = db'
    BY <1>1 DEF Current
  <1>5. \A j \in Inst : phase'[j] = "running" => CopyCurrent(j)' /\ OneCopy(j)'
    BY <1>1, <1>2, CopyFrame DEF Current
  <1>6. ASSUME NEW t \in Tx PROVE HeardOf(t)'
    <2>1. CASE Home[t] = i
      BY <1>3, <2>1 DEF HeardOf, Announced
    <2>2. CASE Home[t] # i
      <3>1. Announced(t)' => Announced(t) /\ tx'[t].eff = tx[t].eff
        BY <1>2, <2>2 DEF Announced
      <3>2. \A j \in Inst : phase'[j] = "running" => 
                /\ phase[j] = "running"
                /\ \A k \in Keys, type \in {"store", "delete"} : Told(j, k, type) => Told(j, k, type)'
        BY <1>1, ToldKept
      <3> QED
        BY <3>1, <3>2, HeardFrame DEF Current
    <2> QED
      BY <2>1, <2>2
  <1> QED
    BY <1>4, <1>5, <1>6 DEF Current

LEMMA CurrentProcess ==
  ASSUME TypeOK, Orderly, Current, NEW i \in Inst, ProcessStep(i), window = "none", window' = "none"
  PROVE  Current'
  <1>1. CASE List(i) \/ Restart(i)
    <2>1. /\ UNCHANGED <<db, queue, loop, tx>>
          /\ phase'[i] \in {"listed", "start"} /\ (phase'[i] = "listed" => cache'[i] = db)
          /\ \A j \in Inst \ {i} : phase'[j] = phase[j] /\ cache'[j] = cache[j]
      BY <1>1 DEF List, Restart, TypeOK
    <2>2. \A j \in Inst : phase'[j] = "running" => CopyCurrent(j)' /\ OneCopy(j)'
      BY <2>1, CopyFrame DEF Current
    <2>3. \A t \in Tx : HeardOf(t)'
      <3>1. \A t \in Tx : Announced(t)' => Announced(t) /\ tx'[t].eff = tx[t].eff
        BY <2>1 DEF Announced
      <3>2. \A j \in Inst : phase'[j] = "running" =>
                /\ phase[j] = "running"
                /\ \A k \in Keys, type \in {"store", "delete"} : Told(j, k, type) => Told(j, k, type)'
        BY <2>1, ToldKept
      <3> QED
        BY <2>1, <3>1, <3>2, HeardFrame DEF Current
    <2> QED
      BY <2>1, <2>2, <2>3 DEF Current
  <1>2. CASE Listen(i)
    <2>1. /\ UNCHANGED <<db, cache, queue, loop, tx>>
          /\ phase[i] = "listed" /\ \A j \in Inst \ {i} : phase'[j] = phase[j]
          /\ phase'[i] = "running"
      BY <1>2 DEF Listen, TypeOK
    <2>2. \A t \in Tx : ~ Announced(t)
      BY <1>2 DEF Listen, Enter
    <2>3. \A t \in Tx : HeardOf(t)'
      BY <2>1, <2>2 DEF HeardOf, Announced
    <2>4. cache'[i] = db' /\ loop'[i] = IdleLoop /\ \A t \in Tx : Home[t] = i => tx'[t].snap = NoSnap
      BY <2>1 DEF Current, Orderly, QuietUnlessRunning, CopiesCommitted
    <2>5. loop'[i].snap = NoSnap /\ loop'[i].got = {}
      BY <2>4 DEF IdleLoop
    <2>6. CopyCurrent(i)'
      BY <2>4, <2>5 DEF CopyCurrent, UpToDate
    <2>7. OneCopy(i)'
      BY <2>4, <2>5 DEF OneCopy
    <2>8. \A j \in Inst \ {i} : phase'[j] = "running" => CopyCurrent(j)' /\ OneCopy(j)'
      BY <2>1, CopyFrame DEF Current
    <2> QED
      BY <2>1, <2>3, <2>6, <2>7, <2>8 DEF Current
  <1>3. CASE StartFails(i)
    <2>1. \A t \in Tx : Home[t] = i => ~ Announced(t)
      BY <1>3 DEF StartFails, Orderly, QuietUnlessRunning, Announced
    <2> QED
      BY <1>3, <2>1, CurrentExited DEF StartFails
  <1>4. CASE Crash(i)
    BY <1>4, CurrentExited DEF Crash, Enter
  <1> QED
    BY <1>1, <1>2, <1>3, <1>4 DEF ProcessStep

\* A step of the loop of process i that brings its copy along and acts on no
\* message about a change that is still to come.
LEMMA CurrentLoopFrame ==
  ASSUME Current, NEW i \in Inst, phase[i] = "running", UNCHANGED <<db, phase, tx>>,
         \A j \in Inst \ {i} : cache'[j] = cache[j] /\ loop'[j] = loop[j] /\ queue'[j] = queue[j],
         CopyCurrent(i)', OneCopy(i)',
         \A t \in Tx, k \in Keys, type \in {"store", "delete"} :
             /\ Announced(t) /\ tx[t].eff[k] \notin {Same, db[k]}
             /\ type = IF tx[t].eff[k] = None THEN "delete" ELSE "store"
             => (Told(i, k, type) => Told(i, k, type)')
  PROVE  Current'
  <1>1. \A j \in Inst \ {i} : phase'[j] = "running" => CopyCurrent(j)' /\ OneCopy(j)'
    BY CopyFrame DEF Current
  <1>2. ASSUME NEW t \in Tx PROVE HeardOf(t)'
    <2>1. Announced(t)' => Announced(t) /\ tx'[t].eff = tx[t].eff
      BY DEF Announced
    <2>2. \A j \in Inst \ {i}, k \in Keys, type \in {"store", "delete"} : Told(j, k, type) => Told(j, k, type)'
      BY ToldKept
    <2> QED
      BY <2>1, <2>2, HeardFrame DEF Current
  <1>3. \A j \in Inst : phase'[j] = "listed" => cache'[j] = db'
    BY DEF Current
  <1> QED
    BY <1>1, <1>2, <1>3 DEF Current

\* Copying the committed row of k into the map, while nobody else copies it.
LEMMA LoopCopies ==
  ASSUME TypeOK, NEW i \in Inst, CopyCurrent(i), OneCopy(i), ~ Copying(i),
         NEW k \in Keys, loop'[i].snap = CopyWith(i, k, db[k]), UNCHANGED <<db, tx>>,
         loop'[i].refresh = {} \/ loop'[i].got = {},
         \A x \in Keys \ {k} : Pending(i, x) => Pending(i, x)'
  PROVE  CopyCurrent(i)' /\ OneCopy(i)'
  <1> DEFINE m == CopyWith(i, k, db[k])
  <1>1. m \in Table /\ m # NoSnap
    BY CopyType, TablesAssumption DEF TypeOK, Table, Row, Version
  <1>2. m[k] = db[k] /\ \A x \in Keys \ {k} : m[x] = cache[i][x]
    BY DEF CopyWith, TypeOK, Table
  <1>3. UpToDate(i, cache[i])
    BY DEF CopyCurrent
  <1> HIDE DEF m
  <1>4. \A x \in Keys : m[x] = db'[x] \/ Pending(i, x)'
    BY <1>2, <1>3 DEF UpToDate
  <1>5. \A t \in Tx : Home[t] = i => tx'[t].snap = NoSnap
    BY DEF Copying
  <1>6. loop'[i].snap = m /\ Copying(i)'
    BY <1>1 DEF Copying, m
  <1>7. UpToDate(i, loop[i].snap)'
    BY <1>4, <1>6 DEF UpToDate
  <1> QED
    BY <1>5, <1>6, <1>7 DEF CopyCurrent, OneCopy

\* Taking a message off the queue turns it into events.
LEMMA NextTold ==
  ASSUME TypeOK, NEW i \in Inst, NextEvents(i), NEW k \in Keys, NEW type \in {"store", "delete"}, Told(i, k, type)
  PROVE  Told(i, k, type)'
  <1> DEFINE q == queue[i]
             msg == Head(q)
  <1>1. /\ q \in Seq(Payload) /\ q # <<>> /\ queue'[i] = Tail(q)
        /\ loop[i].dels = {} /\ loop[i].refresh = {}
    BY DEF NextEvents, TypeOK, Working, IdleLoop
  <1>2. PICK n \in DOMAIN q : q[n].id # i /\ q[n].keymap[k] = type
    BY <1>1 DEF Told
  <1>3. CASE n = 1
    <2>1. msg.id # i /\ msg.keymap[k] = type
      BY <1>1, <1>2, <1>3
    <2>2. loop' = [loop EXCEPT ![i].dels = {x \in Keys : msg.keymap[x] = "delete"},
                               ![i].refresh = {x \in Keys : msg.keymap[x] = "store"}]
      BY <2>1 DEF NextEvents
    <2>3. /\ loop'[i].dels = {x \in Keys : msg.keymap[x] = "delete"}
          /\ loop'[i].refresh = {x \in Keys : msg.keymap[x] = "store"}
      BY <2>2 DEF TypeOK, Loops
    <2> QED
      BY <2>1, <2>3 DEF Told
  <1>4. CASE n # 1
    <2>1. n - 1 \in DOMAIN Tail(q) /\ Tail(q)[n - 1] = q[n]
      BY <1>1, <1>2, <1>4
    <2> QED
      BY <1>1, <1>2, <2>1 DEF Told
  <1> QED
    BY <1>3, <1>4

LEMMA CurrentNextEvents ==
  ASSUME TypeOK, Current, NEW i \in Inst, phase[i] = "running", NextEvents(i)
  PROVE  Current'
  <1>1. \A k \in Keys, type \in {"store", "delete"} : Told(i, k, type) => Told(i, k, type)'
    BY NextTold
  <1>2. /\ UNCHANGED <<db, phase, tx, cache>>
        /\ \A j \in Inst \ {i} : loop'[j] = loop[j] /\ queue'[j] = queue[j]
    BY DEF NextEvents, TypeOK
  <1>3. loop'[i].got = loop[i].got /\ loop'[i].snap = loop[i].snap /\ loop[i].got = {}
    BY DEF NextEvents, TypeOK, Loops, Working, IdleLoop
  <1>4. \A k \in Keys : Pending(i, k) => Pending(i, k)'
    BY <1>1, <1>2, <1>3 DEF Pending
  <1>5. CopyCurrent(i)'
    BY <1>2, <1>3, <1>4, CopyMoves DEF Current
  <1>6. OneCopy(i)'
    BY <1>2, <1>3 DEF Current, OneCopy
  <1> QED
    BY <1>1, <1>2, <1>5, <1>6, CurrentLoopFrame

\* A process that copies has the only copy, and it is of the committed row, when
\* the step enters no race window.
LEMMA NoRace ==
  ASSUME window = "none", window' = "none", NEW i, NEW cond, NEW w \in Window, EnterOne(Copying(i), cond, w)
  PROVE  ~ Copying(i) /\ ~ cond
  BY DEF EnterOne, Enter, Window

LEMMA CurrentDeleteCopy ==
  ASSUME TypeOK, Current, NEW i \in Inst, phase[i] = "running", NEW k \in Keys, DeleteCopy(i, k),
         window = "none", window' = "none"
  PROVE  Current'
  <1>1. ~ Copying(i) /\ db[k] = None
    BY NoRace DEF DeleteCopy, Window
  <1>2. /\ UNCHANGED <<db, phase, tx, cache, queue>>
        /\ \A j \in Inst \ {i} : loop'[j] = loop[j]
        /\ loop'[i].snap = CopyWith(i, k, db[k]) /\ loop'[i].dels = loop[i].dels \ {k}
        /\ loop'[i].got = loop[i].got /\ loop'[i].refresh = loop[i].refresh
    BY <1>1 DEF DeleteCopy, TypeOK, Loops
  <1>3. \A x \in Keys, type \in {"store", "delete"} :
          x # k \/ type = "store" => (Told(i, x, type) => Told(i, x, type)')
    BY <1>2 DEF Told
  <1>4. \A x \in Keys \ {k} : Pending(i, x) => Pending(i, x)'
    BY <1>2, <1>3 DEF Pending
  <1>5. CopyCurrent(i) /\ OneCopy(i)
    BY DEF Current
  <1>6. CopyCurrent(i)' /\ OneCopy(i)'
    BY <1>1, <1>2, <1>4, <1>5, LoopCopies DEF OneCopy
  <1> QED
    BY <1>1, <1>2, <1>3, <1>6, CurrentLoopFrame

LEMMA CurrentRefreshCopy ==
  ASSUME TypeOK, Current, NEW i \in Inst, phase[i] = "running", NEW o \in loop[i].got, RefreshCopy(i, o),
         window = "none", window' = "none"
  PROVE  Current'
  <1>1. ~ Copying(i) /\ db[o[1]] = o[2]
    BY NoRace DEF RefreshCopy, Window
  <1>2. /\ UNCHANGED <<db, phase, tx, cache, queue>>
        /\ \A j \in Inst \ {i} : loop'[j] = loop[j]
        /\ loop'[i].snap = CopyWith(i, o[1], db[o[1]]) /\ loop'[i].dels = loop[i].dels
        /\ loop'[i].got = loop[i].got \ {o} /\ loop'[i].refresh = loop[i].refresh
    BY <1>1 DEF RefreshCopy, TypeOK, Loops
  <1>3. \A x \in Keys, type \in {"store", "delete"} : Told(i, x, type) => Told(i, x, type)'
    BY <1>2 DEF Told
  <1>4. \A x \in Keys \ {o[1]} : Pending(i, x) => Pending(i, x)'
    BY <1>2, <1>3 DEF Pending
  <1>5. CopyCurrent(i) /\ OneCopy(i) /\ o[1] \in Keys
    BY DEF Current, TypeOK, Loops, Object
  <1>6. CopyCurrent(i)' /\ OneCopy(i)'
    BY <1>1, <1>2, <1>4, <1>5, LoopCopies DEF OneCopy
  <1> QED
    BY <1>2, <1>3, <1>6, CurrentLoopFrame

\* The answer of a query that met no open transaction on its keys replaces the
\* keys that were asked for.
LEMMA CurrentFetch ==
  ASSUME TypeOK, Current, NEW i \in Inst, phase[i] = "running", Fetch(i), window = "none", window' = "none"
  PROVE  Current'
  <1> DEFINE ks == loop[i].refresh
  <1>1. /\ UNCHANGED <<db, phase, tx, cache, queue>>
        /\ \A j \in Inst \ {i} : loop'[j] = loop[j]
        /\ loop'[i].snap = loop[i].snap /\ loop'[i].dels = loop[i].dels
        /\ loop'[i].refresh = {} /\ loop'[i].got = {<<k, db[k]>> : k \in ks}
    BY DEF Fetch, TypeOK, Loops
  <1>2. \A t \in Tx, k \in ks : Live(t) => tx[t].eff[k] = Same
    BY DEF Fetch, Enter
  <1>3. loop[i].got = {} /\ CopyCurrent(i) /\ OneCopy(i)
    BY DEF Fetch, Current, OneCopy
  <1>4. \A k \in Keys, type \in {"store", "delete"} :
          k \notin ks => (Told(i, k, type) => Told(i, k, type)')
    BY <1>1 DEF Told
  <1>5. ASSUME NEW k \in Keys, Pending(i, k) PROVE Pending(i, k)'
    <2>1. CASE k \in ks
      <3>1. <<k, db[k]>> \in loop'[i].got /\ <<k, db[k]>>[1] = k
        BY <1>1, <2>1
      <3> QED
        BY <3>1 DEF Pending
    <2>2. CASE k \notin ks
      BY <1>1, <1>3, <1>4, <1>5, <2>2 DEF Pending
    <2> QED
      BY <2>1, <2>2
  <1>6. CopyCurrent(i)'
    BY <1>1, <1>3, <1>5, CopyMoves
  <1>7. OneCopy(i)'
    BY <1>1, <1>3 DEF OneCopy
  <1>8. \A t \in Tx : Announced(t) => Live(t)
    BY DEF Announced, Live
  <1> HIDE DEF ks
  <1> QED
    BY <1>1, <1>2, <1>4, <1>6, <1>7, <1>8, CurrentLoopFrame

LEMMA CurrentFetchFails ==
  ASSUME TypeOK, Current, NEW i \in Inst, phase[i] = "running", FetchFails(i), window = "none", window' = "none"
  PROVE  Current'
  <1>1. CASE loop[i].tries + 1 < MaxTries
    <2>1. UNCHANGED <<db, phase, tx, cache, queue>> /\ loop' = [loop EXCEPT ![i].tries = @ + 1]
      BY <1>1 DEF FetchFails
    <2>2. /\ \A j \in Inst \ {i} : loop'[j] = loop[j]
          /\ loop'[i].snap = loop[i].snap /\ loop'[i].dels = loop[i].dels
          /\ loop'[i].refresh = loop[i].refresh /\ loop'[i].got = loop[i].got
      BY <2>1 DEF TypeOK, Loops
    <2>3. \A k \in Keys, type \in {"store", "delete"} : Told(i, k, type) => Told(i, k, type)'
      BY <2>1, <2>2 DEF Told
    <2>4. \A k \in Keys : Pending(i, k) => Pending(i, k)'
      BY <2>1, <2>2, <2>3 DEF Pending
    <2>5. CopyCurrent(i)'
      BY <2>1, <2>2, <2>4, CopyMoves DEF Current
    <2>6. OneCopy(i)'
      BY <2>1, <2>2 DEF Current, OneCopy
    <2> QED
      BY <2>1, <2>2, <2>3, <2>5, <2>6, CurrentLoopFrame
  <1>2. CASE ~ (loop[i].tries + 1 < MaxTries)
    BY <1>2, CurrentExited DEF FetchFails, Enter
  <1> QED
    BY <1>1, <1>2

LEMMA CurrentLoopPublish ==
  ASSUME TypeOK, Current, NEW i \in Inst, phase[i] = "running", LoopPublish(i)
  PROVE  Current'
  <1>1. /\ UNCHANGED <<db, phase, tx, queue>> /\ loop[i].snap # NoSnap
        /\ \A j \in Inst \ {i} : loop'[j] = loop[j] /\ cache'[j] = cache[j]
        /\ loop'[i].snap = NoSnap /\ loop'[i].dels = loop[i].dels
        /\ loop'[i].refresh = loop[i].refresh /\ loop'[i].got = loop[i].got
        /\ cache'[i] = loop[i].snap
    BY DEF LoopPublish, TypeOK, Loops
  <1>2. CopyCurrent(i) /\ OneCopy(i)
    BY DEF Current
  <1>3. \A k \in Keys, type \in {"store", "delete"} : Told(i, k, type) => Told(i, k, type)'
    BY <1>1 DEF Told
  <1>4. \A k \in Keys : Pending(i, k) => Pending(i, k)'
    BY <1>1, <1>3 DEF Pending
  <1>5. \A t \in Tx : Home[t] = i => tx'[t].snap = NoSnap
    BY <1>1, <1>2 DEF OneCopy
  <1>6. UpToDate(i, cache[i])'
    BY <1>1, <1>2, <1>4 DEF CopyCurrent, UpToDate
  <1>7. CopyCurrent(i)' /\ OneCopy(i)'
    BY <1>1, <1>2, <1>5, <1>6 DEF CopyCurrent, OneCopy
  <1> QED
    BY <1>1, <1>3, <1>7, CurrentLoopFrame

LEMMA CurrentLoop ==
  ASSUME TypeOK, Orderly, Current, NEW i \in Inst, LoopStep(i), window = "none", window' = "none"
  PROVE  Current'
  <1>1. phase[i] = "running"
    BY LoopRuns
  <1> QED
    BY <1>1, CurrentNextEvents, CurrentDeleteCopy, CurrentFetch, CurrentFetchFails, CurrentRefreshCopy,
       CurrentLoopPublish DEF LoopStep

\* A step of t that touches no copy: what it changes in the table is announced.
LEMMA CurrentTx ==
  ASSUME TypeOK, Current, NEW t \in Tx, UNCHANGED <<phase, cache, loop>>,
         \A j \in Inst : \A n \in DOMAIN queue[j] : n \in DOMAIN queue'[j] /\ queue'[j][n] = queue[j][n],
         \A u \in Tx \ {t} : tx'[u] = tx[u],
         tx'[t].snap = tx[t].snap,
         tx[t].pc = "apply" /\ tx[t].ups # <<>> => tx'[t].pc = "apply" /\ tx'[t].ups = tx[t].ups,
         \A j \in Inst, k \in Keys : phase[j] = "running" => db'[k] = db[k] \/ Pending(j, k)',
         db' = db \/ ~ SomeoneListed,
         \A u \in Tx \ {t}, k \in Keys : Announced(u) /\ tx[u].eff[k] # Same => db'[k] = db[k],
         HeardOf(t)'
  PROVE  Current'
  <1>1. \A j \in Inst : phase'[j] = "listed" => cache'[j] = db'
    BY DEF Current, SomeoneListed
  <1>2. \A j \in Inst : phase'[j] = "running" => CopyCurrent(j)' /\ OneCopy(j)'
    <2> SUFFICES ASSUME NEW j \in Inst, phase'[j] = "running" PROVE CopyCurrent(j)' /\ OneCopy(j)'
      OBVIOUS
    <2>1. phase[j] = "running" /\ CopyCurrent(j) /\ OneCopy(j)
      BY DEF Current
    <2>2. \A u \in Tx : /\ tx'[u].snap = tx[u].snap
                        /\ tx[u].pc = "apply" /\ tx[u].ups # <<>> => tx'[u].pc = "apply" /\ tx'[u].ups = tx[u].ups
      OBVIOUS
    <2> QED
      BY <2>1, <2>2, CopyFrame
  <1>3. ASSUME NEW u \in Tx \ {t} PROVE HeardOf(u)'
    <2>1. Announced(u)' => Announced(u) /\ tx'[u].eff = tx[u].eff
      BY DEF Announced
    <2>2. \A j \in Inst, k \in Keys, type \in {"store", "delete"} : Told(j, k, type) => Told(j, k, type)'
      BY ToldKept
    <2> QED
      BY <2>1, <2>2, HeardFrame DEF Current
  <1> QED
    BY <1>1, <1>2, <1>3 DEF Current

LEMMA CurrentClient ==
  ASSUME TypeOK, Orderly, Current, NEW t \in Tx, ClientStep(t)
  PROVE  Current'
  <1>1. /\ UNCHANGED <<db, phase, cache, loop, queue>>
        /\ \A u \in Tx \ {t} : tx'[u] = tx[u]
        /\ tx'[t].snap = tx[t].snap /\ tx[t].pc # "apply" /\ ~ Announced(t)'
    <2>1. CASE Begin(t) \/ Abandon(t) \/ CommitBegin(t)
      BY <2>1 DEF Begin, Abandon, CommitBegin, Goto, Announced, TypeOK, Txs
    <2>2. CASE \E u \in Update : Issue(t, u)
      BY <2>2 DEF Issue, Announced, TypeOK, Txs
    <2>3. CASE StatementFails(t)
      <3>1. /\ tx' = [tx EXCEPT ![t].pc = "aborted", ![t].want = {}]
            /\ tx[t].pc = "exec" /\ UNCHANGED <<db, phase, cache, loop, queue>>
        BY <2>3 DEF StatementFails
      <3> QED
        BY <3>1 DEF Announced, TypeOK, Txs
    <2>4. CASE Execute(t)
      BY <2>4, ExecuteUpdate DEF Execute, Announced
    <2> QED
      BY <2>1, <2>2, <2>3, <2>4, Zenon DEF ClientStep
  <1>2. HeardOf(t)'
    BY <1>1 DEF HeardOf
  <1> QED
    BY <1>1, <1>2, CurrentTx

LEMMA GotoFields ==
  ASSUME TypeOK, NEW t \in Tx, NEW p, Goto(t, p)
  PROVE  /\ tx'[t].pc = p /\ tx'[t].ups = tx[t].ups /\ tx'[t].eff = tx[t].eff /\ tx'[t].snap = tx[t].snap
         /\ \A u \in Tx \ {t} : tx'[u] = tx[u]
  BY DEF Goto, TypeOK, Txs

LEMMA BroadcastKeeps ==
  ASSUME TypeOK, NEW msg \in Payload, Broadcast(msg)
  PROVE  \A j \in Inst :
           /\ \A n \in DOMAIN queue[j] : n \in DOMAIN queue'[j] /\ queue'[j][n] = queue[j][n]
           /\ phase[j] = "running" => \E n \in DOMAIN queue'[j] : queue'[j][n] = msg
  <1> SUFFICES ASSUME NEW j \in Inst
               PROVE  /\ \A n \in DOMAIN queue[j] : n \in DOMAIN queue'[j] /\ queue'[j][n] = queue[j][n]
                      /\ phase[j] = "running" => \E n \in DOMAIN queue'[j] : queue'[j][n] = msg
    OBVIOUS
  <1>1. CASE phase[j] # "running"
    BY <1>1 DEF Broadcast
  <1>2. CASE phase[j] = "running"
    <2>1. queue'[j] = Append(queue[j], msg) /\ queue[j] \in Seq(Payload)
      BY <1>2 DEF Broadcast, TypeOK
    <2>2. /\ Len(queue[j]) + 1 \in DOMAIN queue'[j] /\ queue'[j][Len(queue[j]) + 1] = msg
          /\ \A n \in DOMAIN queue[j] : n \in DOMAIN queue'[j] /\ queue'[j][n] = queue[j][n]
      BY <2>1
    <2> QED
      BY <2>2
  <1> QED
    BY <1>1, <1>2

LEMMA MessageType == ASSUME TypeOK, NEW t \in Tx PROVE [id |-> Home[t], keymap |-> KeyMap(tx[t].ups)] \in Payload
  BY KeyMapType, TablesAssumption DEF Payload, TypeOK, Txs

LEMMA CurrentNotify ==
  ASSUME TypeOK, Orderly, Current, NEW t \in Tx, Notify(t) \/ NotifyFails(t)
  PROVE  Current'
  <1> DEFINE msg == [id |-> Home[t], keymap |-> KeyMap(tx[t].ups)]
  <1>1. UNCHANGED <<db, phase, cache, loop>> /\ tx[t].pc = "notify"
    BY DEF Notify, NotifyFails
  <1>2. PICK p \in {"sent", "stuck"} : Goto(t, p) /\ (p = "sent" => Broadcast(msg))
    BY DEF Notify, NotifyFails
  <1>3. /\ tx'[t].pc = p /\ tx'[t].ups = tx[t].ups /\ tx'[t].eff = tx[t].eff /\ tx'[t].snap = tx[t].snap
        /\ \A u \in Tx \ {t} : tx'[u] = tx[u]
    BY <1>2, GotoFields
  <1>4. UNCHANGED queue \/ Broadcast(msg)
    BY DEF Notify, NotifyFails
  <1>5. msg \in Payload
    BY MessageType
  <1> HIDE DEF msg
  <1>6. \A j \in Inst : \A n \in DOMAIN queue[j] : n \in DOMAIN queue'[j] /\ queue'[j][n] = queue[j][n]
    BY <1>4, <1>5, BroadcastKeeps
  <1>7. HeardOf(t)'
    <2> SUFFICES ASSUME Announced(t)', NEW i \in Inst \ {Home[t]}, NEW k \in Keys, phase'[i] = "running",
                        tx'[t].eff[k] \notin {Same, db'[k]}
                 PROVE  Told(i, k, IF tx[t].eff[k] = None THEN "delete" ELSE "store")'
      BY DEF HeardOf
    <2>1. p = "sent" /\ tx[t].ups \in Seq(Update) /\ tx[t].eff[k] # Same
      BY <1>3 DEF Announced, TypeOK, Txs
    <2>2. PICK n \in LastOf(tx[t].ups, k) : TRUE
      BY <1>1, <2>1 DEF Orderly, UpdatesTell
    <2>3. tx[t].ups[n].type \in {"store", "delete"}
      <3>1. n \in DOMAIN tx[t].ups
        BY <2>2 DEF LastOf
      <3>2. tx[t].ups[n] \in Update
        BY <2>1, <3>1
      <3> QED
        BY <3>2 DEF Update
    <2>4. tx[t].eff[k] \in (IF tx[t].ups[n].type = "store" THEN {t} ELSE {None, Same})
      BY <2>2 DEF Orderly, UpdatesTell
    <2>5. KeyMap(tx[t].ups)[k] = tx[t].ups[n].type
      BY <2>1, <2>2, KeyMapLast
    <2>6. msg.id # i /\ msg.keymap[k] = IF tx[t].eff[k] = None THEN "delete" ELSE "store"
      BY <2>1, <2>3, <2>4, <2>5, TablesAssumption DEF msg
    <2>7. PICK m \in DOMAIN queue'[i] : queue'[i][m] = msg
      BY <1>1, <1>2, <1>5, <2>1, BroadcastKeeps
    <2> QED
      BY <1>3, <2>6, <2>7 DEF Told
  <1> QED
    BY <1>1, <1>3, <1>6, <1>7, CurrentTx

LEMMA CurrentCommit ==
  ASSUME TypeOK, Orderly, Current, NEW t \in Tx, Commit(t) \/ CommitFails(t), window = "none", window' = "none"
  PROVE  Current'
  <1>1. UNCHANGED <<phase, cache, loop, queue>> /\ tx[t].pc = "sent"
    BY DEF Commit, CommitFails
  <1>2. PICK p \in {"apply", "failed", "lost"} : Goto(t, p)
    BY DEF Commit, CommitFails
  <1>3. /\ tx'[t].pc = p /\ tx'[t].ups = tx[t].ups /\ tx'[t].eff = tx[t].eff /\ tx'[t].snap = tx[t].snap
        /\ \A u \in Tx \ {t} : tx'[u] = tx[u]
    BY <1>2, GotoFields
  <1>4. HeardOf(t)'
    BY <1>3 DEF HeardOf, Announced
  <1>5. \A k \in Keys : db'[k] # db[k] => tx[t].eff[k] \notin {Same, db[k]}
    BY DEF Commit, CommitFails, Committed, Visible
  <1>6. \A k \in Keys : tx[t].eff[k] # Same => LastOf(tx[t].ups, k) # {}
    BY <1>1 DEF Orderly, UpdatesTell
  <1>7. \A u \in Tx \ {t}, k \in Keys : Announced(u) /\ tx[u].eff[k] # Same => db'[k] = db[k]
    BY <1>1, <1>5 DEF Orderly, RowsExclusive, Announced, Live
  <1>8. CASE Commit(t)
    <2>1. ~ SomeoneListed
      BY <1>8 DEF Commit, Enter
    <2>2. tx'[t].pc = "apply"
      BY <1>8, GotoFields DEF Commit
    <2>3. ASSUME NEW j \in Inst, NEW k \in Keys, phase[j] = "running", db'[k] # db[k] PROVE Pending(j, k)'
      <3>1. PICK n \in DOMAIN tx[t].ups : tx[t].ups[n].key = k
        BY <1>5, <1>6, <2>3 DEF LastOf
      <3>2. CASE j = Home[t]
        BY <1>3, <2>2, <3>1, <3>2 DEF Pending
      <3>3. CASE j # Home[t]
        <4>1. Announced(t) /\ HeardOf(t)
          BY <1>1, <3>1 DEF Announced, Current
        <4>2. PICK type \in {"store", "delete"} : Told(j, k, type)
          BY <1>5, <2>3, <3>3, <4>1 DEF HeardOf
        <4>3. Told(j, k, type)'
          BY <1>1, <4>2, ToldKept
        <4> QED
          BY <4>3 DEF Pending
      <3> QED
        BY <3>2, <3>3
    <2> QED
      BY <1>1, <1>3, <1>4, <1>7, <2>1, <2>3, CurrentTx
  <1>9. CASE CommitFails(t)
    <2>1. tx[t].ups = <<>>
      BY <1>1, <1>9 DEF CommitFails, Enter, Announced
    <2>2. \A k \in Keys : LastOf(<<>>, k) = {}
      BY DEF LastOf
    <2>3. \A k \in Keys : tx[t].eff[k] = Same
      BY <1>6, <2>1, <2>2
    <2>4. db' = db
      BY <1>9, <2>3 DEF CommitFails, Committed, Visible, TypeOK, Table
    <2> QED
      BY <1>1, <1>3, <1>4, <1>7, <2>4, CurrentTx
  <1> QED
    BY <1>8, <1>9

\* A step of t on the copy of its own process.
LEMMA CurrentOwn ==
  ASSUME Current, NEW t \in Tx, UNCHANGED <<db, phase, loop, queue>>,
         \A j \in Inst \ {Home[t]} : cache'[j] = cache[j],
         \A u \in Tx \ {t} : tx'[u] = tx[u],
         phase[Home[t]] = "running", tx'[t].pc = "apply",
         CopyCurrent(Home[t])' /\ OneCopy(Home[t])'
  PROVE  Current'
  <1>1. \A j \in Inst : phase'[j] = "listed" => cache'[j] = db'
    BY DEF Current
  <1>2. \A j \in Inst \ {Home[t]} : phase'[j] = "running" => CopyCurrent(j)' /\ OneCopy(j)'
    BY CopyFrame DEF Current
  <1>3. HeardOf(t)'
    BY DEF HeardOf, Announced
  <1>4. ASSUME NEW u \in Tx \ {t} PROVE HeardOf(u)'
    <2>1. Announced(u)' => Announced(u) /\ tx'[u].eff = tx[u].eff
      BY DEF Announced
    <2>2. \A j \in Inst, k \in Keys, type \in {"store", "delete"} : Told(j, k, type) => Told(j, k, type)'
      BY ToldKept
    <2> QED
      BY <2>1, <2>2, HeardFrame DEF Current
  <1> QED
    BY <1>1, <1>2, <1>3, <1>4 DEF Current

LEMMA CurrentApplyPublish ==
  ASSUME TypeOK, Orderly, Current, NEW t \in Tx, ApplyPublish(t)
  PROVE  Current'
  <1> DEFINE i == Home[t]
  <1>1. /\ UNCHANGED <<db, phase, loop, queue>> /\ tx[t].pc = "apply" /\ tx[t].snap # NoSnap
        /\ tx' = [tx EXCEPT ![t].snap = NoSnap] /\ cache' = [cache EXCEPT ![i] = tx[t].snap]
    BY DEF ApplyPublish
  <1>2. /\ tx'[t].pc = "apply" /\ tx'[t].ups = tx[t].ups /\ tx'[t].snap = NoSnap
        /\ \A u \in Tx \ {t} : tx'[u] = tx[u]
    BY <1>1 DEF TypeOK, Txs
  <1>3. i \in Inst /\ cache'[i] = tx[t].snap /\ \A j \in Inst \ {i} : cache'[j] = cache[j]
    BY <1>1, TablesAssumption DEF TypeOK
  <1>4. phase[i] = "running"
    BY <1>1, BusyRuns DEF Running
  <1>5. CopyCurrent(i) /\ OneCopy(i)
    BY <1>3, <1>4 DEF Current
  <1>6. \A k \in Keys : Pending(i, k) => Pending(i, k)'
    BY <1>1, <1>2, <1>3, PendingKept
  <1>7. UpToDate(i, cache[i])'
    BY <1>1, <1>3, <1>5, <1>6 DEF CopyCurrent, UpToDate
  <1>8. loop'[i].snap = NoSnap /\ \A u \in Tx : Home[u] = i => tx'[u].snap = NoSnap
    BY <1>1, <1>2, <1>5 DEF OneCopy
  <1>9. CopyCurrent(i)' /\ OneCopy(i)'
    BY <1>1, <1>5, <1>7, <1>8 DEF CopyCurrent, OneCopy
  <1> QED
    BY <1>1, <1>2, <1>3, <1>4, <1>9, CurrentOwn

\* The last update of a key that t applies leaves the committed row in the copy,
\* when nobody has changed it since.
LEMMA CurrentApplyCopy ==
  ASSUME TypeOK, Orderly, Current, NEW t \in Tx, ApplyCopy(t), window = "none", window' = "none"
  PROVE  Current'
  <1> DEFINE i == Home[t]
             ups == tx[t].ups
  <1>0. PICK u \in Update : u = Head(ups)
    BY ApplyUpdate
  <1> DEFINE v == IF u.type = "store" THEN t ELSE None
             m == CopyWith(i, u.key, v)
  <1>1. /\ UNCHANGED <<db, phase, cache, loop, queue>>
        /\ ~ Copying(i) /\ db[u.key] = Wrote(t, u.key)
    BY <1>0, NoRace DEF ApplyCopy, Window
  <1>2. /\ tx[t].pc = "apply" /\ ups # <<>>
        /\ tx'[t].pc = "apply" /\ tx'[t].ups = Tail(ups) /\ tx'[t].snap = m
        /\ \A x \in Tx \ {t} : tx'[x] = tx[x]
    BY <1>0, ApplyUpdate
  <1>3. /\ i \in Inst /\ u.key \in Keys /\ u.type \in {"store", "delete"} /\ ups \in Seq(Update)
        /\ UpdatesTell(t)
    BY <1>2, TablesAssumption DEF Update, TypeOK, Txs, Orderly
  <1>4. phase[i] = "running" /\ CopyCurrent(i) /\ OneCopy(i)
    BY <1>2, <1>3, BusyRuns DEF Running, Current
  <1>5. m[u.key] = v /\ \A x \in Keys \ {u.key} : m[x] = cache[i][x]
    BY <1>3 DEF CopyWith, TypeOK, Table
  <1>6. m # NoSnap
    <2>1. v \in Row
      BY DEF Row, Version
    <2>2. m \in Table
      BY <1>3, <2>1, CopyType
    <2> QED
      BY <2>2, TablesAssumption DEF Table, Row, Version
  <1>7. ASSUME NEW n \in DOMAIN ups, n # 1 PROVE n - 1 \in DOMAIN Tail(ups) /\ Tail(ups)[n - 1] = ups[n]
    BY <1>2, <1>3, <1>7, TailIndex
  <1> HIDE DEF m, v
  <1>8. v = db[u.key] \/ Pending(i, u.key)'
    <2>1. CASE \E n \in DOMAIN ups : n # 1 /\ ups[n].key = u.key
      <3>1. PICK n \in DOMAIN ups : n # 1 /\ ups[n].key = u.key
        BY <2>1
      <3>2. n - 1 \in DOMAIN tx'[t].ups /\ tx'[t].ups[n - 1].key = u.key
        BY <1>2, <1>7, <3>1
      <3> QED
        BY <1>2, <3>2 DEF Pending
    <2>2. CASE ~ \E n \in DOMAIN ups : n # 1 /\ ups[n].key = u.key
      <3>1. 1 \in DOMAIN ups /\ ups[1] = u
        BY <1>0, <1>2, <1>3
      <3>2. 1 \in LastOf(ups, u.key)
        BY <2>2, <3>1 DEF LastOf
      <3>3. tx[t].eff[u.key] \in (IF u.type = "store" THEN {t} ELSE {None, Same})
        BY <1>3, <3>1, <3>2 DEF UpdatesTell
      <3> QED
        BY <1>1, <1>3, <3>3, TablesAssumption DEF Wrote, v
    <2> QED
      BY <2>1, <2>2
  <1>9. ASSUME NEW k \in Keys \ {u.key}, Pending(i, k) PROVE Pending(i, k)'
    <2>1. CASE Told(i, k, "store") \/ Told(i, k, "delete")
      BY <1>1, <1>3, <2>1, ToldKept DEF Pending
    <2>2. CASE \E o \in loop[i].got : o[1] = k
      BY <1>1, <2>2 DEF Pending
    <2>3. CASE \E x \in Tx : /\ Home[x] = i /\ tx[x].pc = "apply"
                             /\ \E n \in DOMAIN tx[x].ups : tx[x].ups[n].key = k
      <3>1. PICK x \in Tx : /\ Home[x] = i /\ tx[x].pc = "apply"
                            /\ \E n \in DOMAIN tx[x].ups : tx[x].ups[n].key = k
        BY <2>3
      <3>2. CASE x # t
        BY <1>2, <3>1, <3>2 DEF Pending
      <3>3. CASE x = t
        <4>1. PICK n \in DOMAIN ups : ups[n].key = k
          BY <3>1, <3>3
        <4>2. n # 1
          BY <1>0, <1>2, <1>3, <1>9, <4>1
        <4>3. n - 1 \in DOMAIN tx'[t].ups /\ tx'[t].ups[n - 1].key = k
          BY <1>2, <1>7, <4>1, <4>2
        <4> QED
          BY <1>2, <4>3 DEF Pending
      <3> QED
        BY <3>2, <3>3
    <2> QED
      BY <1>9, <2>1, <2>2, <2>3 DEF Pending
  <1>10. UpToDate(i, cache[i])
    BY <1>1, <1>4 DEF CopyCurrent
  <1>11. \A k \in Keys : m[k] = db'[k] \/ Pending(i, k)'
    BY <1>1, <1>5, <1>8, <1>9, <1>10 DEF UpToDate
  <1>12. /\ loop'[i].snap = NoSnap /\ Copying(i)'
         /\ \A x \in Tx \ {t} : Home[x] = i => tx'[x].snap = NoSnap
    BY <1>1, <1>2, <1>6 DEF Copying
  <1>13. UpToDate(i, tx[t].snap)'
    BY <1>2, <1>11 DEF UpToDate
  <1>14. CopyCurrent(i)'
    BY <1>12, <1>13 DEF CopyCurrent
  <1>15. OneCopy(i)'
    BY <1>1, <1>4, <1>12 DEF OneCopy
  <1> QED
    BY <1>1, <1>2, <1>4, <1>14, <1>15, CurrentOwn

LEMMA CurrentCommitReturns ==
  ASSUME TypeOK, Current, NEW t \in Tx, CommitReturns(t)
  PROVE  Current'
  <1>1. /\ UNCHANGED <<db, phase, cache, loop, queue>> /\ tx[t].ups = <<>>
        /\ tx'[t].pc = "done" /\ tx'[t].snap = tx[t].snap
        /\ \A u \in Tx \ {t} : tx'[u] = tx[u]
    BY GotoFields DEF CommitReturns
  <1>2. HeardOf(t)'
    BY <1>1 DEF HeardOf, Announced
  <1> QED
    BY <1>1, <1>2, CurrentTx

LEMMA AgreeNext == TypeOK /\ AgreeInv /\ [Next]_vars => AgreeInv'
  <1> SUFFICES ASSUME TypeOK, AgreeInv, [Next]_vars PROVE AgreeInv'
    OBVIOUS
  <1>1. Orderly /\ Orderly'
    BY OrderlyNext DEF AgreeInv
  <1>2. ASSUME window' = "none" PROVE Current'
    <2>1. window = "none" /\ Current
      BY <1>2, WindowStays DEF AgreeInv
    <2>2. ASSUME NEW i \in Inst, ProcessStep(i) \/ LoopStep(i) PROVE Current'
      BY <1>1, <1>2, <2>1, <2>2, CurrentProcess, CurrentLoop
    <2>3. ASSUME NEW t \in Tx, ClientStep(t) \/ CommitStep(t) PROVE Current'
      BY <1>1, <1>2, <2>1, <2>3, CurrentClient, CurrentNotify, CurrentCommit, CurrentApplyCopy,
         CurrentApplyPublish, CurrentCommitReturns DEF CommitStep
    <2>4. CASE UNCHANGED vars
      <3>1. \A i \in Inst : phase[i] = "running" => CopyCurrent(i)' /\ OneCopy(i)'
        BY <2>1, <2>4, CopyFrame DEF Current, vars
      <3>2. \A t \in Tx : HeardOf(t)'
        BY <2>1, <2>4 DEF Current, HeardOf, Announced, Told, vars
      <3> QED
        BY <2>1, <2>4, <3>1, <3>2 DEF Current, vars
    <2> QED
      BY <2>2, <2>3, <2>4 DEF Next
  <1> QED
    BY <1>1, <1>2 DEF AgreeInv

\* A settled process has nothing pending.
LEMMA SettledAgrees == TypeOK /\ AgreeInv => AgreeUnlessRaced
  <1> SUFFICES ASSUME TypeOK, AgreeInv, window = "none", NEW i \in Inst, Settled(i) PROVE cache[i] = db
    BY DEF AgreeUnlessRaced
  <1>1. CopyCurrent(i) /\ Orderly
    BY DEF AgreeInv, Current, Settled
  <1>2. /\ queue[i] = <<>> /\ \A t \in Tx : tx[t].pc # "apply"
        /\ loop[i].dels = {} /\ loop[i].refresh = {} /\ loop[i].got = {} /\ loop[i].snap = NoSnap
    BY DEF Settled, CommitInFlight, Working, IdleLoop
  <1>3. \A k \in Keys : ~ Pending(i, k)
    BY <1>2 DEF Pending, Told
  <1>4. ~ Copying(i)
    BY <1>1, <1>2 DEF Copying, Orderly, CopiesCommitted
  <1>5. \A k \in Keys : cache[i][k] = db[k]
    BY <1>1, <1>3, <1>4 DEF CopyCurrent, UpToDate
  <1> QED
    BY <1>5 DEF TypeOK, Table

\* The copies of Table.Run and Table.Commit agree with the PostgreSQL table
\* whenever nothing is under way, for any number of processes, transactions,
\* keys, failures and crashes, unless one of the six race windows was entered:
\* there is no seventh way for a copy to go wrong.
THEOREM OnlyRacesDiverge == Spec => []AgreeUnlessRaced
  BY TypeInit, TypeNext, AgreeInit, AgreeNext, SettledAgrees, PTL DEF Spec

============================================================================
