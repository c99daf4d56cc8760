------------------------------ MODULE PgCache ------------------------------
(***************************************************************************)
(* lib/pgcache: every process keeps a full in-memory copy of one           *)
(* PostgreSQL table.  A transaction writes the table, sends the list of    *)
(* changed keys over LISTEN/NOTIFY to the other processes, commits, and    *)
(* then patches its own copy; a process that is notified drops deleted     *)
(* keys and re-reads stored ones.                                          *)
(*                                                                         *)
(* A stored object is abstracted to the transaction that wrote it, so two  *)
(* versions of a row differ exactly when different transactions wrote it.  *)
(* PostgreSQL itself (row locks, READ COMMITTED, ordered notification      *)
(* queues, the connection pool of pgx) is external and modelled from how   *)
(* the code uses it.                                                       *)
(***************************************************************************)
EXTENDS Naturals, Sequences, FiniteSets

CONSTANTS
    Inst,         \* processes, each with its own Table and pool
    Keys,         \* primary keys of the table
    Tx,           \* transactions; each is begun at most once
    Home,         \* Home[t]: the process whose client runs transaction t
    PoolSize,     \* pgxpool MaxConns
    MaxTries,     \* BackoffMaxRetries
    MaxOpen,      \* bound: transactions in progress at the same time
    MaxUpdates,   \* bound: statements per transaction
    MaxFaults,    \* bound: failing statements, notifications and commits
    MaxRestarts,  \* bound: crashes of a process
    None,         \* no row
    Seed,         \* the version of the rows that exist at first
    Same,         \* a row the transaction has not written
    NoSnap        \* no copy of the map in progress

ASSUME TablesAssumption ==
    /\ Home \in [Tx -> Inst]
    /\ {None, Seed, Same, NoSnap} \cap Tx = {}
    /\ None # Seed /\ None # Same /\ Seed # Same
    /\ NoSnap \notin [Keys -> Tx \cup {Seed, None}]

ASSUME BoundsAssumption ==
    /\ PoolSize \in Nat \ {0}
    /\ MaxTries \in Nat \ {0}
    /\ {MaxOpen, MaxUpdates, MaxFaults, MaxRestarts} \subseteq Nat

VARIABLES
    db,        \* the committed rows
    phase,     \* progress of Table.Run per process
    cache,     \* Table.cache: the SortedMap snapshot currently published
    queue,     \* notifications PostgreSQL has queued for the listener
    loop,      \* the notification loop of Table.Run
    tx,        \* TableTx and the PostgreSQL transaction under it
    faults,    \* injected failures so far
    restarts,  \* crashes so far
    window     \* history: the first race window that was entered

vars == <<db, phase, cache, queue, loop, tx, faults, restarts, window>>

----------------------------------------------------------------------------
(* Data *)

Version == Tx \cup {Seed}
Row     == Version \cup {None}
Table   == [Keys -> Row]

Object  == Keys \X Version
Update  == [type : {"store", "delete"}, key : Keys]
Payload == [id : Inst, keymap : [Keys -> {"store", "delete", "none"}]]

IdleLoop  == [dels |-> {}, refresh |-> {}, got |-> {}, tries |-> 0, snap |-> NoSnap]
FreshTx   == [pc |-> "idle", want |-> {}, ups |-> <<>>,
              eff |-> [k \in Keys |-> Same], snap |-> NoSnap]
EmptyMap  == [k \in Keys |-> None]

Loops == [dels : SUBSET Keys, refresh : SUBSET Keys, got : SUBSET Object,
          tries : 0..MaxTries, snap : Table \cup {NoSnap}]

Txs   == [pc : {"idle", "open", "exec", "notify", "sent", "apply",
                "done", "lost", "failed", "aborted", "stuck"},
          want : SUBSET Update, ups : Seq(Update),
          eff : [Keys -> Version \cup {None, Same}], snap : Table \cup {NoSnap}]

\* The ways in which a copy can come to differ from the table for good.
\*   gap        a process reads the table and listens only after the message
\*   early      a notified process acts before the announced commit
\*   overlap    two goroutines of a process copy the map at the same time
\*   overtaken  a copy gets a version that is no longer the committed one
\*   undone     an announced transaction does not commit, or reports that it
\*              did not
\*   blind      a DELETE does not see the row another transaction inserts
Window == {"gap", "early", "overlap", "overtaken", "undone", "blind"}

\* The types of table, copies, queues, loops and transactions; tries stay below
\* the limit of the refresh.
TypeOK ==
    /\ db \in Table
    /\ phase \in [Inst -> {"start", "listed", "running", "dead"}]
    /\ cache \in [Inst -> Table]
    /\ queue \in [Inst -> Seq(Payload)]
    /\ loop \in [Inst -> Loops]
    /\ tx \in [Tx -> Txs]
    /\ faults \in Nat
    /\ restarts \in Nat
    /\ window \in Window \cup {"none"}

Init ==
    /\ db \in [Keys -> {Seed, None}]
    /\ phase = [i \in Inst |-> "start"]
    /\ cache = [i \in Inst |-> EmptyMap]
    /\ queue = [i \in Inst |-> <<>>]
    /\ loop = [i \in Inst |-> IdleLoop]
    /\ tx = [t \in Tx |-> FreshTx]
    /\ faults = 0
    /\ restarts = 0
    /\ window = "none"

----------------------------------------------------------------------------
(* PostgreSQL and pgx *)

\* Transactions PostgreSQL still holds open.  A statement error aborts the
\* transaction and frees its locks; a transaction whose Commit stopped at the
\* notification is never rolled back and keeps them.
Live(t)  == tx[t].pc \in {"open", "exec", "notify", "sent", "stuck"}

\* Nothing in the code calls Rollback, so an aborted transaction keeps its
\* pool connection too; Commit gives the connection back even when it fails.
Holds(t) == Live(t) \/ tx[t].pc = "aborted"

InUse(i)   == Cardinality({t \in Tx : Home[t] = i /\ Holds(t)})
HasConn(i) == InUse(i) < PoolSize

Locked(t, k) == \E u \in Tx \ {t} : Live(u) /\ tx[u].eff[k] # Same

\* What a statement of t sees in row k.
Visible(t, k) == IF tx[t].eff[k] # Same THEN tx[t].eff[k] ELSE db[k]

\* A DELETE that sees no row locks and changes nothing.
CanRun(t, u) == ~ Locked(t, u.key) \/ (u.type = "delete" /\ db[u.key] = None)

Effect(t, u) ==
    IF u.type = "store" THEN t
    ELSE IF Visible(t, u.key) = None THEN tx[t].eff[u.key] ELSE None

Committed(t) == [k \in Keys |-> Visible(t, k)]

Fault == faults < MaxFaults /\ faults' = faults + 1

\* pg_notify: every process that has executed LISTEN gets the message.
Broadcast(msg) ==
    queue' = [i \in Inst |-> IF phase[i] = "running" THEN Append(queue[i], msg) ELSE queue[i]]

\* Records that the step enters race window w when cond holds.
Enter(w, cond) == window' = IF cond /\ window = "none" THEN w ELSE window

\* The same for a step that copies the map: it may enter two windows.
EnterOne(overlaps, cond, w) ==
    IF overlaps THEN Enter("overlap", TRUE) ELSE Enter(w, cond)

----------------------------------------------------------------------------
(* Table.Run: start of a process *)

\* listFunc and the loop that stores every object: the copy is the table as
\* the query saw it.  The process listens only later.
List(i) ==
    /\ phase[i] = "start" /\ HasConn(i)
    /\ cache' = [cache EXCEPT ![i] = db]
    /\ phase' = [phase EXCEPT ![i] = "listed"]
    /\ UNCHANGED <<db, queue, loop, tx, faults, restarts, window>>

\* The message of t is out and t has not committed.
Announced(t) == tx[t].pc = "sent" /\ tx[t].ups # <<>>

Listen(i) ==
    /\ phase[i] = "listed"
    /\ phase' = [phase EXCEPT ![i] = "running"]
    /\ Enter("gap", \E t \in Tx : Announced(t))
    /\ UNCHANGED <<db, cache, queue, loop, tx, faults, restarts>>

\* What is left of a process that exits: PostgreSQL rolls back what its
\* transactions had not committed, and everything in memory is gone.
Exited(i, ph) ==
    /\ phase' = [phase EXCEPT ![i] = ph]
    /\ cache' = [cache EXCEPT ![i] = EmptyMap]
    /\ queue' = [queue EXCEPT ![i] = <<>>]
    /\ loop' = [loop EXCEPT ![i] = IdleLoop]
    /\ tx' = [t \in Tx |->
               IF Home[t] # i \/ tx[t].pc \in {"idle", "done", "lost", "failed"} THEN tx[t]
               ELSE [FreshTx EXCEPT !.pc = IF tx[t].pc = "apply" THEN "done" ELSE "failed"]]

Crash(i) ==
    /\ phase[i] # "dead" /\ restarts < MaxRestarts
    /\ Exited(i, "dead")
    /\ restarts' = restarts + 1
    /\ Enter("undone", \E t \in Tx : Home[t] = i /\ Announced(t))
    /\ UNCHANGED <<db, faults>>

\* listFunc or LISTEN fails: Run returns the error and lib/run ends the process.
StartFails(i) ==
    /\ phase[i] \in {"start", "listed"} /\ Fault
    /\ Exited(i, "dead")
    /\ UNCHANGED <<db, restarts, window>>

Restart(i) ==
    /\ phase[i] = "dead"
    /\ phase' = [phase EXCEPT ![i] = "start"]
    /\ UNCHANGED <<db, cache, queue, loop, tx, faults, restarts, window>>

----------------------------------------------------------------------------
(* SortedMap: Store and Delete copy the map, change the copy and publish it; *)
(* nothing orders the copies of the two kinds of writers of a process.       *)

Copying(i) ==
    \/ loop[i].snap # NoSnap
    \/ \E t \in Tx : Home[t] = i /\ tx[t].snap # NoSnap

\* copy() plus ReplaceOrInsert or Delete on the copy.
CopyWith(i, k, v) == [cache[i] EXCEPT ![k] = v]

----------------------------------------------------------------------------
(* TableTx *)

Running(t) == phase[Home[t]] = "running"
InProgress == {t \in Tx : tx[t].pc \in {"open", "exec", "notify", "sent", "apply"}}

Goto(t, pc) == tx' = [tx EXCEPT ![t].pc = pc]

Begin(t) ==
    /\ tx[t].pc = "idle" /\ Running(t)
    /\ Cardinality(InProgress) < MaxOpen
    /\ HasConn(Home[t])
    /\ Goto(t, "open")
    /\ UNCHANGED <<db, phase, cache, queue, loop, faults, restarts, window>>

\* The client calls Store or Delete; the statement waits for its row lock.
Issue(t, u) ==
    /\ tx[t].pc = "open" /\ Len(tx[t].ups) < MaxUpdates
    /\ tx' = [tx EXCEPT ![t].pc = "exec", ![t].want = {u}]
    /\ UNCHANGED <<db, phase, cache, queue, loop, faults, restarts, window>>

\* The statement ran: the update joins ttx.updates.
Execute(t) ==
    /\ tx[t].pc = "exec"
    /\ \E u \in tx[t].want :
         /\ CanRun(t, u)
         /\ tx' = [tx EXCEPT ![t].pc = "open", ![t].want = {},
                             ![t].ups = Append(tx[t].ups, u),
                             ![t].eff[u.key] = Effect(t, u)]
         /\ Enter("blind", u.type = "delete" /\ Locked(t, u.key))
    /\ UNCHANGED <<db, phase, cache, queue, loop, faults, restarts>>

\* Two transactions that wait for each other's rows: PostgreSQL fails one.
Deadlocked(t) ==
    \E u \in Tx \ {t}, a \in tx[t].want :
        /\ tx[t].pc = "exec" /\ tx[u].pc = "exec"
        /\ tx[u].eff[a.key] # Same
        /\ \E b \in tx[u].want : tx[t].eff[b.key] # Same

\* The statement failed.  The handler returns its error and forgets the
\* transaction without a rollback.
StatementFails(t) ==
    /\ tx[t].pc = "exec"
    /\ \/ Deadlocked(t) /\ UNCHANGED faults
       \/ Fault
    /\ tx' = [tx EXCEPT ![t].pc = "aborted", ![t].want = {}]
    /\ UNCHANGED <<db, phase, cache, queue, loop, restarts, window>>

\* The handler returns an error of its own between Begin and Commit (a member
\* that is gone, say): there is no Rollback, the transaction stays open.
Abandon(t) ==
    /\ tx[t].pc = "open"
    /\ Goto(t, "stuck")
    /\ UNCHANGED <<db, phase, cache, queue, loop, faults, restarts, window>>

\* Mutant of KeyMap: deleted keys are left out of the message.
KeyMapStoresOnly(ups) ==
    [k \in Keys |->
        IF \E n \in DOMAIN ups : ups[n] = [type |-> "store", key |-> k] THEN "store" ELSE "none"]

\* The position of the last update of k, if there is one.
LastOf(ups, k) ==
    {n \in DOMAIN ups : ups[n].key = k /\ \A m \in DOMAIN ups : ups[m].key = k => m <= n}

\* encode: the last update of a key decides what its event says.
KeyMap(ups) ==
    [k \in Keys |->
        IF LastOf(ups, k) = {} THEN "none" ELSE ups[CHOOSE n \in LastOf(ups, k) : TRUE].type]

\* The notify connection is one pgx.Conn: a second Exec while one is under
\* way fails at once.
NotifyBusy(t) == \E u \in Tx : Home[u] = Home[t] /\ tx[u].pc = "notify"

CommitBegin(t) ==
    /\ tx[t].pc = "open"
    /\ Goto(t, IF tx[t].ups = <<>> THEN "sent" ELSE IF NotifyBusy(t) THEN "stuck" ELSE "notify")
    /\ UNCHANGED <<db, phase, cache, queue, loop, faults, restarts, window>>

\* pg_notify on its own connection, outside the transaction: listeners can
\* read the message before the transaction commits.
Notify(t) ==
    /\ tx[t].pc = "notify"
    /\ Goto(t, "sent")
    /\ Broadcast([id |-> Home[t], keymap |-> KeyMap(tx[t].ups)])
    /\ UNCHANGED <<db, phase, cache, loop, faults, restarts, window>>

\* Exec reports an error, with or without the message having gone out.
NotifyFails(t) ==
    /\ tx[t].pc = "notify" /\ Fault
    /\ Goto(t, "stuck")
    /\ \/ UNCHANGED <<queue, window>>
       \/ /\ Broadcast([id |-> Home[t], keymap |-> KeyMap(tx[t].ups)])
          /\ Enter("undone", TRUE)
    /\ UNCHANGED <<db, phase, cache, loop, restarts>>

\* Another process that reads the table now and listens only later will
\* never hear of this change.
SomeoneListed == \E i \in Inst : phase[i] = "listed"

Commit(t) ==
    /\ tx[t].pc = "sent"
    /\ db' = Committed(t)
    /\ Goto(t, "apply")
    /\ Enter("gap", SomeoneListed)
    /\ UNCHANGED <<phase, cache, queue, loop, faults, restarts>>

\* tx.Commit reports an error; the server may or may not have committed.
CommitFails(t) ==
    /\ tx[t].pc = "sent" /\ Fault
    /\ \/ db' = db /\ Goto(t, "failed")
       \/ db' = Committed(t) /\ Goto(t, "lost")
    /\ Enter("undone", Announced(t))
    /\ UNCHANGED <<phase, cache, queue, loop, restarts>>

\* What t left in a row it touched.
Wrote(t, k) == IF tx[t].eff[k] = Same THEN None ELSE tx[t].eff[k]

\* Mutant of ApplyCopy: the copy is patched before tx.Commit.
ApplyCopyEarly(t) ==
    LET u == Head(tx[t].ups)
    IN  /\ tx[t].pc \in {"sent", "apply"} /\ tx[t].ups # <<>> /\ tx[t].snap = NoSnap
        /\ cache' = [cache EXCEPT ![Home[t]][u.key] = IF u.type = "store" THEN t ELSE None]
        /\ tx' = [tx EXCEPT ![t].ups = Tail(tx[t].ups)]
        /\ UNCHANGED <<db, phase, queue, loop, faults, restarts, window>>

\* Table.store and Table.delete for the next update of a committed
\* transaction, first half: the copy.
ApplyCopy(t) ==
    LET u == Head(tx[t].ups)
        v == IF u.type = "store" THEN t ELSE None
    IN  /\ tx[t].pc = "apply" /\ tx[t].ups # <<>> /\ tx[t].snap = NoSnap
        /\ tx' = [tx EXCEPT ![t].snap = CopyWith(Home[t], u.key, v),
                            ![t].ups = Tail(tx[t].ups)]
        /\ EnterOne(Copying(Home[t]), db[u.key] # Wrote(t, u.key), "overtaken")
        /\ UNCHANGED <<db, phase, cache, queue, loop, faults, restarts>>

\* Second half: ptr.Store.
ApplyPublish(t) ==
    /\ tx[t].pc = "apply" /\ tx[t].snap # NoSnap
    /\ cache' = [cache EXCEPT ![Home[t]] = tx[t].snap]
    /\ tx' = [tx EXCEPT ![t].snap = NoSnap]
    /\ UNCHANGED <<db, phase, queue, loop, faults, restarts, window>>

CommitReturns(t) ==
    /\ tx[t].pc = "apply" /\ tx[t].ups = <<>> /\ tx[t].snap = NoSnap
    /\ Goto(t, "done")
    /\ UNCHANGED <<db, phase, cache, queue, loop, faults, restarts, window>>

----------------------------------------------------------------------------
(* The notification loop *)

Working(i) == loop[i] # IdleLoop

\* Next and decode: events of this same process are skipped.
NextEvents(i) ==
    /\ phase[i] = "running" /\ ~ Working(i) /\ queue[i] # <<>>
    /\ LET msg == Head(queue[i])
           of(type) == {k \in Keys : msg.keymap[k] = type}
       IN  loop' = IF msg.id = i THEN loop
                   ELSE [loop EXCEPT ![i].dels = of("delete"), ![i].refresh = of("store")]
    /\ queue' = [queue EXCEPT ![i] = Tail(queue[i])]
    /\ UNCHANGED <<db, phase, cache, tx, faults, restarts, window>>

\* handleEvents, a delete event: copy the map without the key.
DeleteCopy(i, k) ==
    /\ k \in loop[i].dels /\ loop[i].snap = NoSnap
    /\ loop' = [loop EXCEPT ![i].dels = loop[i].dels \ {k}, ![i].snap = CopyWith(i, k, None)]
    /\ EnterOne(Copying(i), db[k] # None, "early")
    /\ UNCHANGED <<db, phase, cache, queue, tx, faults, restarts>>

\* handleEvents, after all events: fetch the stored keys from the pool.  The
\* answer counts when it has as many objects as keys were asked for.
Fetch(i) ==
    LET ks   == loop[i].refresh
        rows == {k \in ks : db[k] # None}
    IN  /\ ks # {} /\ loop[i].dels = {} /\ loop[i].snap = NoSnap /\ HasConn(i)
        /\ rows = ks
        /\ loop' = [loop EXCEPT ![i].refresh = {}, ![i].tries = 0,
                                ![i].got = {<<k, db[k]>> : k \in ks}]
        /\ Enter("early", \E t \in Tx, k \in ks : Live(t) /\ tx[t].eff[k] # Same)
        /\ UNCHANGED <<db, phase, cache, queue, tx, faults, restarts>>

\* Mutants of FetchFails: one try too many, and no limit at all.
FetchFailsTooOften(i) ==
    LET ks == loop[i].refresh
    IN  /\ ks # {} /\ loop[i].dels = {} /\ loop[i].snap = NoSnap /\ HasConn(i)
        /\ (\E k \in ks : db[k] = None) /\ loop[i].tries <= MaxTries
        /\ loop' = [loop EXCEPT ![i].tries = @ + 1]
        /\ UNCHANGED <<db, phase, cache, queue, tx, faults, restarts, window>>

FetchRetriesForever(i) ==
    LET ks == loop[i].refresh
    IN  /\ ks # {} /\ loop[i].dels = {} /\ loop[i].snap = NoSnap /\ HasConn(i)
        /\ \E k \in ks : db[k] = None
        /\ loop' = [loop EXCEPT ![i].tries = 1]
        /\ UNCHANGED <<db, phase, cache, queue, tx, faults, restarts, window>>

\* A try that fails, by a query error or by a wrong number of objects; after
\* the last one Run returns the error and lib/run ends the process.
FetchFails(i) ==
    LET ks == loop[i].refresh
    IN  /\ ks # {} /\ loop[i].dels = {} /\ loop[i].snap = NoSnap /\ HasConn(i)
        /\ \/ (\E k \in ks : db[k] = None) /\ UNCHANGED faults
           \/ Fault
        /\ IF loop[i].tries + 1 < MaxTries
           THEN /\ loop' = [loop EXCEPT ![i].tries = @ + 1]
                /\ UNCHANGED <<phase, cache, queue, tx, window>>
           ELSE /\ Exited(i, "dead")
                /\ Enter("undone", \E t \in Tx : Home[t] = i /\ Announced(t))
        /\ UNCHANGED <<db, restarts>>

RefreshCopy(i, o) ==
    /\ o \in loop[i].got /\ loop[i].snap = NoSnap
    /\ loop' = [loop EXCEPT ![i].got = loop[i].got \ {o}, ![i].snap = CopyWith(i, o[1], o[2])]
    /\ EnterOne(Copying(i), db[o[1]] # o[2], "overtaken")
    /\ UNCHANGED <<db, phase, cache, queue, tx, faults, restarts>>

LoopPublish(i) ==
    /\ loop[i].snap # NoSnap
    /\ cache' = [cache EXCEPT ![i] = loop[i].snap]
    /\ loop' = [loop EXCEPT ![i].snap = NoSnap]
    /\ UNCHANGED <<db, phase, queue, tx, faults, restarts, window>>

----------------------------------------------------------------------------

LoopStep(i) ==
    \/ NextEvents(i)
    \/ \E k \in Keys : DeleteCopy(i, k)
    \/ Fetch(i)
    \/ FetchFails(i)
    \/ \E o \in loop[i].got : RefreshCopy(i, o)
    \/ LoopPublish(i)

\* The steps of Commit, which the client's goroutine takes by itself.
CommitStep(t) ==
    \/ Notify(t) \/ NotifyFails(t)
    \/ Commit(t) \/ CommitFails(t)
    \/ ApplyCopy(t) \/ ApplyPublish(t) \/ CommitReturns(t)

ClientStep(t) ==
    \/ Begin(t)
    \/ \E u \in Update : Issue(t, u)
    \/ Execute(t) \/ StatementFails(t)
    \/ Abandon(t)
    \/ CommitBegin(t)

ProcessStep(i) == List(i) \/ Listen(i) \/ StartFails(i) \/ Restart(i) \/ Crash(i)

Next ==
    \/ \E i \in Inst : ProcessStep(i) \/ LoopStep(i)
    \/ \E t \in Tx : ClientStep(t) \/ CommitStep(t)

Spec == Init /\ [][Next]_vars

\* The goroutines of a process keep running: handlers that began a
\* transaction go on to its end, and so do Commit and the notification loop.
\* Nothing obliges clients to begin transactions or processes to start.
Handler(t) ==
    \/ \E u \in Update : Issue(t, u)
    \/ Execute(t) \/ StatementFails(t) \/ CommitBegin(t) \/ CommitStep(t)

Fairness ==
    /\ \A i \in Inst : WF_vars(List(i) \/ Listen(i)) /\ WF_vars(LoopStep(i))
    /\ \A t \in Tx : WF_vars(Handler(t))

FairSpec == Spec /\ Fairness

----------------------------------------------------------------------------
(* Properties *)

CommitInFlight == \E t \in Tx : tx[t].pc \in {"notify", "sent", "apply"}

Settled(i) ==
    /\ phase[i] = "running" /\ queue[i] = <<>> /\ ~ Working(i)
    /\ ~ CommitInFlight

\* Once nothing is under way, every copy equals the table, unless one of the
\* listed race windows was entered: they are the only ways to diverge.
AgreeUnlessRaced == window = "none" => \A i \in Inst : Settled(i) => cache[i] = db

\* Its inductive form.  A process that does not run has nothing under way.
QuietUnlessRunning ==
    \A i \in Inst : phase[i] # "running" =>
        /\ loop[i] = IdleLoop /\ queue[i] = <<>>
        /\ \A t \in Tx : Home[t] = i => tx[t].pc \in {"idle", "done", "lost", "failed"}

\* Only a committed transaction patches the copy.
CopiesCommitted == \A t \in Tx : tx[t].snap # NoSnap => tx[t].pc = "apply"

\* No two open transactions have changed the same row.
RowsExclusive ==
    \A t, u \in Tx, k \in Keys :
        t # u /\ Live(t) /\ Live(u) => tx[t].eff[k] = Same \/ tx[u].eff[k] = Same

\* What transaction t left in a row is what its last update of it says, and a
\* row it changed is in the list until it patches the copy.
UpdatesTell(t) ==
    /\ \A k \in Keys : \A n \in LastOf(tx[t].ups, k) :
         tx[t].eff[k] \in (IF tx[t].ups[n].type = "store" THEN {t} ELSE {None, Same})
    /\ tx[t].pc \notin {"apply", "done"} =>
         \A k \in Keys : tx[t].eff[k] # Same => LastOf(tx[t].ups, k) # {}
    /\ tx[t].pc = "idle" => tx[t].ups = <<>>

\* A message about k has not been acted upon by process i.
Told(i, k, type) ==
    \/ \E n \in DOMAIN queue[i] : queue[i][n].id # i /\ queue[i][n].keymap[k] = type
    \/ k \in IF type = "store" THEN loop[i].refresh ELSE loop[i].dels

\* Process i will still write k into its copy.
Pending(i, k) ==
    \/ Told(i, k, "store") \/ Told(i, k, "delete")
    \/ \E o \in loop[i].got : o[1] = k
    \/ \E t \in Tx : /\ Home[t] = i /\ tx[t].pc = "apply"
                     /\ \E n \in DOMAIN tx[t].ups : tx[t].ups[n].key = k

UpToDate(i, m) == \A k \in Keys : m[k] = db[k] \/ Pending(i, k)

\* The map a process publishes last is up to date, and it copies one at a time.
CopyCurrent(i) ==
    /\ ~ Copying(i) => UpToDate(i, cache[i])
    /\ loop[i].snap # NoSnap => UpToDate(i, loop[i].snap)
    /\ \A t \in Tx : Home[t] = i /\ tx[t].snap # NoSnap => UpToDate(i, tx[t].snap)

OneCopy(i) ==
    /\ loop[i].refresh = {} \/ loop[i].got = {}
    /\ \A t \in Tx : Home[t] = i /\ tx[t].snap # NoSnap =>
         /\ loop[i].snap = NoSnap
         /\ \A u \in Tx \ {t} : Home[u] = i => tx[u].snap = NoSnap

\* The other processes have yet to act on what t announces and will change.
HeardOf(t) ==
    Announced(t) => \A i \in Inst \ {Home[t]}, k \in Keys :
        phase[i] = "running" /\ tx[t].eff[k] \notin {Same, db[k]} =>
            Told(i, k, IF tx[t].eff[k] = None THEN "delete" ELSE "store")

Orderly ==
    /\ QuietUnlessRunning /\ CopiesCommitted /\ RowsExclusive
    /\ \A t \in Tx : UpdatesTell(t)

Current ==
    /\ \A i \in Inst : phase[i] = "listed" => cache[i] = db
    /\ \A i \in Inst : phase[i] = "running" => CopyCurrent(i) /\ OneCopy(i)
    /\ \A t \in Tx : HeardOf(t)

AgreeInv == Orderly /\ (window = "none" => Current)

\* The transactions PostgreSQL has committed.
Durable == {t \in Tx : tx[t].pc \in {"apply", "done", "lost"}}

\* Table m holds no object of a transaction that did not commit.
Clean(m) == \A k \in Keys : m[k] \in Tx => m[k] \in Durable

\* No reader of any process sees an object of a transaction that did not
\* commit, whatever fails and however copies, fetches and commits interleave.
CommittedOnly == \A i \in Inst : Clean(cache[i])

\* Its inductive form: the same of the table and of every copy, fetched object
\* and unpublished map on the way into a cache; and a transaction writes no
\* version but its own.
CommittedInv ==
    /\ Clean(db)
    /\ CommittedOnly
    /\ \A i \in Inst : \A o \in loop[i].got : o[2] \in Tx => o[2] \in Durable
    /\ \A i \in Inst : loop[i].snap # NoSnap => Clean(loop[i].snap)
    /\ \A t \in Tx : tx[t].snap # NoSnap => Clean(tx[t].snap)
    /\ \A t \in Tx, k \in Keys : tx[t].eff[k] \in {t, None, Same}

\* Every connection of the pool belongs to a transaction nobody will finish,
\* or to one that waits for a row such a transaction has locked.
Leaked(t)   == tx[t].pc \in {"stuck", "aborted"}
Blocked(t)  == tx[t].pc = "exec" /\ \E u \in Tx : Leaked(u) /\ \E a \in tx[t].want : tx[u].eff[a.key] # Same
Starved(i)  == ~ HasConn(i) /\ \A t \in Tx : Home[t] = i /\ Holds(t) => Leaked(t) \/ Blocked(t)

\* The loop of Table.Run finishes every notification it has taken, or the
\* process ends: only a pool eaten up by transactions without a rollback can
\* hold it up.
EventsHandled == \A i \in Inst : Working(i) ~> (~ Working(i) \/ Starved(i))

============================================================================
