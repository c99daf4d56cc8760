-------------------------- MODULE LogServiceProofs --------------------------
(***************************************************************************)
(* Proof of NothingLost for LogService: for any requests, sizes of queues, *)
(* files and batches, and any number of failing calls of the file system.  *)
(***************************************************************************)
EXTENDS LogService, SequenceTheorems, FiniteSetTheorems, TLAPS

-----------------------------------------------------------------------------
(***************************************************************************)
(* Sequences on shelves: no value is on two shelves or twice on one.       *)
(***************************************************************************)
Distinct(S) ==
  \A g, h \in DOMAIN S : \A i \in DOMAIN S[g], j \in DOMAIN S[h] : S[g][i] = S[h][j] => g = h /\ i = j
Has(S, e) == \E h \in DOMAIN S : \E i \in DOMAIN S[h] : S[h][i] = e

\* What a concatenation holds, and where.
LEMMA ConcatPlaces ==
  ASSUME NEW E, NEW s \in Seq(E), NEW t \in Seq(E)
  PROVE  /\ s \o t \in Seq(E)
         /\ DOMAIN (s \o t) = 1..(Len(s) + Len(t)) /\ Len(s) \in Nat /\ Len(t) \in Nat
         /\ DOMAIN s = 1..Len(s) /\ DOMAIN t = 1..Len(t)
         /\ \A i \in DOMAIN s : i \in DOMAIN (s \o t) /\ (s \o t)[i] = s[i]
         /\ \A i \in DOMAIN t : Len(s) + i \in DOMAIN (s \o t) /\ (s \o t)[Len(s) + i] = t[i]
         /\ \A i \in DOMAIN (s \o t) :
              \/ i \in DOMAIN s /\ (s \o t)[i] = s[i]
              \/ i - Len(s) \in DOMAIN t /\ (s \o t)[i] = t[i - Len(s)]
<1>1. /\ s \o t \in Seq(E) /\ Len(s \o t) = Len(s) + Len(t)
      /\ \A i \in 1 .. Len(s) + Len(t) : (s \o t)[i] = IF i <= Len(s) THEN s[i] ELSE t[i - Len(s)]
  BY ConcatProperties
<1>2. DOMAIN (s \o t) = 1..(Len(s) + Len(t)) /\ Len(s) \in Nat /\ Len(t) \in Nat
  BY <1>1
<1>3. DOMAIN s = 1..Len(s) /\ DOMAIN t = 1..Len(t)
  OBVIOUS
<1>4. \A i \in DOMAIN t : (Len(s) + i) - Len(s) = i
  BY <1>2, <1>3
<1> QED
  BY <1>1, <1>2, <1>3, <1>4

\* One shelf gets a value that was on none.
LEMMA AppendDistinct ==
  ASSUME NEW D, NEW E, NEW S, NEW T, DOMAIN S = D, DOMAIN T = D, NEW h \in D, NEW e \in E,
         S[h] \in Seq(E), T[h] = Append(S[h], e), \A x \in D \ {h} : T[x] = S[x], Distinct(S), ~ Has(S, e)
  PROVE  Distinct(T) /\ \A d : Has(T, d) <=> (Has(S, d) \/ d = e)
<1> DEFINE n == Len(S[h]) + 1
<1>1. /\ Len(S[h]) \in Nat /\ DOMAIN S[h] = 1..Len(S[h]) /\ DOMAIN T[h] = 1..n
      /\ \A i \in DOMAIN S[h] : T[h][i] = S[h][i]
      /\ T[h][n] = e
  BY AppendProperties
<1>2. \A g \in D \ {h} : T[g] = S[g]
  OBVIOUS
<1>3. DOMAIN T = D /\ DOMAIN S = D
  OBVIOUS
<1>4. n \in DOMAIN T[h] /\ n \notin DOMAIN S[h] /\ \A i \in DOMAIN T[h] : i \in DOMAIN S[h] \/ i = n
  BY <1>1
<1>5. \A i \in DOMAIN S[h] : i \in DOMAIN T[h]
  BY <1>1
<1> HIDE DEF n
<1>6. \A g \in D : \A i \in DOMAIN T[g] :
        \/ i \in DOMAIN S[g] /\ T[g][i] = S[g][i]
        \/ g = h /\ i = n /\ T[g][i] = e
  BY <1>1, <1>2, <1>4
<1>7. Distinct(T)
  BY <1>3, <1>6 DEF Distinct, Has
<1>8. \A d : Has(T, d) => Has(S, d) \/ d = e
  BY <1>3, <1>6 DEF Has
<1>9. \A d : Has(S, d) => Has(T, d)
  BY <1>1, <1>2, <1>3, <1>5 DEF Has
<1>10. Has(T, e)
  BY <1>1, <1>3, <1>4 DEF Has
<1> QED
  BY <1>7, <1>8, <1>9, <1>10

\* c is s, of length n, followed by t.
Joins(s, t, c, n) ==
  /\ n \in Nat /\ DOMAIN c \subseteq Int
  /\ \A i \in DOMAIN s : i \in DOMAIN c /\ c[i] = s[i]
  /\ \A i \in DOMAIN t : n + i \in DOMAIN c /\ c[n + i] = t[i]
  /\ \A i \in DOMAIN c : \/ i \in DOMAIN s /\ c[i] = s[i]
                         \/ i - n \in DOMAIN t /\ c[i] = t[i - n]

LEMMA ConcatJoins ==
  ASSUME NEW E, NEW s \in Seq(E), NEW t \in Seq(E)
  PROVE  Joins(s, t, s \o t, Len(s))
BY ConcatPlaces DEF Joins

\* A shelf is put on another, which has n places.
LEMMA MovePlaces ==
  ASSUME NEW D, NEW S, NEW T, DOMAIN S = D, DOMAIN T = D, NEW g \in D, NEW h \in D, g # h, NEW n,
         \A x \in D \ {g, h} : T[x] = S[x], DOMAIN T[h] = {}, Distinct(S), Joins(S[g], S[h], T[g], n)
  PROVE  Distinct(T) /\ \A d : Has(T, d) <=> Has(S, d)
<1> USE DEF Joins
<1>1. \A i, j \in DOMAIN T[g] : i - n = j - n => i = j
  OBVIOUS
<1>2. \A x \in D : \A i \in DOMAIN T[x] : \E y \in D : \E k \in DOMAIN S[y] : T[x][i] = S[y][k]
  OBVIOUS
<1>3. Distinct(T)
  <2>1. SUFFICES ASSUME NEW x \in D, NEW y \in D, NEW i \in DOMAIN T[x], NEW j \in DOMAIN T[y], T[x][i] = T[y][j]
                 PROVE  x = y /\ i = j
    BY DEF Distinct
  <2>2. \A a, b \in D : \A k \in DOMAIN S[a], l \in DOMAIN S[b] : S[a][k] = S[b][l] => a = b /\ k = l
    BY DEF Distinct
  <2>3. x # h /\ y # h
    OBVIOUS
  <2>4. CASE x # g /\ y # g
    BY <2>1, <2>2, <2>3, <2>4
  <2>5. CASE x = g /\ y # g
    BY <2>1, <2>2, <2>3, <2>5
  <2>6. CASE x # g /\ y = g
    BY <2>1, <2>2, <2>3, <2>6
  <2>7. CASE x = g /\ y = g
    BY <1>1, <2>1, <2>2, <2>7
  <2> QED
    BY <2>4, <2>5, <2>6, <2>7
<1>4. \A d : Has(T, d) => Has(S, d)
  BY <1>2 DEF Has
<1>5. \A d : Has(S, d) => Has(T, d)
  <2>1. SUFFICES ASSUME NEW d, NEW x \in D, NEW i \in DOMAIN S[x], S[x][i] = d
                 PROVE  Has(T, d)
    BY DEF Has
  <2>2. CASE x = h
    BY <2>1, <2>2 DEF Has
  <2>3. CASE x = g
    BY <2>1, <2>3 DEF Has
  <2>4. CASE x # h /\ x # g
    BY <2>1, <2>4 DEF Has
  <2> QED
    BY <2>2, <2>3, <2>4
<1> QED
  BY <1>3, <1>4, <1>5

LEMMA MoveDistinct ==
  ASSUME NEW D, NEW E, NEW S, NEW T, DOMAIN S = D, DOMAIN T = D, NEW g \in D, NEW h \in D, g # h,
         S[g] \in Seq(E), S[h] \in Seq(E), T[g] = S[g] \o S[h], T[h] = << >>,
         \A x \in D \ {g, h} : T[x] = S[x], Distinct(S)
  PROVE  Distinct(T) /\ \A d : Has(T, d) <=> Has(S, d)
<1>1. \A s, t \in Seq(E) : Joins(s, t, s \o t, Len(s))
  BY ONLY ConcatJoins
<1>2. Joins(S[g], S[h], T[g], Len(S[g]))
  BY <1>1
<1>3. DOMAIN T[h] = {}
  OBVIOUS
<1> QED
  BY <1>2, <1>3, MovePlaces, ZenonT(60)

\* The first value of a shelf is taken.
LEMMA TailDistinct ==
  ASSUME NEW D, NEW E, NEW S, NEW T, DOMAIN S = D, DOMAIN T = D, NEW h \in D, S[h] \in Seq(E), S[h] # << >>,
         T[h] = Tail(S[h]), \A x \in D \ {h} : T[x] = S[x], Distinct(S)
  PROVE  Distinct(T) /\ Has(S, Head(S[h])) /\ \A d : Has(T, d) => Has(S, d) /\ d # Head(S[h])
<1>1. T[h] = Tail(S[h]) /\ \A x \in D \ {h} : T[x] = S[x]
  OBVIOUS
<1>2. DOMAIN T = D /\ DOMAIN S = D
  OBVIOUS
<1>3. /\ 1 \in DOMAIN S[h] /\ S[h][1] = Head(S[h])
      /\ \A i \in DOMAIN T[h] : i \in Nat /\ i + 1 \in DOMAIN S[h] /\ i + 1 # 1 /\ T[h][i] = S[h][i + 1]
  BY <1>1
<1>4. \A i, j \in DOMAIN T[h] : i + 1 = j + 1 => i = j
  BY <1>3
<1>5. Distinct(T)
  <2>1. SUFFICES ASSUME NEW x \in D, NEW y \in D, NEW i \in DOMAIN T[x], NEW j \in DOMAIN T[y], T[x][i] = T[y][j]
                 PROVE  x = y /\ i = j
    BY <1>2 DEF Distinct
  <2>2. \A a, b \in D : \A k \in DOMAIN S[a], l \in DOMAIN S[b] : S[a][k] = S[b][l] => a = b /\ k = l
    BY <1>2 DEF Distinct
  <2>3. CASE x # h /\ y # h
    BY <1>1, <2>1, <2>2, <2>3
  <2>4. CASE x = h /\ y # h
    BY <1>1, <1>3, <2>1, <2>2, <2>4
  <2>5. CASE x # h /\ y = h
    BY <1>1, <1>3, <2>1, <2>2, <2>5
  <2>6. CASE x = h /\ y = h
    BY <1>3, <1>4, <2>1, <2>2, <2>6
  <2> QED
    BY <2>3, <2>4, <2>5, <2>6
<1>6. Has(S, Head(S[h]))
  BY <1>2, <1>3 DEF Has
<1>7. \A x \in D : \A i \in DOMAIN T[x] :
        \E k \in DOMAIN S[x] : T[x][i] = S[x][k] /\ ~ (x = h /\ k = 1)
  BY <1>1, <1>3
<1>8. \A x \in D : \A k \in DOMAIN S[x] : S[x][k] = Head(S[h]) => x = h /\ k = 1
  BY <1>2, <1>3 DEF Distinct
<1> QED
  BY <1>2, <1>5, <1>6, <1>7, <1>8 DEF Has

-----------------------------------------------------------------------------
(***************************************************************************)
(* The inductive invariant.                                                *)
(***************************************************************************)
WorkerState ==
  [pc : {"none", "select", "closing", "opening", "stuck", "stopped"}, file : Files \cup {0},
   pending : Seq(Events), buffered : Seq(Events), fresh : BOOLEAN, open : BOOLEAN, pos : Nat,
   last : Nat, bytes : Nat, lines : Nat, queue : Seq(Events), flush : BOOLEAN, rotate : BOOLEAN]

\* What a worker holds and has not written.
Line(s) == s.buffered \o s.pending

Holders == ({"file"} \X Files) \cup ({"worker"} \X Workers)
Shelf == [h \in Holders |-> IF h[1] = "file" THEN content[h[2]] ELSE Line(worker[h[2]])]
Queues == [w \in Workers |-> worker[w].queue]

\* The type, as far as the lines depend on it.
LogType ==
  /\ worker \in [Workers -> WorkerState] /\ content \in [Files -> Seq(Events)]
  /\ event \in [Events -> {"new", "check", "load", "flight", "join", "create", "send", "wait", "done"}]
  /\ result \in [Events -> {"none", "ok", "failed", "terminating"}]
  /\ request \in [Requests -> {"new", "handled"}]
  /\ nworkers \in Nat /\ current \in 0..nworkers /\ target \in [Events -> 0..nworkers]

\* A line is on one shelf at most, and on one exactly if process said so.
LinesInv ==
  /\ Distinct(Shelf)
  /\ \A e \in Events : Has(Shelf, e) <=> result[e] = "ok"
  /\ \A e \in Events : result[e] = "ok" => event[e] = "done"

\* An event is in one queue at most, while process waits for it.
QueueInv == Distinct(Queues) /\ \A e \in Events : Has(Queues, e) => event[e] = "wait"

\* The events of a request start with it.
FreshInv == \A r \in Requests : request[r] = "new" => \A e \in EventsOf[r] : event[e] = "new"

\* A worker that is not created has nothing; one that is has a file, and
\* nothing in hand while it opens the next.
WorkerInv ==
  \A w \in Workers :
    /\ w > nworkers => worker[w] = NoWorker
    /\ worker[w].pc # "none" => worker[w].file \in Files
    /\ worker[w].pc = "opening" => worker[w].buffered = << >> /\ worker[w].pending = << >>

LogInv == LogType /\ LinesInv /\ QueueInv /\ FreshInv /\ WorkerInv

-----------------------------------------------------------------------------
(***************************************************************************)
(* What a step of the events does.                                         *)
(***************************************************************************)
\* The shelves and the queues as functions.
LEMMA ShelfType ==
  ASSUME LogType
  PROVE  /\ Shelf \in [Holders -> Seq(Events)] /\ Queues \in [Workers -> Seq(Events)]
         /\ \A f \in Files : <<"file", f>> \in Holders /\ Shelf[<<"file", f>>] = content[f]
         /\ \A w \in Workers : <<"worker", w>> \in Holders /\ Shelf[<<"worker", w>>] = Line(worker[w])
         /\ \A w \in Workers : Queues[w] = worker[w].queue
         /\ \A w \in Workers : worker[w] \in WorkerState /\ Line(worker[w]) \in Seq(Events)
<1>1. \A w \in Workers : worker[w] \in WorkerState
  BY DEF LogType
<1>2. \A s \in WorkerState : s.buffered \in Seq(Events) /\ s.pending \in Seq(Events) /\ s.queue \in Seq(Events)
  BY DEF WorkerState
<1>3. \A a, b \in Seq(Events) : a \o b \in Seq(Events)
  BY ConcatProperties
<1>4. \A w \in Workers : Line(worker[w]) \in Seq(Events)
  BY <1>1, <1>2, <1>3 DEF Line
<1>5. \A h \in Holders : (h[1] = "file" /\ h[2] \in Files) \/ (h[1] = "worker" /\ h[2] \in Workers)
  BY DEF Holders
<1>6. \A f \in Files : content[f] \in Seq(Events)
  BY DEF LogType
<1>7. Shelf \in [Holders -> Seq(Events)]
  <2>1. \A h \in Holders : (IF h[1] = "file" THEN content[h[2]] ELSE Line(worker[h[2]])) \in Seq(Events)
    BY <1>4, <1>5, <1>6
  <2> QED
    BY <2>1 DEF Shelf
<1>8. Queues \in [Workers -> Seq(Events)] /\ \A w \in Workers : Queues[w] = worker[w].queue
  BY <1>1, <1>2 DEF Queues
<1>9. \A f \in Files : <<"file", f>> \in Holders /\ Shelf[<<"file", f>>] = content[f]
  <2>1. \A f \in Files : <<"file", f>> \in Holders
    BY DEF Holders
  <2> QED
    BY <2>1 DEF Shelf
<1>10. \A w \in Workers : <<"worker", w>> \in Holders /\ Shelf[<<"worker", w>>] = Line(worker[w])
  <2>1. \A w \in Workers : <<"worker", w>> \in Holders
    BY DEF Holders
  <2> QED
    BY <2>1 DEF Shelf
<1> QED
  BY <1>1, <1>4, <1>7, <1>8, <1>9, <1>10

\* The lines stay with whoever has them.
LEMMA ShelfKept ==
  ASSUME LogType, LogType', content' = content, \A w \in Workers : Line(worker'[w]) = Line(worker[w])
  PROVE  Shelf' = Shelf
<1>1. \A h \in Holders : (h[1] = "file" /\ h[2] \in Files) \/ (h[1] = "worker" /\ h[2] \in Workers)
  BY DEF Holders
<1>2. Shelf' = [h \in Holders |-> IF h[1] = "file" THEN content'[h[2]] ELSE Line(worker'[h[2]])]
  BY DEF Shelf, Holders, Files, Workers, MaxWorkers, Events, Line
<1>3. \A h \in Holders : (IF h[1] = "file" THEN content'[h[2]] ELSE Line(worker'[h[2]]))
                       = (IF h[1] = "file" THEN content[h[2]] ELSE Line(worker[h[2]]))
  BY <1>1
<1> QED
  BY <1>2, <1>3 DEF Shelf

LEMMA QueuesKept ==
  ASSUME \A w \in Workers : worker'[w].queue = worker[w].queue
  PROVE  Queues' = Queues
BY DEF Queues, Workers, MaxWorkers, Events

\* A step that neither settles nor queues an event keeps both promises.
LEMMA EventsKept ==
  ASSUME LogInv, Shelf' = Shelf, Queues' = Queues,
         \A e \in Events : result'[e] = "ok" <=> result[e] = "ok",
         \A e \in Events : event[e] \in {"wait", "done"} => event'[e] = event[e]
  PROVE  LinesInv' /\ QueueInv'
<1>1. LinesInv'
  BY DEF LogInv, LinesInv, Has, Distinct
<1>2. QueueInv'
  BY DEF LogInv, QueueInv, Has, Distinct
<1> QED
  BY <1>1, <1>2

\* No event of a request that is not handled moves.
LEMMA FreshKept ==
  ASSUME FreshInv, request' = request, \A e \in Events : event[e] = "new" => event'[e] = "new"
  PROVE  FreshInv'
BY DEF FreshInv, Events

\* Steps that leave the workers and the files alone.
LEMMA QuietStep ==
  ASSUME LogInv, LogType', worker' = worker, content' = content, nworkers' = nworkers, request' = request,
         \A e \in Events : result'[e] = "ok" <=> result[e] = "ok",
         \A e \in Events : event[e] \in {"new", "wait", "done"} => event'[e] = event[e]
  PROVE  LogInv'
<1>1. Shelf' = Shelf
  BY ShelfKept DEF LogInv
<1>2. Queues' = Queues
  BY QueuesKept
<1>3. LinesInv' /\ QueueInv'
  BY <1>1, <1>2, EventsKept
<1>4. FreshInv'
  BY FreshKept DEF LogInv
<1>5. WorkerInv'
  BY DEF LogInv, WorkerInv, NoWorker, Workers, Files, MaxWorkers, Events
<1> QED
  BY <1>3, <1>4, <1>5 DEF LogInv

LEMMA HandleKeeps ==
  ASSUME LogInv, NEW r \in Requests, Handle(r)
  PROVE  LogInv'
<1>1. LogType'
  BY DEF LogInv, LogType, Handle, eventVars, managerVars, fileVars
<1>2. \A e \in EventsOf[r] : event[e] = "new" /\ e \in Events
  BY DEF LogInv, FreshInv, Handle, Events
<1>3. \A e \in Events : event[e] \in {"wait", "done"} => event'[e] = event[e]
  BY <1>2 DEF Handle
<1>4. worker' = worker /\ content' = content /\ nworkers' = nworkers /\ result' = result
  BY DEF Handle, fileVars
<1>5. Shelf' = Shelf /\ Queues' = Queues
  BY <1>1, <1>4, ShelfKept, QueuesKept DEF LogInv
<1>6. LinesInv' /\ QueueInv'
  BY <1>3, <1>4, <1>5, EventsKept
<1>7. FreshInv'
  <2>1. SUFFICES ASSUME NEW q \in Requests, request'[q] = "new", NEW e \in EventsOf[q]
                 PROVE  event'[e] = "new"
    BY DEF FreshInv
  <2>2. q # r /\ request[q] = "new"
    BY <2>1 DEF Handle, LogInv, LogType
  <2>3. e \notin EventsOf[r] /\ e \in Events
    BY <2>1, <2>2, LogAssumption DEF Events
  <2> QED
    BY <2>2, <2>3 DEF Handle, LogInv, FreshInv
<1>8. WorkerInv'
  BY <1>4 DEF LogInv, WorkerInv, NoWorker, Workers, Files, MaxWorkers, Events
<1> QED
  BY <1>1, <1>6, <1>7, <1>8 DEF LogInv

LEMMA QuietSteps ==
  ASSUME LogInv,
         \/ \E e \in Events : Check(e) \/ Load(e) \/ Flight(e) \/ CreateFails(e)
         \/ Cancel \/ Terminate \/ Second
         \/ \E w \in Workers : CloseAgain(w) \/ ReopenFails(w)
  PROVE  LogInv'
<1> USE DEF eventVars, managerVars, fileVars, otherVars
<1>1. ASSUME NEW e \in Events, Check(e) PROVE LogInv'
  <2>1. LogType'
    BY <1>1 DEF LogInv, LogType, Check, Returned
  <2>2. /\ \A d \in Events : result'[d] = "ok" <=> result[d] = "ok"
        /\ \A d \in Events : event[d] \in {"new", "wait", "done"} => event'[d] = event[d]
    BY <1>1 DEF LogInv, LinesInv, LogType, Check, Returned
  <2> QED
    BY <1>1, <2>1, <2>2, QuietStep DEF Check
<1>2. ASSUME NEW e \in Events, Load(e) PROVE LogInv'
  <2>1. LogType'
    BY <1>2 DEF LogInv, LogType, Load
  <2>2. \A d \in Events : event[d] \in {"new", "wait", "done"} => event'[d] = event[d]
    BY <1>2 DEF LogInv, LogType, Load
  <2> QED
    BY <1>2, <2>1, <2>2, QuietStep DEF Load
<1>3. ASSUME NEW e \in Events, Flight(e) PROVE LogInv'
  <2>1. LogType'
    BY <1>3 DEF LogInv, LogType, Flight
  <2>2. \A d \in Events : event[d] \in {"new", "wait", "done"} => event'[d] = event[d]
    BY <1>3 DEF LogInv, LogType, Flight
  <2> QED
    BY <1>3, <2>1, <2>2, QuietStep DEF Flight
<1>4. ASSUME NEW e \in Events, CreateFails(e) PROVE LogInv'
  <2>1. LogType'
    BY <1>4 DEF LogInv, LogType, CreateFails, Returned, Fault
  <2>2. /\ \A d \in Events : result'[d] = "ok" <=> result[d] = "ok"
        /\ \A d \in Events : event[d] \in {"new", "wait", "done"} => event'[d] = event[d]
    BY <1>4 DEF LogInv, LinesInv, LogType, CreateFails, Returned, Joined
  <2> QED
    BY <1>4, <2>1, <2>2, QuietStep DEF CreateFails
<1>5. ASSUME \/ Cancel \/ Terminate \/ Second
             \/ \E w \in Workers : CloseAgain(w) \/ ReopenFails(w)
      PROVE  LogInv'
  <2>1. UNCHANGED <<worker, content, nworkers, request, result, event, target, current>>
    BY <1>5 DEF Cancel, Terminate, Second, CloseAgain, ReopenFails
  <2>2. LogType'
    BY <2>1 DEF LogInv, LogType, WorkerState, Workers, Files, MaxWorkers, Events
  <2> QED
    BY <2>1, <2>2, QuietStep
<1> QED
  BY <1>1, <1>2, <1>3, <1>4, <1>5

-----------------------------------------------------------------------------
(***************************************************************************)
(* What a step of a worker does.                                           *)
(***************************************************************************)
\* s is a state that a worker with a file may be in.
Works(s) ==
  /\ s \in WorkerState /\ s.file \in Files
  /\ s.pc = "opening" => s.buffered = << >> /\ s.pending = << >>

eventsSame == <<event, result, request, nworkers, target, current>>

LEMMA WorkerMoves ==
  ASSUME LogInv, NEW w \in Workers, NEW s, Works(s), worker[w].pc # "none",
         worker' = [worker EXCEPT ![w] = s], UNCHANGED eventsSame
  PROVE  /\ worker' \in [Workers -> WorkerState] /\ FreshInv' /\ WorkerInv'
         /\ content' \in [Files -> Seq(Events)] => LogType'
         /\ worker'[w] = s /\ \A x \in Workers \ {w} : worker'[x] = worker[x]
<1>1. worker' \in [Workers -> WorkerState] /\ worker'[w] = s /\ \A x \in Workers \ {w} : worker'[x] = worker[x]
  BY DEF LogInv, LogType, Works
<1>2. content' \in [Files -> Seq(Events)] => LogType'
  BY <1>1 DEF LogInv, LogType, eventsSame
<1>3. FreshInv'
  BY FreshKept DEF LogInv, eventsSame
<1>4. WorkerInv'
  <2>1. ~ (w > nworkers)
    BY DEF LogInv, WorkerInv, NoWorker
  <2>2. \A x \in Workers : /\ x > nworkers' => worker'[x] = NoWorker
                           /\ worker'[x].pc # "none" => worker'[x].file \in Files
                           /\ worker'[x].pc = "opening" => worker'[x].buffered = << >> /\ worker'[x].pending = << >>
    BY <1>1, <2>1 DEF LogInv, WorkerInv, Works, eventsSame
  <2> QED
    BY <2>2 DEF WorkerInv
<1> QED
  BY <1>1, <1>2, <1>3, <1>4

\* It keeps its lines.
LEMMA WorkerKeeps ==
  ASSUME LogInv, NEW w \in Workers, NEW s, Works(s), worker[w].pc # "none",
         worker' = [worker EXCEPT ![w] = s], UNCHANGED eventsSame, content' = content,
         Line(s) = Line(worker[w]), s.queue = worker[w].queue
  PROVE  LogInv'
<1>1. LogType' /\ FreshInv' /\ WorkerInv' /\ worker'[w] = s /\ \A x \in Workers \ {w} : worker'[x] = worker[x]
  BY WorkerMoves DEF LogInv, LogType
<1>2. \A x \in Workers : Line(worker'[x]) = Line(worker[x]) /\ worker'[x].queue = worker[x].queue
  BY <1>1
<1>3. Shelf' = Shelf /\ Queues' = Queues
  BY <1>1, <1>2, ShelfKept, QueuesKept DEF LogInv
<1>4. LinesInv' /\ QueueInv'
  BY <1>3, EventsKept DEF eventsSame
<1> QED
  BY <1>1, <1>4 DEF LogInv

\* It writes all it has to its file.
LEMMA WorkerWrites ==
  ASSUME LogInv, NEW w \in Workers, NEW s, Works(s), worker[w].pc # "none",
         worker' = [worker EXCEPT ![w] = s], UNCHANGED eventsSame, NEW f \in Files,
         content' = [content EXCEPT ![f] = content[f] \o Line(worker[w])],
         Line(s) = << >>, s.queue = worker[w].queue
  PROVE  LogInv'
<1> DEFINE g == <<"file", f>>
           h == <<"worker", w>>
<1>1. /\ Shelf \in [Holders -> Seq(Events)] /\ g \in Holders /\ h \in Holders /\ g # h
      /\ Shelf[g] = content[f] /\ Shelf[h] = Line(worker[w])
  BY ShelfType DEF LogInv
<1>2. content[f] \o Line(worker[w]) \in Seq(Events)
  BY <1>1, ConcatProperties
<1>3. content' \in [Files -> Seq(Events)] /\ content'[f] = content[f] \o Line(worker[w])
      /\ \A x \in Files \ {f} : content'[x] = content[x]
  BY <1>2 DEF LogInv, LogType
<1>4. LogType' /\ FreshInv' /\ WorkerInv' /\ worker'[w] = s /\ \A x \in Workers \ {w} : worker'[x] = worker[x]
  BY <1>3, WorkerMoves
<1>5. Queues' = Queues
  <2>1. \A x \in Workers : worker'[x].queue = worker[x].queue
    BY <1>4
  <2> QED
    BY <2>1, QueuesKept
<1>6. Shelf' = [x \in Holders |-> IF x[1] = "file" THEN content'[x[2]] ELSE Line(worker'[x[2]])]
  BY DEF Shelf, Holders, Files, Workers, MaxWorkers, Events, Line
<1>7. /\ DOMAIN Shelf' = Holders /\ Shelf'[h] = << >> /\ Shelf'[g] = Shelf[g] \o Shelf[h]
  BY <1>1, <1>3, <1>4, <1>6
<1>8. \A x \in Holders \ {g, h} : Shelf'[x] = Shelf[x]
  <2>1. SUFFICES ASSUME NEW x \in Holders, x # g, x # h
                 PROVE  Shelf'[x] = Shelf[x]
    OBVIOUS
  <2>2. CASE x \in {"file"} \X Files
    <3>1. x[1] = "file" /\ x[2] \in Files /\ x = <<"file", x[2]>>
      BY <2>2
    <3>2. x[2] # f
      BY <2>1, <3>1
    <3> QED
      BY <1>3, <1>6, <3>1, <3>2 DEF Shelf
  <2>3. CASE x \in {"worker"} \X Workers
    <3>1. x[1] = "worker" /\ x[2] \in Workers /\ x = <<"worker", x[2]>>
      BY <2>3
    <3>2. x[2] # w
      BY <2>1, <3>1
    <3> QED
      BY <1>4, <1>6, <3>1, <3>2 DEF Shelf
  <2> QED
    BY <2>2, <2>3 DEF Holders
<1>9. Distinct(Shelf') /\ \A d : Has(Shelf', d) <=> Has(Shelf, d)
  <2>1. Distinct(Shelf) /\ DOMAIN Shelf = Holders /\ Shelf[g] \in Seq(Events) /\ Shelf[h] \in Seq(Events)
    BY <1>1 DEF LogInv, LinesInv
  <2> HIDE DEF g, h
  <2> QED
    BY ONLY <1>1, <1>7, <1>8, <2>1, MoveDistinct
<1>10. LinesInv'
  BY <1>9 DEF LogInv, LinesInv, eventsSame, Distinct, Has
<1>11. QueueInv'
  BY <1>5 DEF LogInv, QueueInv, eventsSame, Distinct, Has
<1> QED
  BY <1>4, <1>10, <1>11 DEF LogInv

-----------------------------------------------------------------------------
(***************************************************************************)
(* The actions of the worker that no event takes part in.                  *)
(***************************************************************************)
\* The states that the steps of a worker lead to.
Packed(s, l, q) == [s EXCEPT !.buffered = l, !.pending = << >>, !.pos = q]
Flagged(s, p, f, r) == [s EXCEPT !.pc = p, !.flush = f, !.rotate = r]
Written(s, p, f, o, l, b) == [s EXCEPT !.buffered = << >>, !.pc = p, !.flush = f, !.open = o, !.lines = l, !.bytes = b]

LEMMA PackedType ==
  ASSUME NEW s \in WorkerState, NEW l \in Seq(Events), NEW q \in Nat
  PROVE  /\ Packed(s, l, q) \in WorkerState /\ Packed(s, l, q).buffered = l /\ Packed(s, l, q).pending = << >>
         /\ Packed(s, l, q).pc = s.pc /\ Packed(s, l, q).file = s.file /\ Packed(s, l, q).queue = s.queue
         /\ Packed(s, l, q).lines = s.lines /\ Packed(s, l, q).fresh = s.fresh
<1>1. << >> \in Seq(Events)
  OBVIOUS
<1> QED
  BY <1>1 DEF Packed, WorkerState

LEMMA FlaggedType ==
  ASSUME NEW s \in WorkerState, NEW f \in BOOLEAN, NEW r \in BOOLEAN, s.file \in Files,
         NEW p \in {"select", "closing", "stopped"}
  PROVE  /\ Works(Flagged(s, p, f, r)) /\ Line(Flagged(s, p, f, r)) = Line(s)
         /\ Flagged(s, p, f, r).queue = s.queue /\ Flagged(s, p, f, r).file = s.file
         /\ Flagged(s, p, f, r).fresh = s.fresh /\ Flagged(s, p, f, r).pc = p
BY DEF Flagged, WorkerState, Works, Line

LEMMA WrittenType ==
  ASSUME NEW s \in WorkerState, s.file \in Files, s.pending = << >>, NEW f \in BOOLEAN, NEW o \in BOOLEAN,
         NEW p \in {"select", "closing", "opening", "stuck"}, NEW l \in Nat, NEW b \in Nat
  PROVE  /\ Works(Written(s, p, f, o, l, b)) /\ Line(Written(s, p, f, o, l, b)) = << >>
         /\ Written(s, p, f, o, l, b).queue = s.queue /\ Written(s, p, f, o, l, b).file = s.file
         /\ Written(s, p, f, o, l, b).fresh = s.fresh /\ Written(s, p, f, o, l, b).pc = p
<1> DEFINE t == Written(s, p, f, o, l, b)
<1>1. << >> \in Seq(Events)
  OBVIOUS
<1>2. t \in WorkerState /\ t.file \in Files /\ t.buffered = << >> /\ t.pending = << >> /\ t.queue = s.queue
      /\ t.file = s.file /\ t.fresh = s.fresh /\ t.pc = p
  BY <1>1 DEF WorkerState, Written
<1>3. << >> \o << >> = << >>
  OBVIOUS
<1>4. Line(t) = << >>
  BY <1>2, <1>3 DEF Line
<1> HIDE DEF t
<1>5. Works(t)
  BY <1>2 DEF Works
<1> QED
  BY <1>2, <1>4, <1>5 DEF t

LEMMA CompressedKeeps ==
  ASSUME NEW s \in WorkerState
  PROVE  /\ Compressed(s) \in WorkerState /\ Compressed(s).buffered = Line(s) /\ Compressed(s).pending = << >>
         /\ Line(Compressed(s)) = Line(s) /\ Compressed(s).lines = s.lines /\ Compressed(s).fresh = s.fresh
         /\ Compressed(s).pc = s.pc /\ Compressed(s).file = s.file /\ Compressed(s).queue = s.queue
<1>1. s.buffered \in Seq(Events) /\ s.pending \in Seq(Events) /\ s.pos \in Nat
  BY DEF WorkerState
<1>2. Line(s) \in Seq(Events) /\ Len(s.pending) \in Nat
  BY <1>1, ConcatProperties DEF Line
<1>3. Line(s) \o << >> = Line(s)
  BY <1>2, ConcatEmptySeq
<1>4. Compressed(s) = Packed(s, Line(s), s.pos + Len(s.pending))
  BY DEF Compressed, Line, WorkerState, Packed
<1>5. s.pos + Len(s.pending) \in Nat
  BY <1>1, <1>2
<1>6. /\ Compressed(s) \in WorkerState /\ Compressed(s).buffered = Line(s) /\ Compressed(s).pending = << >>
      /\ Compressed(s).pc = s.pc /\ Compressed(s).file = s.file /\ Compressed(s).queue = s.queue
      /\ Compressed(s).lines = s.lines /\ Compressed(s).fresh = s.fresh
  <2>1. PICK l \in Seq(Events) : l = Line(s)
    BY ONLY <1>2, Zenon
  <2>2. PICK q \in Nat : q = s.pos + Len(s.pending)
    BY ONLY <1>5, Zenon
  <2>3. Compressed(s) = Packed(s, l, q)
    BY ONLY <1>4, <2>1, <2>2, Zenon
  <2>4. /\ Packed(s, l, q) \in WorkerState /\ Packed(s, l, q).buffered = l /\ Packed(s, l, q).pending = << >>
        /\ Packed(s, l, q).pc = s.pc /\ Packed(s, l, q).file = s.file /\ Packed(s, l, q).queue = s.queue
        /\ Packed(s, l, q).lines = s.lines /\ Packed(s, l, q).fresh = s.fresh
    BY PackedType, Zenon
  <2> QED
    BY ONLY <2>1, <2>3, <2>4, Zenon
<1> QED
  BY <1>3, <1>6 DEF Line

\* The worker has a file and its state is of the type.
LEMMA WorkerFacts ==
  ASSUME LogInv, NEW w \in Workers
  PROVE  worker[w] \in WorkerState /\ (worker[w].pc # "none" => Works(worker[w]))
BY DEF LogInv, LogType, WorkerInv, Works

\* Steps that change flags only.
LEMMA FlagSteps ==
  ASSUME LogInv, NEW w \in Workers,
         WorkerStops(w) \/ Rotate(w) \/ TickFlush(w) \/ TickRotate(w)
  PROVE  LogInv'
<1> USE DEF otherVars, fileVars, eventsSame, Selecting
<1> DEFINE s == worker[w]
<1>1. worker[w] \in WorkerState /\ worker[w].file \in Files /\ worker[w].pc = "select"
  BY WorkerFacts DEF Works, WorkerStops, Rotate, TickFlush, TickRotate
<1>2. UNCHANGED eventsSame /\ content' = content
  BY DEF WorkerStops, Rotate, TickFlush, TickRotate
<1>3. s.flush \in BOOLEAN /\ s.rotate \in BOOLEAN /\ (s.rotate => s.rotate = TRUE)
  BY <1>1 DEF WorkerState
<1>4. PICK p \in {"select", "closing", "stopped"}, f \in BOOLEAN, r \in BOOLEAN :
        worker' = [worker EXCEPT ![w] = Flagged(s, p, f, r)]
  <2>1. CASE WorkerStops(w)
    <3>1. worker' = [worker EXCEPT ![w] = Flagged(s, "stopped", s.flush, s.rotate)]
      BY <1>1, <2>1 DEF WorkerStops, Flagged, WorkerState
    <3> QED
      BY <1>3, <3>1
  <2>2. CASE Rotate(w)
    <3>1. worker' = [worker EXCEPT ![w] = Flagged(s, IF s.bytes = 0 THEN "select" ELSE "closing", s.flush, FALSE)]
      BY <1>1, <2>2 DEF Rotate, Flagged, WorkerState, LogInv, LogType
    <3> QED
      BY <1>3, <3>1
  <2>3. CASE TickFlush(w)
    <3>1. worker' = [worker EXCEPT ![w] = Flagged(s, "select", TRUE, s.rotate)]
      BY <1>1, <2>3 DEF TickFlush, Flagged, WorkerState
    <3> QED
      BY <1>3, <3>1
  <2>4. CASE TickRotate(w)
    <3>1. worker' = [worker EXCEPT ![w] = Flagged(s, "select", s.flush, TRUE)]
      BY <1>1, <2>4 DEF TickRotate, Flagged, WorkerState
    <3> QED
      BY <1>3, <3>1
  <2> QED
    BY <2>1, <2>2, <2>3, <2>4
<1>5. /\ Works(Flagged(s, p, f, r)) /\ Line(Flagged(s, p, f, r)) = Line(worker[w])
      /\ Flagged(s, p, f, r).queue = worker[w].queue
  BY <1>1, FlaggedType
<1>6. worker[w].pc # "none"
  BY <1>1
<1> QED
  BY <1>2, <1>4, <1>5, <1>6, WorkerKeeps

LEMMA CloseFailsKeeps ==
  ASSUME LogInv, NEW w \in Workers, CloseFails(w)
  PROVE  LogInv'
<1>1. worker[w] \in WorkerState /\ worker[w].file \in Files /\ worker[w].pc = "closing"
  BY WorkerFacts DEF Works, CloseFails
<1>2. UNCHANGED eventsSame /\ content' = content /\ worker' = [worker EXCEPT ![w] = Compressed(worker[w])]
  BY DEF CloseFails, otherVars, fileVars, eventsSame
<1>3. Works(Compressed(worker[w])) /\ Line(Compressed(worker[w])) = Line(worker[w])
      /\ Compressed(worker[w]).queue = worker[w].queue
  BY <1>1, CompressedKeeps DEF Works
<1> QED
  BY <1>1, <1>2, <1>3, WorkerKeeps

LEMMA CloseKeeps ==
  ASSUME LogInv, NEW w \in Workers, Close(w) \/ ArchiveFails(w)
  PROVE  LogInv'
<1> DEFINE t == Compressed(worker[w])
           f == worker[w].file
<1>1. worker[w] \in WorkerState
  BY WorkerFacts
<1>2. /\ t \in WorkerState /\ t.buffered = Line(worker[w]) /\ t.pending = << >>
      /\ t.pc = worker[w].pc /\ t.file = f /\ t.queue = worker[w].queue
  BY <1>1, CompressedKeeps
<1>3. t.pc = "closing" /\ content' = [content EXCEPT ![t.file] = content[t.file] \o t.buffered] /\ UNCHANGED eventsSame
  BY DEF Close, ArchiveFails, otherVars, fileVars, eventsSame
<1>4. f \in Files /\ worker[w].pc # "none"
  BY <1>2, <1>3, WorkerFacts DEF Works
<1>5. \/ worker' = [worker EXCEPT ![w] = [t EXCEPT !.buffered = << >>, !.open = FALSE, !.pc = "opening", !.lines = 0, !.bytes = 0]]
      \/ worker' = [worker EXCEPT ![w] = [t EXCEPT !.buffered = << >>, !.open = FALSE]]
      \/ worker' = [worker EXCEPT ![w] = [t EXCEPT !.buffered = << >>, !.pc = "stuck"]]
  BY DEF Close, ArchiveFails
<1> HIDE DEF t
<1>6. t.open \in BOOLEAN /\ t.flush \in BOOLEAN /\ t.lines \in Nat /\ t.bytes \in Nat
  BY <1>2 DEF WorkerState
<1>7. PICK p \in {"select", "closing", "opening", "stuck"}, o \in BOOLEAN, l \in Nat, b \in Nat :
        worker' = [worker EXCEPT ![w] = Written(t, p, t.flush, o, l, b)]
  <2>1. [t EXCEPT !.buffered = << >>, !.open = FALSE, !.pc = "opening", !.lines = 0, !.bytes = 0]
          = Written(t, "opening", t.flush, FALSE, 0, 0)
    BY <1>2 DEF WorkerState, Written
  <2>2. [t EXCEPT !.buffered = << >>, !.open = FALSE] = Written(t, "closing", t.flush, FALSE, t.lines, t.bytes)
    BY <1>2, <1>3 DEF WorkerState, Written
  <2>3. [t EXCEPT !.buffered = << >>, !.pc = "stuck"] = Written(t, "stuck", t.flush, t.open, t.lines, t.bytes)
    BY <1>2 DEF WorkerState, Written
  <2>4. \/ worker' = [worker EXCEPT ![w] = Written(t, "opening", t.flush, FALSE, 0, 0)]
        \/ worker' = [worker EXCEPT ![w] = Written(t, "closing", t.flush, FALSE, t.lines, t.bytes)]
        \/ worker' = [worker EXCEPT ![w] = Written(t, "stuck", t.flush, t.open, t.lines, t.bytes)]
    BY <1>5, <2>1, <2>2, <2>3
  <2> QED
    BY <1>6, <2>4
<1>8. /\ Works(Written(t, p, t.flush, o, l, b)) /\ Line(Written(t, p, t.flush, o, l, b)) = << >>
      /\ Written(t, p, t.flush, o, l, b).queue = worker[w].queue
  <2>1. t.file \in Files
    BY <1>2, <1>4
  <2>2. \A x \in WorkerState : x.file \in Files /\ x.pending = << >> /\ x.flush \in BOOLEAN =>
          /\ Works(Written(x, p, x.flush, o, l, b)) /\ Line(Written(x, p, x.flush, o, l, b)) = << >>
          /\ Written(x, p, x.flush, o, l, b).queue = x.queue
    BY ONLY WrittenType, p \in {"select", "closing", "opening", "stuck"}, o \in BOOLEAN, l \in Nat, b \in Nat
  <2> QED
    BY <1>2, <1>6, <2>1, <2>2
<1>9. content' = [content EXCEPT ![f] = content[f] \o Line(worker[w])]
  BY <1>2, <1>3
<1> HIDE DEF f
<1> QED
  BY <1>3, <1>4, <1>7, <1>8, <1>9, WorkerWrites

LEMMA FlushKeeps ==
  ASSUME LogInv, NEW w \in Workers, Flush(w)
  PROVE  LogInv'
<1> DEFINE u == [worker[w] EXCEPT !.flush = FALSE]
           s == Compressed(u)
           f == worker[w].file
<1>1. worker[w] \in WorkerState /\ worker[w].pc = "select" /\ worker[w].file \in Files
  BY WorkerFacts DEF Flush, Selecting, Works
<1>2. UNCHANGED eventsSame
  BY DEF Flush, otherVars, eventsSame
<1>3. /\ u \in WorkerState /\ u.file = f /\ u.queue = worker[w].queue /\ u.pc = "select"
      /\ u.buffered = worker[w].buffered /\ u.pending = worker[w].pending
  BY <1>1 DEF WorkerState
<1>4. Line(u) = Line(worker[w])
  BY <1>3 DEF Line
<1>5. \/ worker' = [worker EXCEPT ![w] = u] /\ content' = content
      \/ worker' = [worker EXCEPT ![w] = s] /\ content' = content
      \/ /\ content' = [content EXCEPT ![s.file] = content[s.file] \o s.buffered]
         /\ worker' = [worker EXCEPT ![w] = [s EXCEPT !.buffered = << >>, !.lines = 0]]
  BY DEF Flush
<1> HIDE DEF u
<1>6. /\ s \in WorkerState /\ s.buffered = Line(worker[w]) /\ s.pending = << >> /\ Line(s) = Line(worker[w])
      /\ s.pc = "select" /\ s.file = f /\ s.queue = worker[w].queue
  BY <1>3, <1>4, CompressedKeeps
<1> HIDE DEF s
<1>7. Works(u) /\ Works(s)
  BY <1>1, <1>3, <1>6 DEF Works
<1>8. CASE worker' = [worker EXCEPT ![w] = u] /\ content' = content
  BY <1>1, <1>2, <1>3, <1>4, <1>7, <1>8, WorkerKeeps
<1>9. CASE worker' = [worker EXCEPT ![w] = s] /\ content' = content
  BY <1>1, <1>2, <1>6, <1>7, <1>9, WorkerKeeps
<1>10. CASE /\ content' = [content EXCEPT ![s.file] = content[s.file] \o s.buffered]
            /\ worker' = [worker EXCEPT ![w] = [s EXCEPT !.buffered = << >>, !.lines = 0]]
  <2>1. [s EXCEPT !.buffered = << >>, !.lines = 0] = Written(s, "select", s.flush, s.open, 0, s.bytes)
    BY <1>6 DEF WorkerState, Written
  <2>2. s.flush \in BOOLEAN /\ s.open \in BOOLEAN /\ s.bytes \in Nat /\ s.file \in Files
    BY <1>1, <1>6 DEF WorkerState
  <2>3. PICK v : v = Written(s, "select", s.flush, s.open, 0, s.bytes)
    OBVIOUS
  <2>4. Works(v) /\ Line(v) = << >> /\ v.queue = worker[w].queue
    <3>1. /\ Works(Written(s, "select", s.flush, s.open, 0, s.bytes))
          /\ Line(Written(s, "select", s.flush, s.open, 0, s.bytes)) = << >>
          /\ Written(s, "select", s.flush, s.open, 0, s.bytes).queue = s.queue
      BY <1>6, <2>2, WrittenType
    <3> QED
      BY <1>6, <2>3, <3>1
  <2>5. worker' = [worker EXCEPT ![w] = v]
    BY <1>10, <2>1, <2>3
  <2>6. content' = [content EXCEPT ![f] = content[f] \o Line(worker[w])]
    BY <1>6, <1>10
  <2>7. f \in Files /\ worker[w].pc # "none"
    BY <1>1
  <2> HIDE DEF f
  <2> QED
    BY <1>2, <2>4, <2>5, <2>6, <2>7, WorkerWrites
<1> QED
  BY <1>5, <1>8, <1>9, <1>10

Opened(s, f) ==
  [s EXCEPT !.pc = "select", !.file = f, !.open = TRUE, !.buffered = << >>, !.pending = << >>,
            !.fresh = TRUE, !.pos = 0]

LEMMA ReopenKeeps ==
  ASSUME LogInv, NEW w \in Workers, Reopen(w)
  PROVE  LogInv'
<1> DEFINE s == worker[w]
<1>1. worker[w] \in WorkerState /\ worker[w].pc = "opening" /\ worker[w].buffered = << >> /\ worker[w].pending = << >>
  BY WorkerFacts DEF Reopen, Works
<1>2. UNCHANGED eventsSame /\ content' = content
  BY DEF Reopen, otherVars, eventsSame
<1>3. PICK f \in Files : worker' = [worker EXCEPT ![w] = Opened(s, f)]
  <2>1. PICK f \in Files :
          worker' = [worker EXCEPT ![w].pc = "select", ![w].file = f, ![w].open = TRUE, ![w].buffered = << >>,
                                   ![w].pending = << >>, ![w].fresh = TRUE, ![w].pos = 0]
    BY DEF Reopen
  <2>2. worker \in [Workers -> WorkerState]
    BY DEF LogInv, LogType
  <2>3. worker' = [worker EXCEPT ![w] = Opened(s, f)]
    BY <2>1, <2>2 DEF Opened
  <2> QED
    BY <2>3
<1>4. << >> \in Seq(Events)
  OBVIOUS
<1>5. /\ Opened(s, f) \in WorkerState /\ Opened(s, f).pc = "select" /\ Opened(s, f).file = f
      /\ Opened(s, f).buffered = << >> /\ Opened(s, f).pending = << >> /\ Opened(s, f).queue = worker[w].queue
  BY <1>1, <1>4 DEF Opened, WorkerState
<1>6. Works(Opened(s, f)) /\ Line(Opened(s, f)) = Line(worker[w])
  BY <1>1, <1>5 DEF Works, Line
<1> QED
  BY <1>1, <1>2, <1>3, <1>5, <1>6, WorkerKeeps

-----------------------------------------------------------------------------
(***************************************************************************)
(* The steps that events and workers take together.                        *)
(***************************************************************************)
\* A worker that Create makes, also the second of a source, has nothing.
Created(f) == [NoWorker EXCEPT !.pc = "select", !.file = f, !.open = TRUE]

LEMMA CreateKeeps ==
  ASSUME LogInv, NEW e \in Events, Create(e)
  PROVE  LogInv'
<1> DEFINE n == nworkers + 1
<1>1. PICK f \in Files : worker' = [worker EXCEPT ![n] = Created(f)]
  BY DEF Create, Created
<1>2. nworkers \in Nat /\ worker \in [Workers -> WorkerState] /\ nworkers' = n
  BY DEF LogInv, LogType, Create
<1>3. << >> \in Seq(Events)
  OBVIOUS
<1>4. /\ Created(f) \in WorkerState /\ Created(f).pc = "select" /\ Created(f).file = f /\ Created(f).queue = << >>
      /\ Created(f).buffered = << >> /\ Created(f).pending = << >>
  BY <1>3 DEF Created, NoWorker, WorkerState
<1>5. worker' \in [Workers -> WorkerState] /\ \A x \in Workers : worker'[x] = IF x = n THEN Created(f) ELSE worker[x]
  BY <1>1, <1>2, <1>4
<1>6. n \in Workers => worker[n] = NoWorker
  BY <1>2 DEF LogInv, WorkerInv
<1>7. UNCHANGED <<request, result, content>>
  BY DEF Create
<1>8. LogType'
  <2>1. event' \in [Events -> {"new", "check", "load", "flight", "join", "create", "send", "wait", "done"}]
    BY DEF LogInv, LogType, Create
  <2>2. current' \in 0..nworkers'
    BY <1>2 DEF Create
  <2>3. target' \in [Events -> 0..nworkers']
    <3>1. target' = [d \in Events |-> IF d \in Joined(e) THEN n ELSE target[d]]
      BY DEF Create
    <3>2. n \in 0..n /\ \A d \in Events : target[d] \in 0..n
      BY <1>2 DEF LogInv, LogType
    <3> HIDE DEF n
    <3> QED
      BY <1>2, <3>1, <3>2
  <2> QED
    BY <1>2, <1>5, <1>7, <2>1, <2>2, <2>3 DEF LogInv, LogType
<1>9. \A x \in Workers : worker'[x].queue = worker[x].queue
  BY <1>4, <1>5, <1>6 DEF NoWorker
<1>10. \A x \in Workers : Line(worker'[x]) = Line(worker[x])
  <2>1. \A x \in Workers : worker'[x].buffered = worker[x].buffered /\ worker'[x].pending = worker[x].pending
    BY <1>4, <1>5, <1>6 DEF NoWorker
  <2> QED
    BY <2>1 DEF Line
<1>11. Shelf' = Shelf /\ Queues' = Queues
  BY <1>7, <1>8, <1>9, <1>10, ShelfKept, QueuesKept DEF LogInv
<1>12. \A d \in Events : event[d] \in {"new", "wait", "done"} => event'[d] = event[d]
  BY DEF LogInv, LogType, Create, Joined
<1>13. LinesInv' /\ QueueInv'
  BY <1>7, <1>11, <1>12, EventsKept
<1>14. FreshInv'
  BY <1>7, <1>12, FreshKept DEF LogInv
<1>15. WorkerInv'
  <2>1. \A x \in Workers : /\ x > n => worker'[x] = NoWorker
                           /\ worker'[x].pc # "none" => worker'[x].file \in Files
                           /\ worker'[x].pc = "opening" => worker'[x].buffered = << >> /\ worker'[x].pending = << >>
    <3>1. \A x \in Workers : x > n => x > nworkers /\ x # n
      BY <1>2 DEF Workers
    <3> QED
      BY <1>4, <1>5, <3>1 DEF LogInv, WorkerInv
  <2> QED
    BY <1>2, <2>1 DEF WorkerInv
<1> QED
  BY <1>8, <1>13, <1>14, <1>15 DEF LogInv

\* The worker that Load or the flight found gets the event.
LEMMA SendKeeps ==
  ASSUME LogInv, NEW e \in Events, Send(e)
  PROVE  LogInv'
<1> DEFINE w == target[e]
           s == [worker[w] EXCEPT !.queue = Append(worker[w].queue, e)]
<1>1. /\ event[e] = "send" /\ event' = [event EXCEPT ![e] = "wait"] /\ worker' = [worker EXCEPT ![w] = s]
      /\ UNCHANGED <<content, request, result, target, current, nworkers>>
  BY DEF Send, fileVars
<1>2. worker \in [Workers -> WorkerState] /\ event' \in [Events -> {"new", "check", "load", "flight", "join", "create", "send", "wait", "done"}]
      /\ \A d \in Events : event'[d] = IF d = e THEN "wait" ELSE event[d]
  BY <1>1 DEF LogInv, LogType
<1>3. w \in Workers =>
        /\ s \in WorkerState /\ s.queue = Append(worker[w].queue, e) /\ s.buffered = worker[w].buffered
        /\ s.pending = worker[w].pending /\ s.pc = worker[w].pc /\ s.file = worker[w].file
  <2>1. ASSUME w \in Workers PROVE worker[w] \in WorkerState /\ Append(worker[w].queue, e) \in Seq(Events)
    BY <1>2, <2>1 DEF WorkerState
  <2>2. \A x \in WorkerState : \A q \in Seq(Events) :
          LET t == [x EXCEPT !.queue = q]
          IN t \in WorkerState /\ t.queue = q /\ t.buffered = x.buffered /\ t.pending = x.pending /\ t.pc = x.pc /\ t.file = x.file
    BY DEF WorkerState
  <2> QED
    BY <2>1, <2>2
<1> HIDE DEF s
<1>4. worker' \in [Workers -> WorkerState] /\ \A x \in Workers : worker'[x] = IF x = w THEN s ELSE worker[x]
  BY <1>1, <1>2, <1>3
<1>5. LogType'
  BY <1>1, <1>2, <1>4 DEF LogInv, LogType
<1>6. Shelf' = Shelf
  <2>1. \A x \in Workers : worker'[x].buffered = worker[x].buffered /\ worker'[x].pending = worker[x].pending
    BY <1>3, <1>4
  <2>2. \A x \in Workers : Line(worker'[x]) = Line(worker[x])
    BY <2>1 DEF Line
  <2> QED
    BY <1>1, <1>5, <2>2, ShelfKept DEF LogInv
<1>7. LinesInv'
  BY <1>1, <1>2, <1>6 DEF LogInv, LinesInv, Has, Distinct
<1>8. QueueInv'
  <2>1. Queues \in [Workers -> Seq(Events)] /\ Queues' = [x \in Workers |-> worker'[x].queue]
        /\ \A x \in Workers : Queues[x] = worker[x].queue
    BY ShelfType DEF LogInv, Queues, Workers, MaxWorkers, Events
  <2>2. Queues' \in [Workers -> Seq(Events)]
    BY <1>4, <2>1 DEF WorkerState
  <2>3. ~ Has(Queues, e)
    BY <1>1 DEF LogInv, QueueInv
  <2>4. CASE w \in Workers
    <3>1. DOMAIN Queues' = Workers /\ DOMAIN Queues = Workers /\ Queues[w] \in Seq(Events)
          /\ Queues'[w] = Append(Queues[w], e) /\ \A x \in Workers \ {w} : Queues'[x] = Queues[x]
      BY <1>3, <1>4, <2>1, <2>4
    <3>2. Distinct(Queues)
      BY DEF LogInv, QueueInv
    <3>3. Distinct(Queues') /\ \A d : Has(Queues', d) <=> (Has(Queues, d) \/ d = e)
      <4> HIDE DEF w
      <4> QED
        BY ONLY <2>3, <2>4, <3>1, <3>2, e \in Events, AppendDistinct
    <3>4. \A d \in Events : Has(Queues', d) => event'[d] = "wait"
      BY <1>2, <3>3 DEF LogInv, QueueInv
    <3> QED
      BY <3>3, <3>4 DEF QueueInv, Distinct, Has
  <2>5. CASE w \notin Workers
    <3>1. Queues' = Queues
      BY <1>4, <2>1, <2>5
    <3>2. \A d \in Events : Has(Queues, d) => event'[d] = "wait"
      BY <1>2 DEF LogInv, QueueInv
    <3> QED
      BY <3>1, <3>2 DEF LogInv, QueueInv, Distinct, Has
  <2> QED
    BY <2>4, <2>5
<1>9. FreshInv'
  BY <1>1, <1>2, FreshKept DEF LogInv
<1>10. WorkerInv'
  <2>1. w \in 0..nworkers /\ nworkers \in Nat
    BY DEF LogInv, LogType
  <2>2. \A x \in Workers : x > nworkers => x # w
    BY <2>1
  <2>3. \A x \in Workers : /\ x > nworkers' => worker'[x] = NoWorker
                           /\ worker'[x].pc # "none" => worker'[x].file \in Files
                           /\ worker'[x].pc = "opening" => worker'[x].buffered = << >> /\ worker'[x].pending = << >>
    BY <1>1, <1>3, <1>4, <2>2 DEF LogInv, WorkerInv
  <2> QED
    BY <2>3 DEF WorkerInv
<1> QED
  BY <1>5, <1>7, <1>8, <1>9, <1>10 DEF LogInv

LEMMA AppendLast ==
  ASSUME NEW E, NEW b \in Seq(E), NEW p \in Seq(E), NEW e \in E
  PROVE  b \o Append(p, e) = Append(b \o p, e) /\ Append(p, e) \in Seq(E)
<1>1. Append(p, e) = p \o <<e>> /\ <<e>> \in Seq(E) /\ Append(p, e) \in Seq(E)
  BY AppendIsConcat
<1>2. b \o (p \o <<e>>) = (b \o p) \o <<e>>
  BY ONLY <1>1, ConcatAssociative, b \in Seq(E), p \in Seq(E)
<1>3. b \o p \in Seq(E)
  BY ConcatProperties
<1>4. Append(b \o p, e) = (b \o p) \o <<e>>
  BY ONLY <1>3, AppendIsConcat, e \in E
<1> QED
  BY ONLY <1>1, <1>2, <1>4

\* The states of a worker that has written a line, before and after it counts.
Taken(s, q, p, o) == [s EXCEPT !.queue = q, !.pending = p, !.fresh = FALSE, !.pos = o]
Tallied(t, l, b, a, r, f) == [t EXCEPT !.lines = l, !.bytes = b, !.last = a, !.rotate = r, !.flush = f]

LEMMA TakenType ==
  ASSUME NEW s \in WorkerState, NEW q \in Seq(Events), NEW p \in Seq(Events), NEW o \in Nat
  PROVE  /\ Taken(s, q, p, o) \in WorkerState /\ Taken(s, q, p, o).queue = q /\ Taken(s, q, p, o).pending = p
         /\ Taken(s, q, p, o).buffered = s.buffered /\ Taken(s, q, p, o).pc = s.pc /\ Taken(s, q, p, o).file = s.file
BY DEF Taken, WorkerState

LEMMA TakenBegins ==
  ASSUME NEW s \in WorkerState, NEW q, NEW p, NEW o
  PROVE  Taken(s, q, p, o).fresh = FALSE
BY DEF Taken, WorkerState

LEMMA TalliedType ==
  ASSUME NEW t \in WorkerState, NEW l \in Nat, NEW b \in Nat, NEW a \in Nat, NEW r \in BOOLEAN, NEW f \in BOOLEAN
  PROVE  LET u == Tallied(t, l, b, a, r, f)
         IN /\ u \in WorkerState /\ u.queue = t.queue /\ u.pending = t.pending
            /\ u.buffered = t.buffered /\ u.pc = t.pc /\ u.file = t.file /\ u.fresh = t.fresh
BY DEF Tallied, WorkerState

LEMMA CountedKeeps ==
  ASSUME NEW t \in WorkerState
  PROVE  /\ Counted(t) \in WorkerState /\ Counted(t).queue = t.queue /\ Line(Counted(t)) = Line(t)
         /\ Counted(t).pc = t.pc /\ Counted(t).file = t.file /\ Counted(t).fresh = t.fresh
<1> DEFINE bytes == (t.bytes + (Wrap + t.pos - t.last)) % Wrap
           full == bytes > MaxSize
           rotate == t.rotate \/ full
           flush == t.flush \/ (~ full /\ t.lines + 1 > MaxLines)
<1>1. t.bytes \in Nat /\ t.pos \in Nat /\ t.last \in Nat /\ t.lines \in Nat
  BY DEF WorkerState
<1>2. Wrap \in Nat /\ Wrap > 0
  BY LogAssumption
<1>3. bytes \in Nat
  BY <1>1, <1>2
<1>4. t.lines + 1 \in Nat
  BY <1>1
<1>5. rotate \in BOOLEAN /\ flush \in BOOLEAN
  BY DEF WorkerState
<1>6. Counted(t) = Tallied(t, t.lines + 1, bytes, t.pos, rotate, flush)
  BY DEF Counted, Tallied
<1> HIDE DEF bytes, rotate, flush
<1>7. \A l \in Nat, b \in Nat, a \in Nat, r \in BOOLEAN, f \in BOOLEAN :
        /\ Tallied(t, l, b, a, r, f) \in WorkerState /\ Tallied(t, l, b, a, r, f).queue = t.queue
        /\ Tallied(t, l, b, a, r, f).pending = t.pending /\ Tallied(t, l, b, a, r, f).buffered = t.buffered
        /\ Tallied(t, l, b, a, r, f).pc = t.pc /\ Tallied(t, l, b, a, r, f).file = t.file
        /\ Tallied(t, l, b, a, r, f).fresh = t.fresh
  BY ONLY TalliedType, t \in WorkerState
<1>8. /\ Counted(t) \in WorkerState /\ Counted(t).queue = t.queue /\ Counted(t).pending = t.pending
      /\ Counted(t).buffered = t.buffered /\ Counted(t).pc = t.pc /\ Counted(t).file = t.file
      /\ Counted(t).fresh = t.fresh
  <2>1. PICK l \in Nat, b \in Nat, a \in Nat, r \in BOOLEAN, f \in BOOLEAN : Counted(t) = Tallied(t, l, b, a, r, f)
    BY ONLY <1>1, <1>3, <1>4, <1>5, <1>6, Zenon
  <2> QED
    BY ONLY <1>7, <2>1, l \in Nat, b \in Nat, a \in Nat, r \in BOOLEAN, f \in BOOLEAN
<1> QED
  BY <1>8 DEF Line

LEMMA WritesKeeps ==
  ASSUME NEW s \in WorkerState, s.queue # << >>, NEW t \in Writes(s, Head(s.queue))
  PROVE  /\ t \in WorkerState /\ t.queue = Tail(s.queue) /\ Line(t) = Append(Line(s), Head(s.queue))
         /\ t.pc = s.pc /\ t.file = s.file /\ Head(s.queue) \in Events /\ t.fresh = FALSE
<1> DEFINE e == Head(s.queue)
           q == Tail(s.queue)
           p == Append(s.pending, e)
           o == IF s.fresh THEN s.pos + 1 ELSE s.pos
           u == Taken(s, q, p, o)
<1>1. s.buffered \in Seq(Events) /\ s.pending \in Seq(Events) /\ s.queue \in Seq(Events) /\ s.pos \in Nat
  BY DEF WorkerState
<1>2. e \in Events /\ q \in Seq(Events)
  BY <1>1
<1>3. o \in Nat
  BY <1>1
<1>4. p \in Seq(Events) /\ s.buffered \o p = Append(Line(s), e)
  <2> HIDE DEF e
  <2>1. \A b, x \in Seq(Events) : b \o Append(x, e) = Append(b \o x, e) /\ Append(x, e) \in Seq(Events)
    BY ONLY <1>2, AppendLast
  <2> QED
    BY ONLY <1>1, <2>1 DEF Line, p
<1>5. t = u \/ t = Compressed(u)
  BY DEF Writes, Taken
<1> HIDE DEF q, p, o, e
<1>6. /\ u \in WorkerState /\ u.queue = q /\ u.pending = p
      /\ u.buffered = s.buffered /\ u.pc = s.pc /\ u.file = s.file
  BY <1>2, <1>3, <1>4, TakenType
<1>10. u.fresh = FALSE
  BY TakenBegins, Zenon
<1> HIDE DEF u
<1>7. Line(u) = Append(Line(s), e)
  BY <1>4, <1>6 DEF Line
<1>8. /\ Compressed(u) \in WorkerState /\ Line(Compressed(u)) = Line(u)
      /\ Compressed(u).pc = u.pc /\ Compressed(u).file = u.file /\ Compressed(u).queue = u.queue
      /\ Compressed(u).fresh = u.fresh
  BY <1>6, CompressedKeeps
<1>9. /\ t \in WorkerState /\ t.queue = q /\ Line(t) = Append(Line(s), e) /\ t.pc = s.pc /\ t.file = s.file
      /\ t.fresh = FALSE
  BY <1>5, <1>6, <1>7, <1>8, <1>10
<1> QED
  BY <1>2, <1>9 DEF e, q

\* The line leaves the queue for the compressor, and process is answered.
LEMMA ReceiveKeeps ==
  ASSUME LogInv, NEW w \in Workers, Receive(w)
  PROVE  LogInv'
<1> DEFINE s == worker[w]
           e == Head(s.queue)
<1>1. worker[w] \in WorkerState /\ worker[w].pc = "select" /\ worker[w].file \in Files /\ worker[w].queue # << >>
  BY WorkerFacts DEF Receive, Selecting, Works
<1>2. PICK t \in Writes(s, e) : worker' = [worker EXCEPT ![w] = Counted(t)]
  BY DEF Receive
<1>3. /\ t \in WorkerState /\ t.queue = Tail(s.queue) /\ Line(t) = Append(Line(s), e)
      /\ t.pc = s.pc /\ t.file = s.file /\ e \in Events
  BY <1>1, <1>2, WritesKeeps
<1>4. /\ Counted(t) \in WorkerState /\ Counted(t).queue = Tail(s.queue) /\ Line(Counted(t)) = Append(Line(s), e)
      /\ Counted(t).pc = s.pc /\ Counted(t).file = s.file
  BY <1>3, CountedKeeps
<1>5. /\ event' = [d \in Events |-> IF d = e THEN "done" ELSE event[d]]
      /\ result' = [d \in Events |-> IF d = e THEN "ok" ELSE result[d]]
      /\ UNCHANGED <<content, request, nworkers, target, current>>
  BY DEF Receive, Returned, otherVars, fileVars
<1>6. PICK u : u = Counted(t)
  OBVIOUS
<1>7. worker' \in [Workers -> WorkerState] /\ \A x \in Workers : worker'[x] = IF x = w THEN u ELSE worker[x]
  BY <1>2, <1>4, <1>6 DEF LogInv, LogType
<1>8. LogType'
  <2>1. /\ event' \in [Events -> {"new", "check", "load", "flight", "join", "create", "send", "wait", "done"}]
        /\ result' \in [Events -> {"none", "ok", "failed", "terminating"}]
    BY <1>5 DEF LogInv, LogType
  <2> QED
    BY <1>5, <1>7, <2>1 DEF LogInv, LogType
<1>9. /\ Shelf \in [Holders -> Seq(Events)] /\ Queues \in [Workers -> Seq(Events)]
      /\ \A x \in Workers : <<"worker", x>> \in Holders /\ Shelf[<<"worker", x>>] = Line(worker[x]) /\ Queues[x] = worker[x].queue
  BY ShelfType DEF LogInv
<1>10. Queues' = [x \in Workers |-> worker'[x].queue]
  BY DEF Queues, Workers, MaxWorkers, Events
<1>11. DOMAIN Queues' = Workers /\ DOMAIN Queues = Workers /\ Queues[w] \in Seq(Events) /\ Queues[w] # << >>
       /\ Queues'[w] = Tail(Queues[w]) /\ \A x \in Workers \ {w} : Queues'[x] = Queues[x]
  BY <1>1, <1>4, <1>6, <1>7, <1>9, <1>10
<1>12. Distinct(Queues') /\ Has(Queues, e) /\ \A d : Has(Queues', d) => Has(Queues, d) /\ d # e
  <2>1. Distinct(Queues) /\ e = Head(Queues[w])
    BY <1>9 DEF LogInv, QueueInv
  <2> HIDE DEF e
  <2> QED
    BY ONLY <1>11, <2>1, w \in Workers, TailDistinct
<1>13. QueueInv'
  <2>1. \A d \in Events : Has(Queues', d) => event'[d] = "wait"
    BY <1>5, <1>12 DEF LogInv, QueueInv
  <2> QED
    BY <1>12, <2>1 DEF QueueInv, Distinct, Has
<1>14. event[e] = "wait" /\ ~ Has(Shelf, e)
  BY <1>3, <1>12 DEF LogInv, QueueInv, LinesInv
<1> DEFINE h == <<"worker", w>>
<1>15. Shelf' = [x \in Holders |-> IF x[1] = "file" THEN content'[x[2]] ELSE Line(worker'[x[2]])]
  BY DEF Shelf, Holders, Files, Workers, MaxWorkers, Events, Line
<1>16. DOMAIN Shelf' = Holders /\ DOMAIN Shelf = Holders /\ h \in Holders /\ Shelf[h] \in Seq(Events)
       /\ Shelf'[h] = Append(Shelf[h], e)
  BY <1>4, <1>6, <1>7, <1>9, <1>15
<1>17. \A x \in Holders \ {h} : Shelf'[x] = Shelf[x]
  <2>1. SUFFICES ASSUME NEW x \in Holders, x # h
                 PROVE  Shelf'[x] = Shelf[x]
    OBVIOUS
  <2>2. CASE x \in {"file"} \X Files
    <3>1. x[1] = "file"
      BY <2>2
    <3> QED
      BY <1>5, <1>15, <3>1 DEF Shelf
  <2>3. CASE x \in {"worker"} \X Workers
    <3>1. x[1] = "worker" /\ x[2] \in Workers /\ x = <<"worker", x[2]>>
      BY <2>3
    <3>2. x[2] # w
      BY <2>1, <3>1
    <3> QED
      BY <1>7, <1>15, <3>1, <3>2 DEF Shelf
  <2> QED
    BY <2>2, <2>3 DEF Holders
<1>18. Distinct(Shelf') /\ \A d : Has(Shelf', d) <=> (Has(Shelf, d) \/ d = e)
  <2>1. Distinct(Shelf)
    BY DEF LogInv, LinesInv
  <2> HIDE DEF e, h
  <2> QED
    BY ONLY <1>3, <1>14, <1>16, <1>17, <2>1, AppendDistinct
<1>19. LinesInv'
  <2>1. \A d \in Events : (Has(Shelf', d) <=> result'[d] = "ok") /\ (result'[d] = "ok" => event'[d] = "done")
    BY <1>5, <1>18 DEF LogInv, LinesInv
  <2> QED
    BY <1>18, <2>1 DEF LinesInv, Distinct, Has
<1>20. FreshInv'
  <2>1. \A d \in Events : event[d] = "new" => event'[d] = "new"
    BY <1>5, <1>14
  <2> QED
    BY <1>5, <2>1, FreshKept DEF LogInv
<1>21. WorkerInv'
  <2>1. ~ (w > nworkers)
    BY <1>1 DEF LogInv, WorkerInv, NoWorker
  <2>2. \A x \in Workers : /\ x > nworkers' => worker'[x] = NoWorker
                           /\ worker'[x].pc # "none" => worker'[x].file \in Files
                           /\ worker'[x].pc = "opening" => worker'[x].buffered = << >> /\ worker'[x].pending = << >>
    BY <1>1, <1>4, <1>5, <1>6, <1>7, <2>1 DEF LogInv, WorkerInv
  <2> QED
    BY <2>2 DEF WorkerInv
<1> QED
  BY <1>8, <1>13, <1>19, <1>20, <1>21 DEF LogInv

-----------------------------------------------------------------------------
LEMMA LogInit ==
  ASSUME Init
  PROVE  LogInv
<1>1. << >> \in Seq(Events) /\ NoWorker \in WorkerState
  BY DEF NoWorker, WorkerState
<1>2. LogType
  BY <1>1 DEF Init, LogType
<1>3. \A w \in Workers : worker[w] = NoWorker
  BY DEF Init
<1>4. \A w \in Workers : Line(worker[w]) = << >> /\ worker[w].queue = << >>
  BY <1>3 DEF NoWorker, Line
<1>5. \A h \in Holders : Shelf[h] = << >>
  <2>1. \A h \in Holders : (h[1] = "file" /\ h[2] \in Files) \/ (h[1] = "worker" /\ h[2] \in Workers)
    BY DEF Holders
  <2> QED
    BY <1>4, <2>1 DEF Shelf, Init
<1>6. DOMAIN Shelf = Holders /\ DOMAIN Queues = Workers /\ \A w \in Workers : Queues[w] = << >>
  BY <1>4 DEF Shelf, Queues
<1>7. LinesInv
  BY <1>5, <1>6 DEF Init, LinesInv, Distinct, Has
<1>8. QueueInv
  BY <1>6 DEF QueueInv, Distinct, Has
<1>9. FreshInv
  BY DEF Init, FreshInv, Events
<1>10. WorkerInv
  BY <1>3 DEF WorkerInv, NoWorker
<1> QED
  BY <1>2, <1>7, <1>8, <1>9, <1>10 DEF LogInv

LEMMA LogNext ==
  ASSUME LogInv, Next
  PROVE  LogInv'
<1>1. ASSUME NEW r \in Requests, Handle(r) PROVE LogInv'
  BY <1>1, HandleKeeps
<1>2. ASSUME NEW e \in Events, Process(e) PROVE LogInv'
  <2>1. CASE Create(e)
    BY <2>1, CreateKeeps
  <2>2. CASE Send(e)
    BY <2>2, SendKeeps
  <2>3. CASE Check(e) \/ Load(e) \/ Flight(e) \/ CreateFails(e)
    BY <2>3, QuietSteps
  <2> QED
    BY <1>2, <2>1, <2>2, <2>3 DEF Process
<1>3. CASE Cancel \/ Terminate \/ Second
  BY <1>3, QuietSteps
<1>4. ASSUME NEW w \in Workers,
             WorkerStops(w) \/ Receive(w) \/ Flush(w) \/ Rotate(w) \/ Rotation(w) \/ Ticker(w)
      PROVE  LogInv'
  <2>1. CASE WorkerStops(w) \/ Rotate(w) \/ Ticker(w)
    BY <2>1, FlagSteps DEF Ticker
  <2>2. CASE Receive(w)
    BY <2>2, ReceiveKeeps
  <2>3. CASE Flush(w)
    BY <2>3, FlushKeeps
  <2>4. CASE Close(w) \/ ArchiveFails(w)
    BY <2>4, CloseKeeps
  <2>5. CASE CloseFails(w)
    BY <2>5, CloseFailsKeeps
  <2>6. CASE Reopen(w)
    BY <2>6, ReopenKeeps
  <2>7. CASE CloseAgain(w) \/ ReopenFails(w)
    BY <2>7, QuietSteps
  <2> QED
    BY <1>4, <2>1, <2>2, <2>3, <2>4, <2>5, <2>6, <2>7 DEF Rotation
<1> QED
  BY <1>1, <1>2, <1>3, <1>4 DEF Next

LEMMA LogStutter ==
  ASSUME LogInv, UNCHANGED vars
  PROVE  LogInv'
<1>1. UNCHANGED <<worker, content, nworkers, request, result, event, target, current>>
  BY DEF vars, eventVars, fileVars
<1>2. LogType'
  BY <1>1 DEF LogInv, LogType, WorkerState, Workers, Files, MaxWorkers, Events
<1> QED
  BY <1>1, <1>2, QuietStep

\* A line has one place or none, by what the shelves hold.
LEMMA PlacesCounted ==
  ASSUME LogInv, NEW e \in Events
  PROVE  Cardinality(Places(e)) = (IF result[e] = "ok" THEN 1 ELSE 0)
<1>2. /\ DOMAIN Shelf = Holders
      /\ \A f \in Files : <<"file", f>> \in Holders /\ Shelf[<<"file", f>>] = content[f]
      /\ \A w \in Workers : <<"worker", w>> \in Holders /\ Shelf[<<"worker", w>>] = worker[w].buffered \o worker[w].pending
  BY ShelfType DEF LogInv, Line
<1>3. \A p \in Places(e) : \E h \in Holders : \E i \in DOMAIN Shelf[h] :
        Shelf[h][i] = e /\ p = <<h[1], h[2], i>>
  <2>1. SUFFICES ASSUME NEW p \in Places(e)
                 PROVE  \E h \in Holders : \E i \in DOMAIN Shelf[h] : Shelf[h][i] = e /\ p = <<h[1], h[2], i>>
    OBVIOUS
  <2>2. \/ \E f \in Files : \E i \in DOMAIN content[f] : content[f][i] = e /\ p = <<"file", f, i>>
        \/ \E w \in Workers : \E i \in DOMAIN (worker[w].buffered \o worker[w].pending) :
             (worker[w].buffered \o worker[w].pending)[i] = e /\ p = <<"worker", w, i>>
    BY DEF Places, At
  <2>3. ASSUME NEW f \in Files, NEW i \in DOMAIN content[f], content[f][i] = e, p = <<"file", f, i>>
        PROVE  \E h \in Holders : \E j \in DOMAIN Shelf[h] : Shelf[h][j] = e /\ p = <<h[1], h[2], j>>
    <3> DEFINE h == <<"file", f>>
    <3>1. h \in Holders /\ i \in DOMAIN Shelf[h] /\ Shelf[h][i] = e /\ p = <<h[1], h[2], i>>
      BY <1>2, <2>3
    <3> QED
      BY <3>1
  <2>4. ASSUME NEW w \in Workers, NEW i \in DOMAIN (worker[w].buffered \o worker[w].pending),
               (worker[w].buffered \o worker[w].pending)[i] = e, p = <<"worker", w, i>>
        PROVE  \E h \in Holders : \E j \in DOMAIN Shelf[h] : Shelf[h][j] = e /\ p = <<h[1], h[2], j>>
    <3> DEFINE h == <<"worker", w>>
    <3>1. h \in Holders /\ i \in DOMAIN Shelf[h] /\ Shelf[h][i] = e /\ p = <<h[1], h[2], i>>
      BY <1>2, <2>4
    <3> QED
      BY <3>1
  <2> QED
    BY <2>2, <2>3, <2>4
<1>4. \A h \in Holders : \A i \in DOMAIN Shelf[h] : Shelf[h][i] = e => <<h[1], h[2], i>> \in Places(e)
  <2>1. SUFFICES ASSUME NEW h \in Holders, NEW i \in DOMAIN Shelf[h], Shelf[h][i] = e
                 PROVE  <<h[1], h[2], i>> \in Places(e)
    OBVIOUS
  <2>2. CASE h \in {"file"} \X Files
    <3>1. h[1] = "file" /\ h[2] \in Files /\ h = <<"file", h[2]>>
      BY <2>2
    <3>2. i \in At(e, content[h[2]])
      BY <1>2, <2>1, <3>1 DEF At
    <3>3. <<"file", h[2], i>> \in Places(e)
      BY <3>1, <3>2 DEF Places
    <3> QED
      BY <3>1, <3>3
  <2>3. CASE h \in {"worker"} \X Workers
    <3>1. h[1] = "worker" /\ h[2] \in Workers /\ h = <<"worker", h[2]>>
      BY <2>3
    <3>2. i \in At(e, worker[h[2]].buffered \o worker[h[2]].pending)
      BY <1>2, <2>1, <3>1 DEF At
    <3>3. <<"worker", h[2], i>> \in Places(e)
      BY <3>1, <3>2 DEF Places
    <3> QED
      BY <3>1, <3>3
  <2> QED
    BY <2>2, <2>3 DEF Holders
<1>5. CASE result[e] = "ok"
  <2>1. PICK h \in Holders : \E i \in DOMAIN Shelf[h] : Shelf[h][i] = e
    BY <1>2, <1>5 DEF LogInv, LinesInv, Has
  <2>2. PICK i \in DOMAIN Shelf[h] : Shelf[h][i] = e
    BY <2>1
  <2>3. \A g \in Holders : \A j \in DOMAIN Shelf[g] : Shelf[g][j] = e => g = h /\ j = i
    BY <1>2, <2>2 DEF LogInv, LinesInv, Distinct
  <2>4. \A p : p \in Places(e) <=> p = <<h[1], h[2], i>>
    BY <1>3, <1>4, <2>2, <2>3
  <2>5. Places(e) = {<<h[1], h[2], i>>}
    BY <2>4
  <2> QED
    BY <1>5, <2>5, FS_Singleton
<1>6. CASE result[e] # "ok"
  <2>1. ~ Has(Shelf, e)
    BY <1>6 DEF LogInv, LinesInv
  <2>2. Places(e) = {}
    BY <1>2, <1>3, <2>1 DEF Has
  <2> QED
    BY <1>6, <2>2, FS_EmptySet
<1> QED
  BY <1>5, <1>6

-----------------------------------------------------------------------------
(***************************************************************************)
(* The streams.  A worker that is at work has not begun its stream, or the *)
(* header went into its file or stands before the first line it holds; one *)
(* that opens the next file has written nothing to the file it will find.  *)
(***************************************************************************)
Present(w, f) == \E i \in DOMAIN content[f] : stream[content[f][i]].by = w

StreamAt(w) ==
  /\ \A i \in DOMAIN Line(worker[w]) : stream[Line(worker[w])[i]].by = w
  /\ worker[w].pc \notin {"none", "opening"} =>
       /\ worker[w].fresh => Line(worker[w]) = << >> /\ ~ Present(w, worker[w].file)
       /\ ~ worker[w].fresh => Line(worker[w]) # << >> \/ Present(w, worker[w].file)
       /\ \A i \in DOMAIN Line(worker[w]) :
            stream[Line(worker[w])[i]].head <=> (i = 1 /\ ~ Present(w, worker[w].file))
  /\ worker[w].pc = "opening" /\ latest \in Files => ~ Present(w, latest)
  /\ worker[w].pc # "none" => worker[w].file <= nfiles

FileAt(f) ==
  /\ f > nfiles => content[f] = << >>
  /\ \A i \in DOMAIN content[f] : stream[content[f][i]].by \in 1..nworkers
  /\ \A i \in DOMAIN content[f] :
       stream[content[f][i]].head <=>
         \A j \in DOMAIN content[f] : j < i => stream[content[f][j]].by # stream[content[f][i]].by

StreamInv ==
  /\ stream \in [Events -> [by : Nat, head : BOOLEAN]]
  /\ nfiles \in Nat /\ latest \in 0..nfiles
  /\ \A w \in Workers : StreamAt(w)
  /\ \A f \in Files : FileAt(f)

LEMMA StreamInit ==
  ASSUME Init
  PROVE  StreamInv
<1>1. \A w \in Workers : worker[w] = NoWorker /\ Line(worker[w]) = << >>
  BY DEF Init, NoWorker, Line
<1>2. \A w \in Workers : StreamAt(w)
  BY <1>1 DEF StreamAt, NoWorker
<1>3. \A f \in Files : FileAt(f)
  BY DEF Init, FileAt
<1>4. stream \in [Events -> [by : Nat, head : BOOLEAN]] /\ nfiles \in Nat /\ latest \in 0..nfiles
  BY DEF Init
<1> QED
  BY <1>2, <1>3, <1>4 DEF StreamInv

\* A step that moves no line and opens no file.
LEMMA StreamFrame ==
  ASSUME LogInv, StreamInv, UNCHANGED <<content, stream, latest, nfiles>>, nworkers' \in Nat, nworkers' >= nworkers,
         \A w \in Workers :
           /\ Line(worker'[w]) = Line(worker[w]) /\ worker'[w].fresh = worker[w].fresh
           /\ worker'[w].file = worker[w].file
           /\ worker'[w].pc = "opening" => worker[w].pc = "opening"
           /\ worker'[w].pc \notin {"none", "opening"} => worker[w].pc \notin {"none", "opening"}
           /\ worker'[w].pc # "none" => worker[w].pc # "none"
  PROVE  StreamInv'
<1>1. \A w : \A f : Present(w, f)' <=> Present(w, f)
  BY DEF Present
<1>2. ASSUME NEW w \in Workers PROVE StreamAt(w)'
  <2>1. StreamAt(w)
    BY DEF StreamInv
  <2> QED
    BY <1>1, <2>1 DEF StreamAt, Line
<1>3. ASSUME NEW f \in Files PROVE FileAt(f)'
  <2>1. FileAt(f) /\ nworkers \in Nat
    BY DEF StreamInv, LogInv, LogType
  <2> QED
    BY <2>1 DEF FileAt
<1>4. (stream \in [Events -> [by : Nat, head : BOOLEAN]] /\ nfiles \in Nat /\ latest \in 0..nfiles)'
  BY DEF StreamInv, Events
<1>5. Workers' = Workers /\ Files' = Files
  BY DEF Workers, Files, MaxWorkers, Events
<1> QED
  BY <1>2, <1>3, <1>4, <1>5 DEF StreamInv

\* A worker that has nothing opens the file, new or not, that it is not in.
LEMMA StreamOpens ==
  ASSUME LogInv, StreamInv, UNCHANGED <<content, stream>>, nworkers' \in Nat, nworkers' >= nworkers,
         NEW n \in Nat, NEW f \in Files, Opens(n, f), latest \in Files => ~ Present(n, latest), NEW s,
         s.pc = "select", s.file = f, Line(s) = << >>, s.fresh = TRUE,
         \A x \in Workers : worker'[x] = IF x = n THEN s ELSE worker[x]
  PROVE  StreamInv'
<1>0. nfiles \in Nat /\ latest \in 0..nfiles /\ nworkers \in Nat
  BY DEF StreamInv, LogInv, LogType
<1>1. \A w : \A g : Present(w, g)' <=> Present(w, g)
  BY DEF Present
<1>2. nfiles' \in Nat /\ nfiles' >= nfiles /\ latest' \in 0..nfiles' /\ latest' = f /\ f <= nfiles'
  BY <1>0 DEF Opens, Files
<1>3. \A w : latest = 0 => ~ Present(w, f)
  <2>1. latest = 0 => f > nfiles
    BY <1>0 DEF Opens
  <2>2. latest = 0 => content[f] = << >>
    BY <2>1 DEF StreamInv, FileAt
  <2> QED
    BY <2>2 DEF Present
<1>4. latest # 0 => f = latest
  BY DEF Opens
<1>5. ~ Present(n, f)
  BY <1>3, <1>4
<1>6. ASSUME NEW w \in Workers PROVE StreamAt(w)'
  <2>1. StreamAt(w)
    BY DEF StreamInv
  <2>2. CASE w = n
    <3>1. worker'[w] = s
      BY <2>2
    <3>2. Line(worker[w])' = << >>
      BY <3>1 DEF Line
    <3> QED
      BY <1>1, <1>2, <1>5, <2>2, <3>1, <3>2 DEF StreamAt
  <2>3. CASE w # n
    <3>1. worker'[w] = worker[w]
      BY <2>3
    <3>2. Line(worker[w])' = Line(worker[w])
      BY <3>1 DEF Line
    <3>3. worker[w].pc = "opening" => ~ Present(w, f)
      BY <1>3, <1>4, <2>1 DEF StreamAt
    <3>4. worker[w].pc # "none" => worker[w].file <= nfiles'
      <4>1. worker[w].pc # "none" => worker[w].file \in Nat /\ worker[w].file <= nfiles
        BY <2>1 DEF StreamAt, LogInv, WorkerInv, Files
      <4> QED
        BY <1>0, <1>2, <4>1
    <3> QED
      BY <1>1, <1>2, <2>1, <3>1, <3>2, <3>3, <3>4 DEF StreamAt
  <2> QED
    BY <2>2, <2>3
<1>7. ASSUME NEW g \in Files PROVE FileAt(g)'
  <2>1. FileAt(g) /\ g \in Nat
    BY DEF StreamInv, Files
  <2> QED
    BY <1>0, <1>2, <2>1 DEF FileAt
<1>8. (stream \in [Events -> [by : Nat, head : BOOLEAN]])'
  BY DEF StreamInv, Events
<1>9. Workers' = Workers /\ Files' = Files
  BY DEF Workers, Files, MaxWorkers, Events
<1> QED
  BY <1>2, <1>6, <1>7, <1>8, <1>9 DEF StreamInv

\* A line of the stream x is among the lines a; the header of every stream
\* stands before its first line there.
Of(a, st, x) == \E j \in DOMAIN a : st[a[j]].by = x
Headed(a, st) == \A i \in DOMAIN a : st[a[i]].head <=> \A j \in DOMAIN a : j < i => st[a[j]].by # st[a[i]].by
Continues(l, a, st, x) ==
  \A i \in DOMAIN l : st[l[i]].by = x /\ (st[l[i]].head <=> (i = 1 /\ ~ Of(a, st, x)))

\* Lines l of the stream w behind the lines a of a file make up c.
LEMMA StreamJoins ==
  \A a, l, c, st, w : \A n, m \in Nat :
    /\ Joins(a, l, c, n) /\ DOMAIN a = 1..n /\ DOMAIN l = 1..m
    /\ Continues(l, a, st, w) /\ Headed(a, st)
    => Headed(c, st) /\ \A x : Of(c, st, x) <=> Of(a, st, x) \/ (x = w /\ m # 0)
<1> TAKE a, l, c, st, w
<1> TAKE n, m \in Nat
<1> HAVE /\ Joins(a, l, c, n) /\ DOMAIN a = 1..n /\ DOMAIN l = 1..m
         /\ Continues(l, a, st, w) /\ Headed(a, st)
<1>1. \A i \in DOMAIN c : i \in Int
  BY DEF Joins
<1>2. \A i \in DOMAIN c : \/ i \in 1..n /\ c[i] = a[i]
                          \/ i - n \in 1..m /\ c[i] = l[i - n]
  BY DEF Joins
<1>3. /\ \A i \in 1..n : i \in DOMAIN c /\ c[i] = a[i]
      /\ \A i \in 1..m : n + i \in DOMAIN c /\ c[n + i] = l[i]
  BY DEF Joins
<1>4. ASSUME NEW i \in DOMAIN c
      PROVE  st[c[i]].head <=> \A j \in DOMAIN c : j < i => st[c[j]].by # st[c[i]].by
  <2>1. CASE i \in 1..n /\ c[i] = a[i]
    <3>1. \A j \in DOMAIN c : j < i => j \in 1..n /\ c[j] = a[j]
      BY <1>1, <1>2, <2>1
    <3>2. \A j \in 1..n : j \in DOMAIN c /\ c[j] = a[j]
      BY <1>3
    <3>3. st[a[i]].head <=> \A j \in 1..n : j < i => st[a[j]].by # st[a[i]].by
      BY <2>1 DEF Headed
    <3> QED
      BY <2>1, <3>1, <3>2, <3>3
  <2>2. CASE i - n \in 1..m /\ c[i] = l[i - n]
    <3>1. i \in Int /\ st[c[i]].by = w
      BY <1>1, <2>2 DEF Continues
    <3>2. st[c[i]].head <=> (i - n = 1 /\ ~ \E j \in 1..n : st[a[j]].by = w)
      BY <2>2 DEF Of, Continues
    <3>3. ASSUME i - n = 1, ~ \E j \in 1..n : st[a[j]].by = w, NEW j \in DOMAIN c, j < i
          PROVE  st[c[j]].by # w
      <4>1. j \in 1..n /\ c[j] = a[j]
        BY <1>1, <1>2, <3>1, <3>3
      <4> QED
        BY <3>3, <4>1
    <3>4. ASSUME i - n # 1 PROVE \E j \in DOMAIN c : j < i /\ st[c[j]].by = w
      <4>1. 1 \in 1..m /\ n + 1 < i
        BY <2>2, <3>1, <3>4
      <4>2. n + 1 \in DOMAIN c /\ st[c[n + 1]].by = w
        BY <1>3, <4>1 DEF Continues
      <4> QED
        BY <4>1, <4>2
    <3>5. ASSUME \E j \in 1..n : st[a[j]].by = w PROVE \E j \in DOMAIN c : j < i /\ st[c[j]].by = w
      <4>1. PICK j \in 1..n : st[a[j]].by = w
        BY <3>5
      <4>2. j < i /\ j \in DOMAIN c /\ st[c[j]].by = w
        BY <1>3, <2>2, <3>1, <4>1
      <4> QED
        BY <4>2
    <3> QED
      BY <3>1, <3>2, <3>3, <3>4, <3>5
  <2> QED
    BY <1>2, <2>1, <2>2
<1>5. ASSUME NEW x
      PROVE  (\E i \in DOMAIN c : st[c[i]].by = x) <=> (\E i \in DOMAIN a : st[a[i]].by = x) \/ (x = w /\ m # 0)
  <2>1. ASSUME NEW i \in DOMAIN c, st[c[i]].by = x
        PROVE  (\E j \in DOMAIN a : st[a[j]].by = x) \/ (x = w /\ m # 0)
    BY <1>1, <1>2, <2>1 DEF Continues
  <2>2. ASSUME NEW j \in DOMAIN a, st[a[j]].by = x PROVE \E i \in DOMAIN c : st[c[i]].by = x
    BY <1>3, <2>2
  <2>3. ASSUME x = w, m # 0 PROVE \E i \in DOMAIN c : st[c[i]].by = x
    <3>1. 1 \in 1..m
      BY <2>3
    <3>2. n + 1 \in DOMAIN c /\ st[c[n + 1]].by = w
      BY <1>3, <3>1 DEF Continues
    <3> QED
      BY <2>3, <3>2
  <2> QED
    BY <2>1, <2>2, <2>3
<1> QED
  BY ONLY <1>4, <1>5, Zenon DEF Headed, Of

\* A worker writes what it holds to its file, and stays or ends there.
LEMMA StreamWrites ==
  ASSUME LogInv, StreamInv, UNCHANGED <<stream, nfiles, nworkers>>, latest' \in {latest, 0},
         NEW w \in Workers, NEW s, worker[w].pc \notin {"none", "opening"},
         s.pc # "none", s.pc = "opening" => latest' = 0, s.file = worker[w].file, s.fresh = worker[w].fresh,
         Line(s) = << >>, NEW f, f = worker[w].file, NEW l, l = Line(worker[w]),
         \A x \in Workers : worker'[x] = IF x = w THEN s ELSE worker[x],
         content' = [content EXCEPT ![f] = content[f] \o l]
  PROVE  StreamInv'
<1> PICK n : n = Len(content[f])
  OBVIOUS
<1>0. nfiles \in Nat /\ latest \in 0..nfiles /\ nworkers \in Nat
  BY DEF StreamInv, LogInv, LogType
<1>1. f \in Files /\ f \in Nat /\ f <= nfiles /\ w \in 1..nworkers
  <2>1. f \in Files /\ ~ (w > nworkers)
    BY DEF LogInv, WorkerInv, NoWorker
  <2>2. f <= nfiles
    BY DEF StreamInv, StreamAt
  <2> QED
    BY <1>0, <2>1, <2>2 DEF Files, Workers
<1>2. content[f] \in Seq(Events) /\ l \in Seq(Events)
  BY <1>1, ShelfType DEF LogInv, LogType
<1>3. PICK c : c = content'[f]
  OBVIOUS
<1>4. Joins(content[f], l, c, n) /\ n \in Nat /\ DOMAIN content[f] = 1..n
  <2>1. c = content[f] \o l
    BY <1>1, <1>3 DEF LogInv, LogType
  <2>2. \A a, b \in Seq(Events) : Joins(a, b, a \o b, Len(a)) /\ Len(a) \in Nat /\ DOMAIN a = 1..Len(a)
    BY ONLY ConcatJoins
  <2> QED
    BY ONLY <1>2, <2>1, <2>2, n = Len(content[f])
<1>5. \A g \in Files \ {f} : content'[g] = content[g]
  BY DEF LogInv, LogType
<1>6. StreamAt(w) /\ FileAt(f)
  BY <1>1 DEF StreamInv
<1>7. PICK m \in Nat : DOMAIN l = 1..m /\ (m # 0 <=> l # << >>)
  <2>1. Len(l) \in Nat /\ DOMAIN l = 1..Len(l) /\ (Len(l) # 0 <=> l # << >>)
    BY ONLY <1>2
  <2> QED
    BY ONLY <2>1
<1>8. Continues(l, content[f], stream, w) /\ Headed(content[f], stream)
  BY ONLY <1>6, worker[w].pc \notin {"none", "opening"}, f = worker[w].file, l = Line(worker[w]), Zenon
     DEF StreamAt, FileAt, Present, Of, Headed, Continues
<1>9. Headed(c, stream) /\ \A x : Of(c, stream, x) <=> Of(content[f], stream, x) \/ (x = w /\ m # 0)
  BY ONLY <1>4, <1>7, <1>8, StreamJoins, Zenon
<1>10. \A x : Present(x, f)' <=> Present(x, f) \/ (x = w /\ l # << >>)
  <2>1. \A x : Present(x, f) <=> Of(content[f], stream, x)
    BY ONLY Zenon DEF Present, Of
  <2>2. \A x : Present(x, f)' <=> Of(c, stream, x)
    BY ONLY <1>3, stream' = stream, f = f', Zenon DEF Present, Of
  <2> QED
    BY ONLY <1>7, <1>9, <2>1, <2>2, Zenon
<1>11. \A x \in Workers, g \in Files : x # w \/ g # f => (Present(x, g)' <=> Present(x, g))
  <2>1. \A x \in Workers, g \in Files : g # f => (Present(x, g)' <=> Present(x, g))
    BY ONLY <1>5, stream' = stream DEF Present
  <2> QED
    BY ONLY <1>10, <2>1
<1>12. FileAt(f)'
  <2>1. \A i \in DOMAIN c : stream[c[i]].by \in 1..nworkers
    <3>1. SUFFICES ASSUME NEW i \in DOMAIN c PROVE stream[c[i]].by \in 1..nworkers
      OBVIOUS
    <3>2. Of(content[f], stream, stream[c[i]].by) \/ stream[c[i]].by = w
      BY ONLY <1>9, i \in DOMAIN c, Zenon DEF Of
    <3>3. Of(content[f], stream, stream[c[i]].by) => stream[c[i]].by \in 1..nworkers
      BY ONLY <1>6, Zenon DEF FileAt, Of
    <3> QED
      BY ONLY <1>1, <3>2, <3>3
  <2>2. ~ (f > nfiles)
    BY ONLY <1>0, <1>1
  <2> QED
    BY ONLY <1>3, <1>9, <2>1, <2>2, UNCHANGED <<stream, nfiles, nworkers>> DEF FileAt, Headed
<1>13. ASSUME NEW g \in Files PROVE FileAt(g)'
  <2>1. CASE g # f
    <3>1. FileAt(g) /\ content'[g] = content[g]
      BY <1>5, <2>1 DEF StreamInv
    <3> QED
      BY ONLY <3>1, UNCHANGED <<stream, nfiles, nworkers>> DEF FileAt
  <2> QED
    BY <1>12, <2>1
<1>14. ASSUME NEW x \in Workers PROVE StreamAt(x)'
  <2>1. StreamAt(x)
    BY DEF StreamInv
  <2>2. CASE x = w
    <3>1. worker'[x] = s /\ s.file = f
      BY <2>2
    <3>2. Line(worker[x])' = << >>
      BY <3>1 DEF Line
    <3>3. s.fresh => ~ Present(w, f)'
      BY <1>6, <1>10 DEF StreamAt
    <3>4. ~ s.fresh => Present(w, f)'
      BY <1>6, <1>10 DEF StreamAt
    <3>5. s.pc = "opening" => latest' \notin Files
      BY DEF Files
    <3> QED
      BY <1>1, <2>2, <3>1, <3>2, <3>3, <3>4, <3>5 DEF StreamAt
  <2>3. CASE x # w
    <3>1. worker'[x] = worker[x] /\ (worker[x].pc # "none" => worker[x].file \in Files)
      BY <2>3 DEF LogInv, WorkerInv
    <3>2. Line(worker[x])' = Line(worker[x])
      BY <3>1 DEF Line
    <3>3. worker[x].pc # "none" => (Present(x, worker[x].file)' <=> Present(x, worker[x].file))
      BY <1>11, <2>3, <3>1
    <3>4. worker[x].pc = "opening" /\ latest' \in Files => ~ Present(x, latest)'
      <4>1. latest' \in Files => latest' = latest
        BY DEF Files
      <4> QED
        BY <1>11, <2>1, <2>3, <4>1 DEF StreamAt
    <3> QED
      BY <2>1, <3>1, <3>2, <3>3, <3>4 DEF StreamAt
  <2> QED
    BY <2>2, <2>3
<1>15. (stream \in [Events -> [by : Nat, head : BOOLEAN]] /\ nfiles \in Nat /\ latest \in 0..nfiles)'
  BY <1>0 DEF StreamInv, Events
<1>16. Workers' = Workers /\ Files' = Files
  BY DEF Workers, Files, MaxWorkers, Events
<1> QED
  BY <1>13, <1>14, <1>15, <1>16 DEF StreamInv

\* A worker at work changes, but neither what it holds nor its file.
LEMMA StreamWorker ==
  ASSUME LogInv, StreamInv, UNCHANGED <<content, stream, latest, nfiles, nworkers>>,
         NEW w \in Workers, NEW s, worker' = [worker EXCEPT ![w] = s],
         worker[w].pc \notin {"none", "opening"}, s.pc # "opening",
         Line(s) = Line(worker[w]), s.fresh = worker[w].fresh, s.file = worker[w].file
  PROVE  StreamInv'
<1>1. \A x \in Workers : worker'[x] = IF x = w THEN s ELSE worker[x]
  BY DEF LogInv, LogType
<1>2. nworkers' \in Nat /\ nworkers' >= nworkers
  BY DEF LogInv, LogType
<1>3. \A x \in Workers :
           /\ Line(worker'[x]) = Line(worker[x]) /\ worker'[x].fresh = worker[x].fresh
           /\ worker'[x].file = worker[x].file
           /\ worker'[x].pc = "opening" => worker[x].pc = "opening"
           /\ worker'[x].pc \notin {"none", "opening"} => worker[x].pc \notin {"none", "opening"}
           /\ worker'[x].pc # "none" => worker[x].pc # "none"
  BY <1>1
<1> QED
  BY <1>2, <1>3, StreamFrame

\* Steps of the events and of the manager.
LEMMA StreamQuiet ==
  ASSUME LogInv, StreamInv, UNCHANGED <<content, stream, latest, nfiles, nworkers, worker>>
  PROVE  StreamInv'
<1>1. nworkers' \in Nat /\ nworkers' >= nworkers
  BY DEF LogInv, LogType
<1> QED
  BY <1>1, StreamFrame

LEMMA StreamSend ==
  ASSUME LogInv, StreamInv, NEW e \in Events, Send(e)
  PROVE  StreamInv'
<1> DEFINE w == target[e]
<1>1. /\ worker' = [worker EXCEPT ![w].queue = Append(worker[w].queue, e)]
      /\ UNCHANGED <<content, stream, latest, nfiles, nworkers>>
  BY DEF Send, fileVars, streamVars
<1>2. nworkers' \in Nat /\ nworkers' >= nworkers /\ worker \in [Workers -> WorkerState]
  BY <1>1 DEF LogInv, LogType
<1>3. \A x \in Workers :
           /\ worker'[x].buffered = worker[x].buffered /\ worker'[x].pending = worker[x].pending
           /\ worker'[x].fresh = worker[x].fresh /\ worker'[x].file = worker[x].file /\ worker'[x].pc = worker[x].pc
  BY <1>1, <1>2 DEF WorkerState
<1>4. \A x \in Workers : Line(worker'[x]) = Line(worker[x])
  BY <1>3 DEF Line
<1> QED
  BY <1>1, <1>2, <1>3, <1>4, StreamFrame

LEMMA StreamFlags ==
  ASSUME LogInv, StreamInv, NEW w \in Workers,
         WorkerStops(w) \/ Rotate(w) \/ TickFlush(w) \/ TickRotate(w)
  PROVE  StreamInv'
<1> USE DEF otherVars, fileVars, Selecting
<1> DEFINE s == worker[w]
<1>1. worker[w] \in WorkerState /\ worker[w].file \in Files /\ worker[w].pc = "select"
  BY WorkerFacts DEF Works, WorkerStops, Rotate, TickFlush, TickRotate
<1>2. UNCHANGED <<content, stream, latest, nfiles, nworkers>>
  BY DEF WorkerStops, Rotate, TickFlush, TickRotate
<1>3. s.flush \in BOOLEAN /\ s.rotate \in BOOLEAN /\ (s.rotate => s.rotate = TRUE)
  BY <1>1 DEF WorkerState
<1>4. PICK p \in {"select", "closing", "stopped"}, f \in BOOLEAN, r \in BOOLEAN :
        worker' = [worker EXCEPT ![w] = Flagged(s, p, f, r)]
  <2>1. CASE WorkerStops(w)
    <3>1. worker' = [worker EXCEPT ![w] = Flagged(s, "stopped", s.flush, s.rotate)]
      BY <1>1, <2>1 DEF WorkerStops, Flagged, WorkerState
    <3> QED
      BY <1>3, <3>1
  <2>2. CASE Rotate(w)
    <3>1. worker' = [worker EXCEPT ![w] = Flagged(s, IF s.bytes = 0 THEN "select" ELSE "closing", s.flush, FALSE)]
      BY <1>1, <2>2 DEF Rotate, Flagged, WorkerState, LogInv, LogType
    <3> QED
      BY <1>3, <3>1
  <2>3. CASE TickFlush(w)
    <3>1. worker' = [worker EXCEPT ![w] = Flagged(s, "select", TRUE, s.rotate)]
      BY <1>1, <2>3 DEF TickFlush, Flagged, WorkerState
    <3> QED
      BY <1>3, <3>1
  <2>4. CASE TickRotate(w)
    <3>1. worker' = [worker EXCEPT ![w] = Flagged(s, "select", s.flush, TRUE)]
      BY <1>1, <2>4 DEF TickRotate, Flagged, WorkerState
    <3> QED
      BY <1>3, <3>1
  <2> QED
    BY <2>1, <2>2, <2>3, <2>4
<1>5. /\ Line(Flagged(s, p, f, r)) = Line(worker[w]) /\ Flagged(s, p, f, r).file = worker[w].file
      /\ Flagged(s, p, f, r).fresh = worker[w].fresh /\ Flagged(s, p, f, r).pc = p
  BY <1>1, FlaggedType
<1> QED
  BY <1>1, <1>2, <1>4, <1>5, StreamWorker

LEMMA StreamCloseFails ==
  ASSUME LogInv, StreamInv, NEW w \in Workers, CloseFails(w)
  PROVE  StreamInv'
<1>1. worker[w] \in WorkerState /\ worker[w].pc = "closing"
  BY WorkerFacts DEF CloseFails
<1>2. /\ UNCHANGED <<content, stream, latest, nfiles, nworkers>>
      /\ worker' = [worker EXCEPT ![w] = Compressed(worker[w])]
  BY DEF CloseFails, otherVars, fileVars
<1>3. /\ Line(Compressed(worker[w])) = Line(worker[w]) /\ Compressed(worker[w]).fresh = worker[w].fresh
      /\ Compressed(worker[w]).pc = worker[w].pc /\ Compressed(worker[w]).file = worker[w].file
  BY <1>1, CompressedKeeps
<1> QED
  BY <1>1, <1>2, <1>3, StreamWorker

LEMMA StreamReopen ==
  ASSUME LogInv, StreamInv, NEW w \in Workers, Reopen(w)
  PROVE  StreamInv'
<1> DEFINE s == worker[w]
<1>1. worker[w] \in WorkerState /\ worker[w].pc = "opening" /\ worker \in [Workers -> WorkerState]
  BY WorkerFacts DEF Reopen, LogInv, LogType
<1>2. PICK f \in Files :
        /\ Opens(w, f)
        /\ worker' = [worker EXCEPT ![w].pc = "select", ![w].file = f, ![w].open = TRUE, ![w].buffered = << >>,
                                    ![w].pending = << >>, ![w].fresh = TRUE, ![w].pos = 0]
  BY DEF Reopen
<1>3. \A x \in Workers : worker'[x] = IF x = w THEN Opened(s, f) ELSE worker[x]
  BY <1>1, <1>2 DEF Opened
<1>4. /\ Opened(s, f).pc = "select" /\ Opened(s, f).file = f /\ Opened(s, f).fresh = TRUE
      /\ Opened(s, f).buffered = << >> /\ Opened(s, f).pending = << >>
  BY <1>1 DEF Opened, WorkerState
<1>5. Line(Opened(s, f)) = << >>
  BY <1>4 DEF Line
<1>6. w \in Nat /\ nworkers' \in Nat /\ nworkers' >= nworkers /\ UNCHANGED <<content, stream>>
  BY DEF Reopen, otherVars, LogInv, LogType, Workers
<1>7. latest \in Files => ~ Present(w, latest)
  BY <1>1 DEF StreamInv, StreamAt
<1>8. PICK t : t = Opened(s, f)
  OBVIOUS
<1>9. /\ t.pc = "select" /\ t.file = f /\ Line(t) = << >> /\ t.fresh = TRUE
      /\ \A x \in Workers : worker'[x] = IF x = w THEN t ELSE worker[x]
  BY <1>3, <1>4, <1>5, <1>8
<1> QED
  BY <1>2, <1>6, <1>7, <1>9, StreamOpens, Zenon

LEMMA StreamCreate ==
  ASSUME LogInv, StreamInv, NEW e \in Events, Create(e)
  PROVE  StreamInv'
<1> DEFINE n == nworkers + 1
<1>1. PICK f \in Files : Opens(n, f) /\ worker' = [worker EXCEPT ![n] = Created(f)]
  BY DEF Create, Created
<1>2. nworkers \in Nat /\ worker \in [Workers -> WorkerState] /\ nworkers' = n
  BY DEF LogInv, LogType, Create
<1>3. /\ Created(f).pc = "select" /\ Created(f).file = f /\ Created(f).fresh = TRUE
      /\ Created(f).buffered = << >> /\ Created(f).pending = << >>
  BY DEF Created, NoWorker
<1>4. Line(Created(f)) = << >>
  BY <1>3 DEF Line
<1>5. \A x \in Workers : worker'[x] = IF x = n THEN Created(f) ELSE worker[x]
  BY <1>1, <1>2
<1>6. latest \in Files => ~ Present(n, latest)
  <2>1. \A g \in Files : \A i \in DOMAIN content[g] : stream[content[g][i]].by \in 1..nworkers
    BY DEF StreamInv, FileAt
  <2>2. n \notin 1..nworkers
    BY <1>2
  <2> HIDE DEF n
  <2> QED
    BY <2>1, <2>2 DEF Present
<1>7. n \in Nat /\ nworkers' \in Nat /\ nworkers' >= nworkers /\ UNCHANGED <<content, stream>>
  BY <1>2 DEF Create, streamVars
<1> HIDE DEF n
<1>8. PICK t : t = Created(f)
  OBVIOUS
<1>9. /\ t.pc = "select" /\ t.file = f /\ Line(t) = << >> /\ t.fresh = TRUE
      /\ \A x \in Workers : worker'[x] = IF x = n THEN t ELSE worker[x]
  BY <1>3, <1>4, <1>5, <1>8
<1>10. Opens(n, f)
  BY <1>1
<1> QED
  BY <1>6, <1>7, <1>9, <1>10, StreamOpens, Zenon

LEMMA StreamClose ==
  ASSUME LogInv, StreamInv, NEW w \in Workers, Close(w) \/ ArchiveFails(w)
  PROVE  StreamInv'
<1> DEFINE t == Compressed(worker[w])
<1>1. worker[w] \in WorkerState /\ worker \in [Workers -> WorkerState]
  BY WorkerFacts DEF LogInv, LogType
<1>2. /\ t \in WorkerState /\ t.buffered = Line(worker[w]) /\ t.pending = << >>
      /\ t.pc = worker[w].pc /\ t.file = worker[w].file /\ t.fresh = worker[w].fresh
  BY <1>1, CompressedKeeps
<1>3. /\ t.pc = "closing" /\ content' = [content EXCEPT ![t.file] = content[t.file] \o t.buffered]
      /\ UNCHANGED <<stream, nfiles, nworkers>> /\ latest' \in {latest, 0}
  BY DEF Close, ArchiveFails, otherVars, fileVars
<1>4. PICK v :
        /\ worker' = [worker EXCEPT ![w] = v]
        /\ \/ v = [t EXCEPT !.buffered = << >>, !.open = FALSE, !.pc = "opening", !.lines = 0, !.bytes = 0] /\ latest' = 0
           \/ v = [t EXCEPT !.buffered = << >>, !.open = FALSE]
           \/ v = [t EXCEPT !.buffered = << >>, !.pc = "stuck"]
  BY DEF Close, ArchiveFails
<1> HIDE DEF t
<1>5. /\ v.buffered = << >> /\ v.pending = << >> /\ v.file = worker[w].file /\ v.fresh = worker[w].fresh
      /\ v.pc # "none" /\ (v.pc = "opening" => latest' = 0)
  BY <1>2, <1>3, <1>4 DEF WorkerState
<1>6. Line(v) = << >>
  BY <1>5 DEF Line
<1>7. \A x \in Workers : worker'[x] = IF x = w THEN v ELSE worker[x]
  BY <1>1, <1>4
<1>8. PICK f, l : f = worker[w].file /\ l = Line(worker[w])
  OBVIOUS
<1>9. content' = [content EXCEPT ![f] = content[f] \o l]
  BY <1>2, <1>3, <1>8
<1>10. worker[w].pc \notin {"none", "opening"}
  BY <1>2, <1>3
<1>11. UNCHANGED <<stream, nfiles, nworkers>> /\ latest' \in {latest, 0}
  BY <1>3
<1> QED
  BY ONLY LogInv, StreamInv, w \in Workers, <1>5, <1>6, <1>7, <1>8, <1>9, <1>10, <1>11, StreamWrites

LEMMA StreamFlush ==
  ASSUME LogInv, StreamInv, NEW w \in Workers, Flush(w)
  PROVE  StreamInv'
<1> DEFINE u == [worker[w] EXCEPT !.flush = FALSE]
           s == Compressed(u)
<1>1. worker[w] \in WorkerState /\ worker[w].pc = "select" /\ worker \in [Workers -> WorkerState]
  BY WorkerFacts DEF Flush, Selecting, LogInv, LogType
<1>2. UNCHANGED <<stream, nfiles, nworkers, latest>>
  BY DEF Flush, otherVars
<1>3. /\ u \in WorkerState /\ u.file = worker[w].file /\ u.fresh = worker[w].fresh /\ u.pc = "select"
      /\ u.buffered = worker[w].buffered /\ u.pending = worker[w].pending
  BY <1>1 DEF WorkerState
<1>4. Line(u) = Line(worker[w])
  BY <1>3 DEF Line
<1>5. \/ worker' = [worker EXCEPT ![w] = u] /\ content' = content
      \/ worker' = [worker EXCEPT ![w] = s] /\ content' = content
      \/ /\ content' = [content EXCEPT ![s.file] = content[s.file] \o s.buffered]
         /\ worker' = [worker EXCEPT ![w] = [s EXCEPT !.buffered = << >>, !.lines = 0]]
  BY DEF Flush
<1> HIDE DEF u
<1>6. /\ s \in WorkerState /\ s.buffered = Line(worker[w]) /\ s.pending = << >> /\ Line(s) = Line(worker[w])
      /\ s.pc = "select" /\ s.file = worker[w].file /\ s.fresh = worker[w].fresh
  BY <1>3, <1>4, CompressedKeeps
<1> HIDE DEF s
<1>7. CASE worker' = [worker EXCEPT ![w] = u] /\ content' = content
  BY <1>1, <1>2, <1>3, <1>4, <1>7, StreamWorker
<1>8. CASE worker' = [worker EXCEPT ![w] = s] /\ content' = content
  BY <1>1, <1>2, <1>6, <1>8, StreamWorker
<1>9. CASE /\ content' = [content EXCEPT ![s.file] = content[s.file] \o s.buffered]
           /\ worker' = [worker EXCEPT ![w] = [s EXCEPT !.buffered = << >>, !.lines = 0]]
  <2>1. PICK v : v = [s EXCEPT !.buffered = << >>, !.lines = 0]
    OBVIOUS
  <2>2. v.buffered = << >> /\ v.pending = << >> /\ v.file = worker[w].file /\ v.fresh = worker[w].fresh /\ v.pc = "select"
    BY <1>6, <2>1 DEF WorkerState
  <2>3. Line(v) = << >>
    BY <2>2 DEF Line
  <2>4. \A x \in Workers : worker'[x] = IF x = w THEN v ELSE worker[x]
    BY <1>1, <1>9, <2>1
  <2>5. PICK f, l : f = worker[w].file /\ l = Line(worker[w])
    OBVIOUS
  <2>6. content' = [content EXCEPT ![f] = content[f] \o l]
    BY <1>6, <1>9, <2>5
  <2>7. worker[w].pc \notin {"none", "opening"} /\ latest' \in {latest, 0} /\ v.pc # "none" /\ (v.pc = "opening" => latest' = 0)
    BY <1>1, <1>2, <2>2
  <2> QED
    BY <1>2, <2>2, <2>3, <2>4, <2>5, <2>6, <2>7, StreamWrites
<1> QED
  BY <1>5, <1>7, <1>8, <1>9

\* A line that was on no shelf joins those that the worker holds.
LEMMA StreamReceive ==
  ASSUME LogInv, StreamInv, NEW w \in Workers, Receive(w)
  PROVE  StreamInv'
<1> DEFINE s == worker[w]
           e == Head(s.queue)
<1>1. worker[w] \in WorkerState /\ worker[w].pc = "select" /\ worker[w].file \in Files /\ worker[w].queue # << >>
  BY WorkerFacts DEF Receive, Selecting, Works
<1>2. PICK t \in Writes(s, e) : worker' = [worker EXCEPT ![w] = Counted(t)]
  BY DEF Receive
<1>3. /\ t \in WorkerState /\ Line(t) = Append(Line(s), e) /\ t.pc = s.pc /\ t.file = s.file
      /\ e \in Events /\ t.fresh = FALSE
  BY <1>1, <1>2, WritesKeeps
<1>4. PICK u : u = Counted(t)
  OBVIOUS
<1>5. Line(u) = Append(Line(worker[w]), e) /\ u.pc = "select" /\ u.file = worker[w].file /\ u.fresh = FALSE
  BY <1>1, <1>3, <1>4, CountedKeeps
<1>6. \A x \in Workers : worker'[x] = IF x = w THEN u ELSE worker[x]
  BY <1>2, <1>4 DEF LogInv, LogType
<1>7. /\ stream' = [stream EXCEPT ![e] = [by |-> w, head |-> worker[w].fresh]]
      /\ UNCHANGED <<content, latest, nfiles, nworkers>>
  BY DEF Receive, otherVars, fileVars
<1>8. /\ stream \in [Events -> [by : Nat, head : BOOLEAN]] /\ w \in Nat /\ worker[w].fresh \in BOOLEAN
      /\ nfiles \in Nat /\ latest \in 0..nfiles /\ nworkers \in Nat
  BY <1>1 DEF StreamInv, Workers, WorkerState, LogInv, LogType
<1>9. ~ Has(Shelf, e)
  <2>1. w \in DOMAIN Queues /\ Queues[w] = worker[w].queue /\ worker[w].queue \in Seq(Events)
    BY <1>1 DEF Queues, WorkerState
  <2>2. 1 \in DOMAIN Queues[w] /\ Queues[w][1] = e
    BY <1>1, <2>1
  <2>3. Has(Queues, e)
    BY <2>1, <2>2 DEF Has
  <2> QED
    BY <1>3, <2>3 DEF LogInv, QueueInv, LinesInv
<1>10. /\ \A f \in Files : \A i \in DOMAIN content[f] : content[f][i] # e
       /\ \A x \in Workers : \A i \in DOMAIN Line(worker[x]) : Line(worker[x])[i] # e
  <2>1. /\ DOMAIN Shelf = Holders
        /\ \A f \in Files : <<"file", f>> \in Holders /\ Shelf[<<"file", f>>] = content[f]
        /\ \A x \in Workers : <<"worker", x>> \in Holders /\ Shelf[<<"worker", x>>] = Line(worker[x])
    BY ShelfType DEF LogInv
  <2> HIDE DEF e
  <2> QED
    BY ONLY <1>9, <2>1, Zenon DEF Has
<1> HIDE DEF e, s
<1>11. stream'[e] = [by |-> w, head |-> worker[w].fresh] /\ \A d : d # e => stream'[d] = stream[d]
  BY <1>3, <1>7, <1>8
<1>12. \A f \in Files : \A i \in DOMAIN content[f] : stream'[content[f][i]] = stream[content[f][i]]
  BY <1>10, <1>11
<1>13. \A x \in Workers : \A i \in DOMAIN Line(worker[x]) : stream'[Line(worker[x])[i]] = stream[Line(worker[x])[i]]
  BY <1>10, <1>11
<1>14. \A x : \A f \in Files : Present(x, f)' <=> Present(x, f)
  BY <1>7, <1>12 DEF Present
<1>15. ASSUME NEW x \in Workers PROVE StreamAt(x)'
  <2>1. StreamAt(x)
    BY DEF StreamInv
  <2>2. CASE x = w
    <3>1. PICK l \in Seq(Events) : l = Line(worker[w])
      BY ShelfType DEF LogInv
    <3>2. worker'[w] = u /\ Line(worker[w])' = Append(l, e)
      BY <1>5, <1>6, <3>1 DEF Line
    <3>3. PICK n \in Nat : DOMAIN l = 1..n /\ (n = 0 <=> l = << >>)
      <4>1. Len(l) \in Nat /\ DOMAIN l = 1..Len(l) /\ (Len(l) = 0 <=> l = << >>)
        OBVIOUS
      <4> QED
        BY ONLY <4>1
    <3>4. PICK k : k = Append(l, e)
      OBVIOUS
    <3>5. /\ DOMAIN k = 1..(n + 1) /\ k[n + 1] = e /\ \A i \in 1..n : k[i] = l[i]
      <4>1. Len(l) = n
        BY <3>3
      <4> QED
        BY <1>3, <3>3, <3>4, <4>1
    <3>6. k # << >>
      BY <3>5
    <3>7. /\ \A i \in DOMAIN l : stream[l[i]].by = w /\ stream'[l[i]] = stream[l[i]]
          /\ \A i \in DOMAIN l : stream[l[i]].head <=> (i = 1 /\ ~ Present(w, worker[w].file))
          /\ worker[w].fresh <=> (n = 0 /\ ~ Present(w, worker[w].file))
      BY <1>1, <1>13, <2>1, <2>2, <3>1, <3>3 DEF StreamAt
    <3>8. ASSUME NEW i \in DOMAIN k
          PROVE  stream'[k[i]].by = w /\ (stream'[k[i]].head <=> (i = 1 /\ ~ Present(w, worker[w].file)))
      <4>1. CASE i = n + 1
        <5>1. stream'[k[i]].by = w /\ stream'[k[i]].head = worker[w].fresh
          BY <1>11, <3>5, <4>1
        <5>2. i = 1 <=> n = 0
          BY <4>1
        <5> QED
          BY <3>7, <5>1, <5>2
      <4>2. CASE i \in 1..n
        BY <3>3, <3>5, <3>7, <4>2
      <4> QED
        BY <3>5, <4>1, <4>2
    <3>9. Present(w, worker[w].file)' <=> Present(w, u.file)'
      BY <1>5, <1>6, <3>2
    <3>10. Present(w, u.file)' <=> Present(w, worker[w].file)
      BY <1>1, <1>5, <1>7, <1>12 DEF Present
    <3>11. u.file <= nfiles'
      BY <1>1, <1>5, <1>7, <2>1, <2>2 DEF StreamAt
    <3> QED
      BY <1>5, <2>2, <3>2, <3>4, <3>6, <3>8, <3>9, <3>10, <3>11 DEF StreamAt
  <2>3. CASE x # w
    <3>1. worker'[x] = worker[x] /\ (worker[x].pc # "none" => worker[x].file \in Files)
      BY <1>6, <2>3 DEF LogInv, WorkerInv
    <3>2. Line(worker[x])' = Line(worker[x])
      BY <3>1 DEF Line
    <3>3. worker[x].pc # "none" => (Present(x, worker[x].file)' <=> Present(x, worker[x].file))
      BY <1>7, <1>12, <3>1 DEF Present
    <3>4. latest \in Files => (Present(x, latest)' <=> Present(x, latest))
      BY <1>7, <1>12 DEF Present
    <3> QED
      BY <1>7, <1>13, <2>1, <3>1, <3>2, <3>3, <3>4 DEF StreamAt
  <2> QED
    BY <2>2, <2>3
<1>16. ASSUME NEW f \in Files PROVE FileAt(f)'
  <2>1. FileAt(f) /\ content'[f] = content[f]
    BY <1>7 DEF StreamInv
  <2> QED
    BY <1>7, <1>12, <2>1 DEF FileAt
<1>17. (stream \in [Events -> [by : Nat, head : BOOLEAN]] /\ nfiles \in Nat /\ latest \in 0..nfiles)'
  BY <1>3, <1>7, <1>8 DEF Events
<1>18. Workers' = Workers /\ Files' = Files
  BY DEF Workers, Files, MaxWorkers, Events
<1> QED
  BY <1>15, <1>16, <1>17, <1>18 DEF StreamInv

LEMMA StreamNext ==
  ASSUME LogInv, StreamInv, [Next]_vars
  PROVE  StreamInv'
<1> USE DEF fileVars, streamVars, eventVars, otherVars
<1>1. ASSUME NEW r \in Requests, Handle(r) PROVE StreamInv'
  BY <1>1, StreamQuiet DEF Handle
<1>2. ASSUME NEW e \in Events, Process(e) PROVE StreamInv'
  <2>1. CASE Create(e)
    BY <2>1, StreamCreate
  <2>2. CASE Send(e)
    BY <2>2, StreamSend
  <2>3. CASE Check(e) \/ Load(e) \/ Flight(e) \/ CreateFails(e)
    BY <2>3, StreamQuiet DEF Check, Load, Flight, CreateFails
  <2> QED
    BY <1>2, <2>1, <2>2, <2>3 DEF Process
<1>3. CASE Cancel \/ Terminate \/ Second
  BY <1>3, StreamQuiet DEF Cancel, Terminate, Second
<1>4. ASSUME NEW w \in Workers,
             WorkerStops(w) \/ Receive(w) \/ Flush(w) \/ Rotate(w) \/ Rotation(w) \/ Ticker(w)
      PROVE  StreamInv'
  <2>1. CASE WorkerStops(w) \/ Rotate(w) \/ Ticker(w)
    BY <2>1, StreamFlags DEF Ticker
  <2>2. CASE Receive(w)
    BY <2>2, StreamReceive
  <2>3. CASE Flush(w)
    BY <2>3, StreamFlush
  <2>4. CASE Close(w) \/ ArchiveFails(w)
    BY <2>4, StreamClose
  <2>5. CASE CloseFails(w)
    BY <2>5, StreamCloseFails
  <2>6. CASE Reopen(w)
    BY <2>6, StreamReopen
  <2>7. CASE CloseAgain(w) \/ ReopenFails(w)
    BY <2>7, StreamQuiet DEF CloseAgain, ReopenFails
  <2> QED
    BY <1>4, <2>1, <2>2, <2>3, <2>4, <2>5, <2>6, <2>7 DEF Rotation
<1>5. CASE UNCHANGED vars
  BY <1>5, StreamQuiet DEF vars
<1> QED
  BY <1>1, <1>2, <1>3, <1>4, <1>5 DEF Next

\* Where one worker wrote, the first line begins the only stream.
LEMMA StreamsRead ==
  ASSUME LogInv, StreamInv, NEW f \in Files, Unreadable(f) # {}, f # left
  PROVE  Shared(f)
<1>1. SUFFICES ASSUME ~ Shared(f) PROVE FALSE
  OBVIOUS
<1>2. PICK i \in DOMAIN content[f] : \E j \in 1..i :
        stream[content[f][j]] # [by |-> stream[content[f][1]].by, head |-> j = 1]
  BY DEF Unreadable
<1>3. PICK j \in 1..i : stream[content[f][j]] # [by |-> stream[content[f][1]].by, head |-> j = 1]
  BY <1>2
<1>4. content[f] \in Seq(Events)
  BY DEF LogInv, LogType
<1>5. 1 \in DOMAIN content[f] /\ j \in DOMAIN content[f] /\ j \in Nat
      /\ \A k \in DOMAIN content[f] : k \in Nat /\ k >= 1 /\ content[f][k] \in Events
  BY <1>3, <1>4
<1>6. stream[content[f][j]] \in [by : Nat, head : BOOLEAN]
  BY <1>5 DEF StreamInv
<1>7. \A k \in DOMAIN content[f] : stream[content[f][k]].by = stream[content[f][1]].by
  BY <1>1, <1>5 DEF Shared
<1>8. stream[content[f][j]].head <=> \A k \in DOMAIN content[f] : k < j => stream[content[f][k]].by # stream[content[f][j]].by
  BY <1>5 DEF StreamInv, FileAt
<1>9. stream[content[f][j]].head <=> j = 1
  BY <1>5, <1>7, <1>8
<1> QED
  BY <1>3, <1>5, <1>6, <1>7, <1>9

(***************************************************************************)
(* Every line that process reported as written is in one place, and in one *)
(* only: across failing flushes, rotations that are retried, and a second  *)
(* worker for the same source that shares the file of the first.  A file   *)
(* that only one worker wrote to, and no earlier process, holds one stream *)
(* with one header, and is read back to its end.                           *)
(***************************************************************************)
THEOREM LinesAreKept == Spec => []NothingLost
<1>1. Init => LogInv /\ StreamInv
  BY LogInit, StreamInit
<1>2. LogInv /\ StreamInv /\ [Next]_vars => LogInv' /\ StreamInv'
  BY LogNext, LogStutter, StreamNext
<1>3. LogInv /\ StreamInv => NothingLost
  BY PlacesCounted, StreamsRead DEF NothingLost
<1> QED
  BY <1>1, <1>2, <1>3, PTL DEF Spec
=============================================================================
