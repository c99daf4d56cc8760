----------------------------- MODULE LogService -----------------------------
(***************************************************************************)
(* service/log: requests carry events, every event is handed to the worker *)
(* of its source, and the worker appends it to a compressed file, which it *)
(* flushes and rotates.  Sources share nothing but the shutdown, so one    *)
(* source is modelled.                                                     *)
(*                                                                         *)
(* A line is in turn in the compressor, in the buffer and in the file that *)
(* the worker has open, named "latest" or already archived.  Positions and *)
(* counters are unsigned, modulo Wrap; a line and the header of a          *)
(* compressed stream take one unit each.                                   *)
(*                                                                         *)
(* Every worker compresses into a stream of its own and ends none, so that *)
(* a file is read back up to the point where another stream begins or goes *)
(* on; stream keeps of each line which one it belongs to.                  *)
(***************************************************************************)
EXTENDS Naturals, Sequences, FiniteSets

CONSTANTS
  Requests,   \* requests
  EventsOf,   \* the events of each request
  Capacity,   \* capacity of a worker's request channel
  MaxLines,   \* maxLogLinesBeforeFlush
  MaxSize,    \* maxFileSizeBeforeRotate
  Wrap,       \* 2^64
  MaxFaults,  \* bound: failing calls of the file system
  MaxSeconds  \* bound: seconds that pass

Events == UNION {EventsOf[r] : r \in Requests}
MaxWorkers == Cardinality(Events)
Workers == 1..MaxWorkers
Files == 1..(2 * MaxWorkers + 1)

ASSUME LogAssumption ==
  /\ \A r, s \in Requests : r # s => EventsOf[r] \cap EventsOf[s] = {}
  /\ {Capacity, MaxLines, MaxSize, MaxFaults, MaxSeconds} \subseteq Nat
  /\ Wrap \in Nat /\ Wrap > 4 * MaxWorkers /\ Wrap > MaxSize

VARIABLES
  ctxDone,     \* the service was told to stop
  terminating, \* WorkerManager.terminating
  manager,     \* Run: "running", "stopping", "done"
  panicked,    \* a worker called a nil writer: the process is gone
  request,     \* "new", "handled"
  wg,          \* the wait group of each request
  event,       \* where process is with each event
  result,      \* what it returned
  target,      \* the worker it found, or 0
  current,     \* workers.Load: the worker, or 0
  creating,    \* a flight of sf.Do is under way
  nworkers,    \* workers created
  worker,      \* the state of each worker
  content,     \* what each file holds
  nfiles,      \* files created
  latest,      \* the file with the name "latest", or 0
  archives,    \* the seconds that name an archived file
  left,        \* the file that an earlier process left as "latest", or 0
  stream,      \* the worker that compressed a line, and if its stream starts there
  now, faults

managerVars == <<ctxDone, terminating, manager>>
eventVars == <<request, wg, event, result, target, current, creating, nworkers>>
fileVars == <<content, nfiles, latest, archives>>
streamVars == <<left, stream>>
vars == <<managerVars, panicked, eventVars, worker, fileVars, streamVars, now, faults>>

NoWorker == [pc |-> "none", file |-> 0, pending |-> << >>, buffered |-> << >>, fresh |-> TRUE,
             open |-> FALSE, pos |-> 0, last |-> 0, bytes |-> 0, lines |-> 0, queue |-> << >>,
             flush |-> FALSE, rotate |-> FALSE]

Init ==
  /\ ctxDone = FALSE /\ terminating = FALSE /\ manager = "running" /\ panicked = FALSE
  /\ request = [r \in Requests |-> "new"] /\ wg = [r \in Requests |-> 0]
  /\ event = [e \in Events |-> "new"] /\ result = [e \in Events |-> "none"]
  /\ target = [e \in Events |-> 0]
  /\ current = 0 /\ creating = FALSE /\ nworkers = 0
  /\ worker = [w \in Workers |-> NoWorker]
  /\ left \in {0, 1} /\ nfiles = left /\ latest = left
  /\ content = [f \in Files |-> << >>] /\ archives = {}
  /\ stream = [e \in Events |-> [by |-> 0, head |-> FALSE]]
  /\ now = 0 /\ faults = 0

Fault == faults < MaxFaults /\ faults' = faults + 1
RequestOf(e) == CHOOSE r \in Requests : e \in EventsOf[r]

-----------------------------------------------------------------------------
(***************************************************************************)
(* handleLogs.  Go adds to the wait group that Add has added to already.   *)
(***************************************************************************)
Handle(r) ==
  /\ request[r] = "new"
  /\ request' = [request EXCEPT ![r] = "handled"]
  /\ wg' = [wg EXCEPT ![r] = 2 * Cardinality(EventsOf[r])]
  /\ event' = [e \in Events |-> IF e \in EventsOf[r] THEN "check" ELSE event[e]]
  /\ UNCHANGED <<managerVars, panicked, result, target, current, creating, nworkers, worker,
                 fileVars, streamVars, now, faults>>

\* process returns for the events in es with the same outcome.
Returned(es, outcome) ==
  /\ event' = [e \in Events |-> IF e \in es THEN "done" ELSE event[e]]
  /\ result' = [e \in Events |-> IF e \in es THEN outcome ELSE result[e]]
  /\ wg' = [r \in Requests |-> wg[r] - Cardinality(es \cap EventsOf[r])]

-----------------------------------------------------------------------------
(***************************************************************************)
(* WorkerManager.                                                          *)
(***************************************************************************)
Check(e) ==
  /\ event[e] = "check"
  /\ IF terminating THEN Returned({e}, "terminating")
                    ELSE event' = [event EXCEPT ![e] = "load"] /\ UNCHANGED <<result, wg>>
  /\ UNCHANGED <<managerVars, panicked, request, target, current, creating, nworkers, worker,
                 fileVars, streamVars, now, faults>>

Load(e) ==
  /\ event[e] = "load"
  /\ target' = [target EXCEPT ![e] = current]
  /\ event' = [event EXCEPT ![e] = IF current # 0 THEN "send" ELSE "flight"]
  /\ UNCHANGED <<managerVars, panicked, request, wg, result, current, creating, nworkers, worker,
                 fileVars, streamVars, now, faults>>

\* The first of a flight creates the worker.  Nobody looks again whether one
\* was stored since Load.
Flight(e) ==
  /\ event[e] = "flight"
  /\ creating' = TRUE
  /\ event' = [event EXCEPT ![e] = IF creating THEN "join" ELSE "create"]
  /\ UNCHANGED <<managerVars, panicked, request, wg, result, target, current, nworkers, worker,
                 fileVars, streamVars, now, faults>>

Joined(e) == {e} \cup {d \in Events : event[d] = "join"}

\* openLogFile appends to the file of that name, or makes one.
Opens(w, f) ==
  /\ f = IF latest # 0 THEN latest ELSE nfiles + 1
  /\ nfiles' = IF latest # 0 THEN nfiles ELSE nfiles + 1
  /\ latest' = f

Create(e) ==
  /\ event[e] = "create"
  /\ nworkers' = nworkers + 1
  /\ current' = nworkers + 1
  /\ creating' = FALSE
  /\ target' = [d \in Events |-> IF d \in Joined(e) THEN nworkers + 1 ELSE target[d]]
  /\ event' = [d \in Events |-> IF d \in Joined(e) THEN "send" ELSE event[d]]
  /\ \E f \in Files :
       /\ Opens(nworkers + 1, f)
       /\ worker' = [worker EXCEPT ![nworkers + 1] =
                       [NoWorker EXCEPT !.pc = "select", !.file = f, !.open = TRUE]]
  /\ UNCHANGED <<managerVars, panicked, request, wg, result, content, archives, streamVars, now,
                 faults>>

\* Mutant: those who joined the flight get no answer.
CreateFailsAlone(e) ==
  /\ event[e] = "create" /\ Fault
  /\ creating' = FALSE
  /\ Returned({e}, "failed")
  /\ UNCHANGED <<managerVars, panicked, request, target, current, nworkers, worker, fileVars, streamVars, now>>

CreateFails(e) ==
  /\ event[e] = "create" /\ Fault
  /\ creating' = FALSE
  /\ Returned(Joined(e), "failed")
  /\ UNCHANGED <<managerVars, panicked, request, target, current, nworkers, worker, fileVars, streamVars, now>>

Send(e) ==
  LET w == target[e]
  IN /\ event[e] = "send" /\ Len(worker[w].queue) < Capacity
     /\ worker' = [worker EXCEPT ![w].queue = Append(@, e)]
     /\ event' = [event EXCEPT ![e] = "wait"]
     /\ UNCHANGED <<managerVars, panicked, request, wg, result, target, current, creating,
                    nworkers, fileVars, streamVars, now, faults>>

Cancel ==
  /\ ~ ctxDone /\ ctxDone' = TRUE
  /\ UNCHANGED <<terminating, manager, panicked, eventVars, worker, fileVars, streamVars, now, faults>>

\* stop waits for a signal that no worker sends; without workers there is
\* nothing to stop.
Terminate ==
  /\ ctxDone /\ manager = "running"
  /\ terminating' = TRUE
  /\ manager' = IF current = 0 THEN "done" ELSE "stopping"
  /\ UNCHANGED <<ctxDone, panicked, eventVars, worker, fileVars, streamVars, now, faults>>

-----------------------------------------------------------------------------
(***************************************************************************)
(* The worker.                                                             *)
(***************************************************************************)
Selecting(w) == worker[w].pc = "select"
otherVars == <<managerVars, request, target, current, creating, nworkers, left, now>>

WorkerStops(w) ==
  /\ Selecting(w) /\ ctxDone
  /\ worker' = [worker EXCEPT ![w].pc = "stopped"]
  /\ UNCHANGED <<otherVars, panicked, wg, event, result, fileVars, stream, faults>>

\* writer.Flush: what the compressor holds goes to the buffer.
Compressed(s) ==
  [s EXCEPT !.buffered = @ \o s.pending, !.pending = << >>, !.pos = @ + Len(s.pending)]

\* writer.Write, which may pass on a block.
Writes(s, e) ==
  LET t == [s EXCEPT !.queue = Tail(@), !.pending = Append(@, e), !.fresh = FALSE,
                     !.pos = IF s.fresh THEN @ + 1 ELSE @]
  IN {t, Compressed(t)}

\* The counters after a write, and the trigger they ask for.
Counted(t) ==
  LET bytes == (t.bytes + (Wrap + t.pos - t.last)) % Wrap
      lines == t.lines + 1
      full == bytes > MaxSize
  IN [t EXCEPT !.lines = lines, !.bytes = bytes, !.last = t.pos,
               !.rotate = @ \/ full,
               !.flush = @ \/ (~ full /\ lines > MaxLines)]

Receive(w) ==
  LET s == worker[w]
  IN /\ Selecting(w) /\ s.queue # << >>
     /\ \E t \in Writes(s, Head(s.queue)) : worker' = [worker EXCEPT ![w] = Counted(t)]
     /\ stream' = [stream EXCEPT ![Head(s.queue)] = [by |-> w, head |-> s.fresh]]
     /\ Returned({Head(s.queue)}, "ok")
     /\ UNCHANGED <<otherVars, panicked, fileVars, faults>>

\* Mutant: a flush that failed counts as one.
FlushForgets(w) ==
  LET s == Compressed([worker[w] EXCEPT !.flush = FALSE])
  IN /\ Selecting(w) /\ worker[w].flush
     /\ \/ /\ s.lines = 0
           /\ worker' = [worker EXCEPT ![w].flush = FALSE]
           /\ UNCHANGED <<content, faults>>
        \/ /\ s.lines > 0
           /\ content' = [content EXCEPT ![s.file] = @ \o s.buffered]
           /\ worker' = [worker EXCEPT ![w] = [s EXCEPT !.buffered = << >>, !.lines = 0]]
           /\ UNCHANGED faults
        \/ /\ s.lines > 0 /\ Fault
           /\ worker' = [worker EXCEPT ![w] = [s EXCEPT !.lines = 0]]
           /\ UNCHANGED content
     /\ UNCHANGED <<otherVars, panicked, wg, event, result, nfiles, latest, archives, stream>>

\* A flush that fails keeps the buffer and the count of lines.
Flush(w) ==
  LET s == Compressed([worker[w] EXCEPT !.flush = FALSE])
  IN /\ Selecting(w) /\ worker[w].flush
     /\ \/ /\ s.lines = 0
           /\ worker' = [worker EXCEPT ![w].flush = FALSE]
           /\ UNCHANGED <<content, faults>>
        \/ /\ s.lines > 0
           /\ content' = [content EXCEPT ![s.file] = @ \o s.buffered]
           /\ worker' = [worker EXCEPT ![w] = [s EXCEPT !.buffered = << >>, !.lines = 0]]
           /\ UNCHANGED faults
        \/ /\ s.lines > 0 /\ Fault
           /\ worker' = [worker EXCEPT ![w] = s]
           /\ UNCHANGED content
     /\ UNCHANGED <<otherVars, panicked, wg, event, result, nfiles, latest, archives, stream>>

Rotate(w) ==
  /\ Selecting(w) /\ worker[w].rotate
  /\ worker' = [worker EXCEPT ![w].rotate = FALSE,
                              ![w].pc = IF worker[w].bytes = 0 THEN "select" ELSE "closing"]
  /\ UNCHANGED <<otherVars, panicked, wg, event, result, fileVars, stream, faults>>

\* closeCurrentFile flushes and closes the file, and gives up its writer
\* before it archives.  The name has a resolution of one second.
CanArchive(w) == now \notin archives /\ latest # 0

Close(w) ==
  LET s == Compressed(worker[w])
  IN /\ s.pc = "closing" /\ s.open
     /\ content' = [content EXCEPT ![s.file] = @ \o s.buffered]
     /\ IF CanArchive(w)
        THEN /\ archives' = archives \cup {now} /\ latest' = 0
             /\ worker' = [worker EXCEPT ![w] = [s EXCEPT !.buffered = << >>, !.open = FALSE,
                              !.pc = "opening", !.lines = 0, !.bytes = 0]]
        ELSE /\ worker' = [worker EXCEPT ![w] = [s EXCEPT !.buffered = << >>, !.open = FALSE]]
             /\ UNCHANGED <<archives, latest>>
     /\ UNCHANGED <<otherVars, panicked, wg, event, result, nfiles, stream, faults>>

\* The buffer cannot be written: tried again with all of it.
CloseFails(w) ==
  /\ worker[w].pc = "closing" /\ worker[w].open /\ Fault
  /\ worker' = [worker EXCEPT ![w] = Compressed(@)]
  /\ UNCHANGED <<otherVars, panicked, wg, event, result, fileVars, stream>>

\* Mutant: the file that was not renamed is opened again.
ArchiveFailsOpens(w) ==
  LET s == Compressed(worker[w])
  IN /\ s.pc = "closing" /\ s.open /\ Fault
     /\ content' = [content EXCEPT ![s.file] = @ \o s.buffered]
     /\ worker' = [worker EXCEPT ![w] = [s EXCEPT !.buffered = << >>, !.open = FALSE, !.pc = "opening",
                                                 !.lines = 0, !.bytes = 0]]
     /\ UNCHANGED <<otherVars, panicked, wg, event, result, nfiles, latest, archives, stream>>

\* The rename fails, or closing does, after which every retry fails as well.
ArchiveFails(w) ==
  LET s == Compressed(worker[w])
  IN /\ s.pc = "closing" /\ s.open /\ Fault
     /\ content' = [content EXCEPT ![s.file] = @ \o s.buffered]
     /\ \/ worker' = [worker EXCEPT ![w] = [s EXCEPT !.buffered = << >>, !.open = FALSE]]
        \/ worker' = [worker EXCEPT ![w] = [s EXCEPT !.buffered = << >>, !.pc = "stuck"]]
     /\ UNCHANGED <<otherVars, panicked, wg, event, result, nfiles, latest, archives, stream>>

\* The retry flushes the writer that is gone.
CloseAgain(w) ==
  /\ worker[w].pc = "closing" /\ ~ worker[w].open
  /\ panicked' = TRUE
  /\ UNCHANGED <<otherVars, wg, event, result, worker, fileVars, stream, faults>>

\* The position starts over with the new buffer; lastPosition does not.
Reopen(w) ==
  /\ worker[w].pc = "opening"
  /\ \E f \in Files :
       /\ Opens(w, f)
       /\ worker' = [worker EXCEPT ![w].pc = "select", ![w].file = f, ![w].open = TRUE,
                                   ![w].buffered = << >>, ![w].pending = << >>,
                                   ![w].fresh = TRUE, ![w].pos = 0]
  /\ UNCHANGED <<otherVars, panicked, wg, event, result, content, archives, stream, faults>>

ReopenFails(w) ==
  /\ worker[w].pc = "opening" /\ Fault
  /\ UNCHANGED <<otherVars, panicked, wg, event, result, worker, fileVars, stream>>

-----------------------------------------------------------------------------
(***************************************************************************)
(* manualTicker: the interval and the trigger of the worker end in one     *)
(* channel with room for one.  The goroutine between them only delays, and *)
(* the ticks come at any time anyway; one that finds nothing to do is left *)
(* out.                                                                    *)
(***************************************************************************)
TickFlush(w) ==
  /\ Selecting(w) /\ ~ worker[w].flush /\ worker[w].lines > 0
  /\ worker' = [worker EXCEPT ![w].flush = TRUE]
  /\ UNCHANGED <<otherVars, panicked, wg, event, result, fileVars, stream, faults>>

TickRotate(w) ==
  /\ Selecting(w) /\ ~ worker[w].rotate /\ worker[w].bytes > 0
  /\ worker' = [worker EXCEPT ![w].rotate = TRUE]
  /\ UNCHANGED <<otherVars, panicked, wg, event, result, fileVars, stream, faults>>

Second ==
  /\ now < MaxSeconds /\ now' = now + 1
  /\ UNCHANGED <<managerVars, panicked, eventVars, worker, fileVars, streamVars, faults>>

-----------------------------------------------------------------------------
Process(e) == Check(e) \/ Load(e) \/ Flight(e) \/ Create(e) \/ CreateFails(e) \/ Send(e)

Rotation(w) == Close(w) \/ CloseFails(w) \/ ArchiveFails(w) \/ CloseAgain(w) \/ Reopen(w) \/ ReopenFails(w)

Ticker(w) == TickFlush(w) \/ TickRotate(w)

Next ==
  /\ ~ panicked
  /\ \/ \E r \in Requests : Handle(r)
     \/ \E e \in Events : Process(e)
     \/ Cancel \/ Terminate \/ Second
     \/ \E w \in Workers : WorkerStops(w) \/ Receive(w) \/ Flush(w) \/ Rotate(w) \/ Rotation(w) \/ Ticker(w)

Spec == Init /\ [][Next]_vars

Alive(A) == ~ panicked /\ A

FairSpec ==
  /\ Spec
  /\ \A e \in Events : WF_vars(Alive(Process(e)))
  /\ \A w \in Workers :
       /\ WF_vars(Alive(Receive(w))) /\ WF_vars(Alive(Flush(w))) /\ WF_vars(Alive(Rotate(w)))
       /\ WF_vars(Alive(Rotation(w))) /\ WF_vars(Alive(TickFlush(w)))

-----------------------------------------------------------------------------
At(e, seq) == {i \in DOMAIN seq : seq[i] = e}

Places(e) ==
  (UNION {{<<"file", f, i>> : i \in At(e, content[f])} : f \in Files})
  \cup UNION {{<<"worker", w, i>> : i \in At(e, worker[w].buffered \o worker[w].pending)} : w \in Workers}

\* What a reader of the file cannot decompress: the earlier process did not end
\* its stream either, and a stream ends where a line of another one follows.
Unreadable(f) ==
  {i \in DOMAIN content[f] :
     \/ f = left
     \/ \E j \in 1..i : stream[content[f][j]] # [by |-> stream[content[f][1]].by, head |-> j = 1]}

Shared(f) == \E i, j \in DOMAIN content[f] : stream[content[f][i]].by # stream[content[f][j]].by

(***************************************************************************)
(* NothingLost: every line that process reported as written is once in a   *)
(* file, in the buffer or in the compressor of a worker, and no line is    *)
(* there twice, across flushes that fail, rotations that are retried, and  *)
(* workers that are created twice.  What is in a file can be read back,    *)
(* except where two workers of the source wrote to it or an earlier        *)
(* process left it: a worker that rotates never begins a second stream in  *)
(* a file (openLogFile and closeCurrentFile, worker.go).                   *)
(***************************************************************************)
NothingLost ==
  /\ \A e \in Events : Cardinality(Places(e)) = (IF result[e] = "ok" THEN 1 ELSE 0)
  /\ \A f \in Files : Unreadable(f) # {} => f = left \/ Shared(f)

OnDisk(e) == \E f \in Files : At(e, content[f]) # {}
Broken == ctxDone \/ panicked \/ \E w \in Workers : worker[w].pc = "stuck"

(***************************************************************************)
(* LinesReachDisk: "the interval at which logs are flushed to disk": a     *)
(* line that was reported as written gets into a file, unless the service  *)
(* is stopped, panics, or a file cannot be closed.                         *)
(***************************************************************************)
LinesReachDisk == \A e \in Events : (result[e] = "ok") ~> (OnDisk(e) \/ Broken)

(***************************************************************************)
(* ProcessReturns: process gets its answer, whatever the worker is doing,  *)
(* unless the service is stopped, panics, or a file cannot be closed.      *)
(***************************************************************************)
ProcessReturns == \A e \in Events : (event[e] = "check") ~> (event[e] = "done" \/ Broken)
=============================================================================
