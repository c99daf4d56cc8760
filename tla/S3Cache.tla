------------------------------ MODULE S3Cache -------------------------------
(***************************************************************************)
(* lib/s3cache: a read-through cache on disk in front of an S3 bucket.     *)
(* The data files are named by identifiers that the metadata gives to the  *)
(* keys; the metadata is a map in memory, and a file that is rewritten as  *)
(* a whole.  Calls run concurrently; only evictions exclude each other.    *)
(*                                                                         *)
(* The history variable torn collects the keys whose cached copy may be    *)
(* wrong, each for a race of calls or a crash that the code does not       *)
(* guard against; everything else is promised without exception.           *)
(***************************************************************************)
EXTENDS Integers, Sequences, SequencesExt, FiniteSetsExt

CONSTANTS
  Keys, Versions, Procs, None,
  Size,       \* the bytes of each version
  Capacity,   \* the bytes of the disk
  EntrySize,  \* the bytes of an entry in the metadata file
  Buckets,    \* what may be in the bucket at the beginning
  Warm,       \* the key that may be in the cache then, or None
  MaxCalls,   \* bound: calls
  MaxUids,    \* bound: identifiers
  MaxMishaps  \* bound: crashes, and failing calls to the bucket or the file system

Uids == 1..MaxUids
Entries == [uid : Uids, hash : Versions]

ASSUME S3CacheAssumption ==
  /\ IsFiniteSet(Keys)
  /\ Size \in [Versions -> Nat]
  /\ Buckets \subseteq [Keys -> Versions \cup {None}]
  /\ Warm \subseteq Keys \cup {None}
  /\ \A b \in Buckets, k \in Warm \ {None} : b[k] # None /\ Size[b[k]] <= Capacity
  /\ Capacity \in Nat /\ EntrySize \in Nat
  /\ MaxCalls \in Nat /\ MaxUids \in Nat \ {0} /\ MaxMishaps \in Nat
  /\ None \notin Versions \cup Keys \cup Procs \cup Entries

VARIABLES
  remote, written, call, live, answer, torn,  \* as in ObjectStore
  meta,      \* byKey: the entry of each key, or None
  lru,       \* the keys in byKey, least recently used first
  persisted, \* the metadata file
  metaSize,  \* metadataStore.size
  files,     \* the data file of each identifier, or None
  uuids,     \* identifiers given out
  evictMu,   \* who holds the mutex, or None
  pc,        \* where each caller is
  job,       \* its local variables
  stale,     \* history: keys whose entry in the file may be older than in memory
  crowded,   \* history: a store was misled about the room it needs or has
  calls, mishaps

sharedVars == <<remote, written, call, live, answer>>
diskVars == <<persisted, files>>
bounds == <<calls, mishaps>>
vars == <<sharedVars, torn, meta, lru, diskVars, metaSize, uuids, evictMu, pc, job, stale,
          crowded, bounds>>

\* The object store that callers see: the bucket and their calls, without
\* what is cached.
OS == INSTANCE ObjectStore
        WITH remote <- remote, written <- written, call <- call, live <- live, answer <- answer,
             torn <- torn

NoCall == OS!NoCall

\* data: the version to store or to return; uid, diff: of store; drop: files
\* of evicted entries; snap: what persist writes; then: where it returns to.
NoJob == [data |-> None, uid |-> 0, diff |-> 0, drop |-> << >>, snap |-> [k \in Keys |-> None],
          then |-> "idle"]

Init ==
  /\ OS!Init /\ remote \in Buckets
  /\ \E w \in Warm :
       /\ meta = [k \in Keys |-> IF k = w THEN [uid |-> 1, hash |-> remote[k]] ELSE None]
       /\ lru = IF w = None THEN << >> ELSE <<w>>
       /\ files = [u \in Uids |-> IF u = 1 /\ w # None THEN remote[w] ELSE None]
       /\ uuids = IF w = None THEN 0 ELSE 1
  /\ persisted = meta /\ metaSize = 0 /\ evictMu = None
  /\ pc = [p \in Procs |-> "idle"] /\ job = [p \in Procs |-> NoJob]
  /\ stale = {} /\ crowded = FALSE
  /\ calls = 0 /\ mishaps = 0

Key(p) == call[p].key
Tracked == {k \in Keys : meta[k] # None}
EntriesOf(m) == {k \in Keys : m[k] # None}
SizeIn(m) == [k \in Keys |-> IF m[k] = None THEN 0 ELSE Size[m[k].hash]]
CacheSize == SumFunction(SizeIn(meta))
Room == Capacity - metaSize - CacheSize
Without(k) == IF k \in ToSet(lru) THEN RemoveAt(lru, CHOOSE i \in DOMAIN lru : lru[i] = k) ELSE lru
MostRecent(k) == Append(Without(k), k)

Goto(p, where) == pc' = [pc EXCEPT ![p] = where]

\* A caller that looked an entry up and goes on to use what it saw.
Storing(q) ==
  \/ pc[q] \in {"measure", "evict", "evictFiles", "write", "put"}
  \/ pc[q] \in {"persist", "rename"} /\ job[q].then # "removeFile"
Holds(q, k) == Key(q) = k /\ (pc[q] = "readFile" \/ Storing(q))
BeingStored(k) == \E q \in Procs : Storing(q) /\ Key(q) = k
\* Caller p changes the files or entries of ks under somebody's feet.
Tears(p, ks) == torn' = torn \cup {k \in ks : \E q \in Procs \ {p} : Holds(q, k)}
\* An entry changes while the metadata of before is on its way to the disk.
Outdates(p, ks) == stale' = IF \E q \in Procs \ {p} : pc[q] = "rename" THEN stale \cup ks ELSE stale

\* A store that has compared its need with the room.
Measured(q) == Storing(q) /\ pc[q] # "measure"
\* The entries of ks change under a store that has taken its need from them.
Misleads(ks) == \E q \in Procs : pc[q] = "measure" /\ Key(q) \in ks

Mishap == mishaps < MaxMishaps /\ mishaps' = mishaps + 1

-----------------------------------------------------------------------------
(***************************************************************************)
(* Calls and their ends.                                                   *)
(***************************************************************************)
Call(p, op, k, want) ==
  /\ calls < MaxCalls /\ calls' = calls + 1
  /\ op = "put" => want # None
  /\ op = "remove" => want = None
  /\ op = "get" => want \in written[k] \cup {None}
  /\ OS!Call(p, op, k, want)
  /\ Goto(p, CASE op = "get" -> (IF want = None THEN "flight" ELSE "lookup")
               [] op = "put" -> "upload"
               [] OTHER -> "delete")
  /\ UNCHANGED <<torn, meta, lru, diskVars, metaSize, uuids, evictMu, job, stale, crowded,
                 mishaps>>

\* ps return together: one caller, or all that share a flight.
Finish(ps, a) ==
  /\ answer' = [p \in Procs |-> IF p \in ps THEN a ELSE answer[p]]
  /\ call' = [p \in Procs |-> IF p \in ps THEN NoCall ELSE call[p]]
  /\ live' = [p \in Procs |-> IF p \in ps THEN {} ELSE live[p]]
  /\ pc' = [p \in Procs |-> IF p \in ps THEN "idle" ELSE pc[p]]
  /\ job' = [p \in Procs |-> IF p \in ps THEN NoJob ELSE job[p]]
  /\ UNCHANGED <<remote, written>>

\* Everything the steps of one caller before the store leave alone.
cacheVars == <<meta, lru, diskVars, metaSize, uuids, evictMu, stale, crowded>>

-----------------------------------------------------------------------------
(***************************************************************************)
(* Get.                                                                    *)
(***************************************************************************)
ReadCachedAnyHash(p) ==
  /\ pc[p] = "lookup"
  /\ Goto(p, IF meta[Key(p)] # None THEN "readFile" ELSE "flight")
  /\ job' = [job EXCEPT ![p].uid = IF meta[Key(p)] # None THEN meta[Key(p)].uid ELSE @]
  /\ UNCHANGED <<sharedVars, torn, cacheVars, bounds>>

\* readCached: the entry has to have the hash that is wanted.
ReadCached(p) ==
  LET e == meta[Key(p)]
      hit == e # None /\ e.hash = call[p].want
  IN /\ pc[p] = "lookup"
     /\ Goto(p, IF hit THEN "readFile" ELSE "flight")
     /\ job' = [job EXCEPT ![p].uid = IF hit THEN e.uid ELSE @]
     /\ torn' = IF hit /\ BeingStored(Key(p)) THEN torn \cup {Key(p)} ELSE torn
     /\ UNCHANGED <<sharedVars, cacheVars, bounds>>

\* The file is read, or it is gone, which fails the call.
ReadFile(p) ==
  LET data == files[job[p].uid]
      k == Key(p)
  IN /\ pc[p] = "readFile"
     /\ Finish({p}, IF data = None THEN OS!Error ELSE OS!Got(data, call[p].want))
     /\ lru' = IF data # None /\ k \in Tracked THEN MostRecent(k) ELSE lru
     /\ UNCHANGED <<torn, meta, diskVars, metaSize, uuids, evictMu, stale, crowded, bounds>>

\* singleflight: one caller per key fetches, the others wait for it.
InFlight(q) == call[q].op = "get" /\ pc[q] \notin {"idle", "lookup", "readFile", "flight", "join"}

Flight(p) ==
  /\ pc[p] = "flight"
  /\ Goto(p, IF \E q \in Procs : InFlight(q) /\ Key(q) = Key(p) THEN "join" ELSE "fetch")
  /\ UNCHANGED <<sharedVars, torn, cacheVars, job, bounds>>

Flock(p) ==
  {p} \cup (IF call[p].op = "get" THEN {q \in Procs : pc[q] = "join" /\ Key(q) = Key(p)} ELSE {})

FetchFails(p) ==
  /\ pc[p] = "fetch"
  /\ \/ remote[Key(p)] = None /\ UNCHANGED mishaps
     \/ Mishap
  /\ Finish(Flock(p), OS!Error)
  /\ UNCHANGED <<torn, cacheVars, calls>>

Fetch(p) ==
  /\ pc[p] = "fetch" /\ remote[Key(p)] # None
  /\ job' = [job EXCEPT ![p].data = remote[Key(p)]]
  /\ Goto(p, "store")
  /\ UNCHANGED <<sharedVars, torn, cacheVars, bounds>>

-----------------------------------------------------------------------------
(***************************************************************************)
(* Put and Remove.                                                         *)
(***************************************************************************)
Upload(p) ==
  /\ pc[p] = "upload"
  /\ OS!Upload(p)
  /\ job' = [job EXCEPT ![p].data = call[p].want]
  /\ Goto(p, "store")
  /\ UNCHANGED <<torn, cacheVars, bounds>>

RemoteFails(p) ==
  /\ pc[p] \in {"upload", "delete"} /\ Mishap
  /\ Finish({p}, OS!Error)
  /\ UNCHANGED <<torn, cacheVars, calls>>

Delete(p) ==
  /\ pc[p] = "delete"
  /\ OS!Delete(p)
  /\ Goto(p, "forget")
  /\ UNCHANGED <<torn, cacheVars, job, bounds>>

Forget(p) ==
  LET k == Key(p)
      e == meta[k]
  IN /\ pc[p] = "forget"
     /\ \/ /\ e = None
           /\ Finish({p}, OS!Done(None))
           /\ UNCHANGED <<torn, stale, meta, lru, crowded>>
        \/ /\ e # None
           /\ meta' = [meta EXCEPT ![k] = None]
           /\ lru' = Without(k)
           /\ Tears(p, {k}) /\ Outdates(p, {k})
           /\ crowded' = (crowded \/ Misleads({k}))
           /\ job' = [job EXCEPT ![p].uid = e.uid, ![p].then = "removeFile"]
           /\ Goto(p, "persist")
           /\ UNCHANGED sharedVars
     /\ UNCHANGED <<diskVars, metaSize, uuids, evictMu, bounds>>

RemoveFile(p) ==
  /\ pc[p] = "removeFile"
  /\ files' = [files EXCEPT ![job[p].uid] = None]
  /\ Tears(p, {Key(p)})
  /\ Finish({p}, OS!Done(None))
  /\ UNCHANGED <<meta, lru, persisted, metaSize, uuids, evictMu, stale, crowded, bounds>>

-----------------------------------------------------------------------------
(***************************************************************************)
(* persistLocked: the entries are collected under the lock, marshalled and *)
(* written without it.                                                     *)
(***************************************************************************)
Persist(p) ==
  /\ pc[p] = "persist"
  /\ job' = [job EXCEPT ![p].snap = meta]
  /\ metaSize' = EntrySize * Cardinality(Tracked)
  /\ Goto(p, "rename")
  /\ UNCHANGED <<sharedVars, torn, meta, lru, diskVars, uuids, evictMu, stale, crowded, bounds>>

\* Failures of store are only logged: the caller gets its answer.
StoreEnds(p) ==
  Finish(Flock(p), IF call[p].op = "get" THEN OS!Got(job[p].data, job[p].data)
                                         ELSE OS!Done(job[p].data))

\* Entries are shared by pointer, so one that put changes in the meantime may
\* be written with its new values; so may, in the model, one that was removed
\* and stored again under its identifier.
Rename(p) ==
  LET snap == job[p].snap
      changed == {k \in EntriesOf(snap) : meta[k] # None /\ meta[k] # snap[k]
                                                 /\ meta[k].uid = snap[k].uid}
  IN /\ pc[p] = "rename"
     /\ \E newer \in SUBSET changed :
          persisted' = [k \in Keys |-> IF k \in newer THEN meta[k] ELSE snap[k]]
     /\ stale' = IF persisted' = meta /\ \A q \in Procs \ {p} : pc[q] # "rename" THEN {} ELSE stale
     /\ IF job[p].then = "stored"
        THEN StoreEnds(p)
        ELSE /\ Goto(p, job[p].then)
             /\ job' = [job EXCEPT ![p].snap = NoJob.snap]
             /\ UNCHANGED sharedVars
     /\ UNCHANGED <<torn, meta, lru, files, metaSize, uuids, evictMu, crowded, bounds>>

RenameFails(p) ==
  /\ pc[p] = "rename" /\ Mishap
  /\ IF job[p].then = "removeFile" THEN Finish({p}, OS!Error) ELSE StoreEnds(p)
  /\ evictMu' = IF evictMu = p THEN None ELSE evictMu
  /\ stale' = {k \in Keys : persisted[k] # meta[k]} \cup stale
  /\ UNCHANGED <<torn, meta, lru, diskVars, metaSize, uuids, crowded, calls>>

-----------------------------------------------------------------------------
(***************************************************************************)
(* store and reclaimSpace.                                                 *)
(***************************************************************************)
TooFullLater(diff) == Room < 0
TooFull(diff) == Room < diff

ResolveUID(p) == IF meta[Key(p)] = None THEN [uid |-> uuids + 1, old |-> 0]
                 ELSE [uid |-> meta[Key(p)].uid, old |-> Size[meta[Key(p)].hash]]

\* The object is larger than the disk: not cached.
StoreSkipped(p) ==
  /\ pc[p] = "store" /\ Size[job[p].data] >= Capacity
  /\ StoreEnds(p)
  /\ UNCHANGED <<torn, cacheVars, bounds>>

\* What the store needs is taken from the entry as it is now.
Store(p) ==
  LET r == ResolveUID(p)
  IN /\ pc[p] = "store" /\ Size[job[p].data] < Capacity /\ r.uid \in Uids
     /\ job' = [job EXCEPT ![p].uid = r.uid, ![p].diff = Size[job[p].data] - r.old]
     /\ uuids' = IF r.uid > uuids THEN r.uid ELSE uuids
     /\ Goto(p, "measure")
     /\ UNCHANGED <<sharedVars, torn, meta, lru, diskVars, metaSize, evictMu, stale, crowded,
                    bounds>>

\* cap() takes the lock anew and looks at the entries as they are by then.
MeasureRoom(p) ==
  /\ pc[p] = "measure"
  /\ Goto(p, IF TooFull(job[p].diff) THEN "evict" ELSE "write")
  /\ crowded' = (crowded \/ \E q \in Procs \ {p} : Measured(q))
  /\ UNCHANGED <<sharedVars, torn, meta, lru, diskVars, metaSize, uuids, evictMu, job, stale,
                 bounds>>

\* What the loop has counted after n candidates, and whether it stops there.
Freed(n) == 0 - SumFunction([i \in 1..n |-> Size[meta[lru[i]].hash]])
Evicted(n, diff) ==
  /\ n = Len(lru) \/ Freed(n) >= diff
  /\ \A i \in 0..(n - 1) : Freed(i) < diff

Evict(p) ==
  \E n \in 0..Len(lru) :
  LET ks == {lru[i] : i \in 1..n}
  IN /\ pc[p] = "evict" /\ evictMu = None /\ Evicted(n, job[p].diff)
     /\ evictMu' = p
     /\ meta' = [k \in Keys |-> IF k \in ks THEN None ELSE meta[k]]
     /\ lru' = SubSeq(lru, n + 1, Len(lru))
     /\ job' = [job EXCEPT ![p].drop = [i \in 1..n |-> meta[lru[i]].uid], ![p].then = "evictFiles"]
     /\ Tears(p, ks) /\ Outdates(p, ks)
     /\ crowded' = (crowded \/ Misleads(ks))
     /\ Goto(p, "persist")
     /\ UNCHANGED <<sharedVars, diskVars, metaSize, uuids, bounds>>

\* One file after the other; one that is missing ends store with an error.
EvictFile(p) ==
  LET drop == job[p].drop
  IN /\ pc[p] = "evictFiles"
     /\ \/ /\ drop = << >>
           /\ Goto(p, "write") /\ evictMu' = None
           /\ UNCHANGED <<files, job, sharedVars>>
        \/ /\ drop # << >> /\ files[Head(drop)] # None
           /\ files' = [files EXCEPT ![Head(drop)] = None]
           /\ job' = [job EXCEPT ![p].drop = Tail(@)]
           /\ UNCHANGED <<pc, evictMu, sharedVars>>
        \/ /\ drop # << >> /\ files[Head(drop)] = None
           /\ StoreEnds(p) /\ evictMu' = None
           /\ UNCHANGED files
     /\ UNCHANGED <<torn, meta, lru, persisted, metaSize, uuids, stale, crowded, bounds>>

\* writeFileAtomic replaces the file by a rename.
WriteFile(p) ==
  /\ pc[p] = "write"
  /\ files' = [files EXCEPT ![job[p].uid] = job[p].data]
  /\ Tears(p, {Key(p)})
  /\ Goto(p, "put")
  /\ UNCHANGED <<sharedVars, meta, lru, persisted, metaSize, uuids, evictMu, job, stale, crowded,
                 bounds>>

WriteFailsUnnoticed(p) ==
  /\ pc[p] = "write" /\ Mishap
  /\ Goto(p, "put")
  /\ UNCHANGED <<sharedVars, torn, cacheVars, job, calls>>

WriteFails(p) ==
  /\ pc[p] = "write" /\ Mishap
  /\ StoreEnds(p)
  /\ UNCHANGED <<torn, cacheVars, calls>>

\* put keeps the identifier of an entry that came into being meanwhile.
Put(p) ==
  LET k == Key(p)
  IN /\ pc[p] = "put"
     /\ meta' = [meta EXCEPT ![k] = [uid |-> IF @ = None THEN job[p].uid ELSE @.uid,
                                     hash |-> job[p].data]]
     /\ lru' = MostRecent(k)
     /\ Tears(p, {k}) /\ Outdates(p, {k})
     /\ crowded' = \/ crowded \/ Misleads({k})
                   \/ \E q \in Procs \ {p} : pc[q] = "rename" /\ job[q].snap[k] # None
     /\ job' = [job EXCEPT ![p].then = "stored"]
     /\ Goto(p, "persist")
     /\ UNCHANGED <<sharedVars, diskVars, metaSize, uuids, evictMu, bounds>>

-----------------------------------------------------------------------------
(***************************************************************************)
(* The process dies and is started again; newMetadataStore reads the file. *)
(* StoredAt then takes the place of the last access, in an order that the  *)
(* model leaves open.  The size of the file counts as zero until the next  *)
(* persist.                                                                *)
(***************************************************************************)
Crash ==
  /\ Mishap
  /\ OS!Crash
  /\ torn' = torn \cup stale \cup {k \in Keys : \E q \in Procs : Holds(q, k)}
  /\ meta' = persisted
  /\ lru' \in SetToSeqs(EntriesOf(persisted))
  /\ metaSize' = 0 /\ evictMu' = None
  /\ pc' = [p \in Procs |-> "idle"] /\ job' = [p \in Procs |-> NoJob]
  /\ stale' = {}
  /\ UNCHANGED <<diskVars, uuids, crowded, calls>>

Step(p) ==
  \/ \E op \in {"get", "put", "remove"}, k \in Keys, want \in Versions \cup {None} : Call(p, op, k, want)
  \/ ReadCached(p) \/ ReadFile(p) \/ Flight(p) \/ FetchFails(p) \/ Fetch(p)
  \/ Upload(p) \/ RemoteFails(p) \/ Delete(p) \/ Forget(p) \/ RemoveFile(p)
  \/ Persist(p) \/ Rename(p) \/ RenameFails(p)
  \/ StoreSkipped(p) \/ Store(p) \/ MeasureRoom(p) \/ Evict(p) \/ EvictFile(p)
  \/ WriteFile(p) \/ WriteFails(p) \/ Put(p)

Next == Crash \/ \E p \in Procs : Step(p)

Spec == Init /\ [][Next]_vars

-----------------------------------------------------------------------------
(***************************************************************************)
(* ImplementsObjectStore: with the cache, callers see an object store. A   *)
(* Get is answered with content and hash of one version, either the one it *)
(* asked for or one that was in the bucket during the call or a call it    *)
(* shares a flight with; only keys that were torn by a race or a crash are *)
(* excused.                                                                *)
(***************************************************************************)
ImplementsObjectStore == OS!Spec

(***************************************************************************)
(* EntriesAreFiles: an entry that nobody is about to change names a file   *)
(* with the content its hash promises; no entry points nowhere, which the  *)
(* order in reclaimSpace is meant to prevent.                              *)
(***************************************************************************)
EntriesAreFiles ==
  \A k \in Tracked \ torn :
    (\A q \in Procs : ~ Holds(q, k)) => files[meta[k].uid] = meta[k].hash

(***************************************************************************)
(* WithinCapacity: the entries fit the disk, whatever was evicted or       *)
(* replaced to make room and whichever metadata file a restart reads.      *)
(* Three things are excused: two stores measured the room at once; the     *)
(* entry of a store was removed, evicted or replaced between resolveUID    *)
(* and cap(), so that its old size was counted as room twice; or a store   *)
(* grew an entry that persistLocked had collected and not yet written, so  *)
(* that the file has the new size beside keys that made room for it.       *)
(***************************************************************************)
WithinCapacity == crowded \/ CacheSize <= Capacity
=============================================================================
