--------------------------- MODULE S3CacheProofs ----------------------------
(***************************************************************************)
(* Proofs about S3Cache: entries name files with the content they promise  *)
(* (EntriesAreFiles), the cache implements the object store                *)
(* (ImplementsObjectStore), and its entries fit the disk (WithinCapacity), *)
(* for any keys, versions and callers, any size of the disk, and any       *)
(* number of calls, crashes and failures.                                  *)
(***************************************************************************)
EXTENDS S3Cache, SequenceTheorems, FiniteSetTheorems, TLAPS

-----------------------------------------------------------------------------
(***************************************************************************)
(* The inductive invariant.  First the types, and what a caller has at     *)
(* each place.                                                             *)
(***************************************************************************)
Metadata == [Keys -> Entries \cup {None}]
Jobs == [data : Versions \cup {None}, uid : Nat, diff : Int, drop : Seq(Uids), snap : Metadata,
         then : {"idle", "removeFile", "evictFiles", "stored"}]
Calls == [op : {"none", "get", "put", "remove"}, key : Keys \cup {None}, want : Versions \cup {None}]

Places == {"idle", "lookup", "readFile", "flight", "join", "fetch", "upload", "delete", "forget",
           "removeFile", "persist", "rename", "store", "measure", "evict", "evictFiles", "write", "put"}

CallersType == pc \in [Procs -> Places] /\ job \in [Procs -> Jobs] /\ call \in [Procs -> Calls]

S3Type ==
  /\ CallersType
  /\ remote \in [Keys -> Versions \cup {None}]
  /\ written \in [Keys -> SUBSET Versions]
  /\ live \in [Procs -> SUBSET Versions]
  /\ torn \subseteq Keys /\ stale \subseteq Keys
  /\ meta \in Metadata /\ persisted \in Metadata
  /\ files \in [Uids -> Versions \cup {None}]
  /\ uuids \in Nat

NoDuplicates(s) == \A i, j \in DOMAIN s : s[i] = s[j] => i = j

\* The keys in the order of their use are those with an entry.
LruInv ==
  /\ lru \in Seq(Keys)
  /\ \A i \in DOMAIN lru : meta[lru[i]] # None
  /\ NoDuplicates(lru)

\* A caller that has not come to the cache.
Outside(q) == pc[q] \in {"idle", "lookup", "flight", "join", "fetch", "upload", "delete", "forget", "store"}

\* A caller that has the version to store.
HasData(q) == pc[q] = "store" \/ Storing(q)

Fresh(q) == job[q].uid = 0 /\ job[q].drop = << >> /\ job[q].then = "idle"

Shape(q) ==
  /\ pc[q] = "idle" => call[q] = NoCall /\ job[q] = NoJob
  /\ pc[q] # "idle" => Key(q) \in Keys
  /\ pc[q] \in {"lookup", "readFile", "flight", "join", "fetch"} => call[q].op = "get"
  /\ pc[q] = "upload" => call[q].op = "put" /\ call[q].want # None
  /\ pc[q] \in {"delete", "forget", "removeFile"} => call[q].op = "remove"
  /\ HasData(q) => call[q].op \in {"get", "put"} /\ job[q].data # None
  /\ pc[q] \in {"persist", "rename"} => job[q].then # "idle"
  /\ Outside(q) => Fresh(q)
  /\ Storing(q) \/ pc[q] = "readFile" \/ job[q].then = "removeFile" => job[q].uid \in Uids
  /\ job[q].then = "removeFile" => pc[q] \in {"persist", "rename", "removeFile"} /\ call[q].op = "remove"
  /\ pc[q] = "removeFile" => job[q].then = "removeFile"
  /\ job[q].then = "stored" => pc[q] \in {"persist", "rename"}
  /\ pc[q] \in {"measure", "write", "put"} \/ job[q].then \in {"stored", "removeFile"} => job[q].drop = << >>

(***************************************************************************)
(* Versions: what callers carry was in the bucket.                         *)
(***************************************************************************)
Wants(q) ==
  call[q].op = "get" =>
    /\ call[q].want # None => call[q].want \in written[Key(q)]
    /\ remote[Key(q)] # None => remote[Key(q)] \in live[q]
Brings(q) ==
  HasData(q) =>
    /\ job[q].data \in written[Key(q)]
    /\ call[q].op = "put" => job[q].data = call[q].want
    /\ call[q].op = "get" => \A r \in Procs : OS!Getting(r, Key(q)) => job[q].data \in live[r]
VersionInv ==
  /\ \A k \in Keys : remote[k] # None => remote[k] \in written[k]
  /\ \A q \in Procs : Wants(q) /\ Brings(q)

(***************************************************************************)
(* Identifiers: each belongs to one key, wherever it is remembered, and    *)
(* its file holds a version of that key.                                   *)
(***************************************************************************)
Names(m, k, u) == m[k] # None /\ m[k].uid = u
Claim(k, u) ==
  \/ Names(meta, k, u) \/ Names(persisted, k, u)
  \/ \E q \in Procs : Names(job[q].snap, k, u) \/ (Key(q) = k /\ job[q].uid = u)

UidInv ==
  /\ \A k \in Keys, u \in Uids : Claim(k, u) => u <= uuids /\ (files[u] # None => files[u] \in written[k])
  /\ \A k, l \in Keys, u \in Uids : Claim(k, u) /\ Claim(l, u) => k = l
  /\ \A u \in Uids : u > uuids => files[u] = None

(***************************************************************************)
(* Files: an entry that is not torn keeps its file.  Dooms: the caller is  *)
(* on its way to remove the file.  Kills: it may change the file now.      *)
(***************************************************************************)
Dooms(q, u) == (job[q].then = "removeFile" /\ job[q].uid = u) \/ u \in ToSet(job[q].drop)
Kills(q, u) ==
  \/ pc[q] = "removeFile" /\ job[q].uid = u
  \/ pc[q] = "evictFiles" /\ (u \in ToSet(job[q].drop) \/ job[q].uid = u)
  \/ pc[q] \in {"measure", "write"} /\ job[q].uid = u

Putting(q, k) == pc[q] = "put" /\ Key(q) = k

DoomInv == \A q \in Procs, u \in Uids : Dooms(q, u) => u <= uuids

EntryInv(k) ==
  k \notin torn =>
    \A u \in Uids : Names(meta, k, u) =>
      /\ \A q \in Procs : ~ Dooms(q, u)
      /\ (\A q \in Procs : ~ Putting(q, k)) => files[u] = meta[k].hash

StoreInv(p) ==
  Storing(p) /\ Key(p) \notin torn =>
    \A u \in Uids : job[p].uid = u =>
      /\ \A q \in Procs \ {p} : ~ Dooms(q, u)
      /\ meta[Key(p)] # None => Names(meta, Key(p), u)
      /\ pc[p] = "put" => files[u] = job[p].data

ReadInv(p) ==
  pc[p] = "readFile" /\ Key(p) \notin torn =>
    \A u \in Uids : job[p].uid = u => files[u] \in {None, call[p].want}

(***************************************************************************)
(* The metadata file: behind memory by what is still to be written, and by *)
(* removals whose files are still there.                                   *)
(***************************************************************************)
SnapInv(p) == pc[p] = "rename" => \A k \in Keys \ stale : job[p].snap[k] = meta[k]

Unsaved(q, k) == job[q].then = "stored" /\ Key(q) = k
Leftover(k) ==
  \A u \in Uids : Names(persisted, k, u) => files[u] = persisted[k].hash /\ \A q \in Procs : ~ Kills(q, u)
DiskInv(k) ==
  k \notin stale \cup torn /\ (\A q \in Procs : ~ Unsaved(q, k)) =>
    persisted[k] = meta[k] \/ (meta[k] = None /\ Leftover(k))

FileInv ==
  /\ DoomInv
  /\ \A k \in Keys : EntryInv(k) /\ DiskInv(k)
  /\ \A p \in Procs : StoreInv(p) /\ ReadInv(p) /\ SnapInv(p)

S3Inv == S3Type /\ LruInv /\ (\A q \in Procs : Shape(q)) /\ VersionInv /\ UidInv /\ FileInv

-----------------------------------------------------------------------------
(***************************************************************************)
(* What steps do to the callers: a step moves one caller, or ends those of *)
(* a flight.                                                               *)
(***************************************************************************)
Same(q) == pc'[q] = pc[q] /\ job'[q] = job[q] /\ call'[q] = call[q]
Ended(q) == pc'[q] = "idle" /\ job'[q] = NoJob /\ call'[q] = NoCall
Others(p) == \A q \in Procs \ {p} : Same(q)

LEMMA NoJobType == NoJob \in Jobs /\ NoCall \in Calls
<1>1. << >> \in Seq(Uids) /\ [k \in Keys |-> None] \in Metadata
  BY DEF Metadata
<1> QED
  BY <1>1 DEF NoJob, Jobs, NoCall, OS!NoCall, Calls

\* A caller goes on: where it is and what it has afterwards.
LEMMA MovedTo ==
  ASSUME S3Type, NEW p \in Procs, NEW where \in Places, NEW j \in Jobs,
         Goto(p, where), job' = [job EXCEPT ![p] = j], UNCHANGED call
  PROVE  /\ CallersType'
         /\ Others(p) /\ pc'[p] = where /\ job'[p] = j /\ call'[p] = call[p]
BY DEF S3Type, CallersType, Goto, Others, Same

LEMMA StayedJob ==
  ASSUME S3Type, NEW p \in Procs, NEW where \in Places, Goto(p, where), UNCHANGED <<job, call>>
  PROVE  /\ CallersType'
         /\ Others(p) /\ pc'[p] = where /\ job'[p] = job[p] /\ call'[p] = call[p]
BY DEF S3Type, CallersType, Goto, Others, Same

\* Calls end.
LEMMA Finished ==
  ASSUME S3Type, NEW ps, NEW a, Finish(ps, a)
  PROVE  /\ CallersType'
         /\ live' \in [Procs -> SUBSET Versions]
         /\ \A q \in Procs : IF q \in ps THEN Ended(q) ELSE Same(q) /\ live'[q] = live[q]
         /\ UNCHANGED <<remote, written>>
<1>1. \A q \in Procs : IF q \in ps THEN Ended(q) ELSE Same(q) /\ live'[q] = live[q]
  BY DEF Finish, Ended, Same
<1>2. pc' \in [Procs -> Places] /\ live' \in [Procs -> SUBSET Versions]
  BY DEF Finish, S3Type, CallersType, Places
<1>3. job' \in [Procs -> Jobs]
  BY NoJobType DEF Finish, S3Type, CallersType
<1>4. call' \in [Procs -> Calls]
  BY NoJobType DEF Finish, S3Type, CallersType
<1> QED
  BY <1>1, <1>2, <1>3, <1>4 DEF Finish, CallersType

\* What each step leaves its caller with.
LEMMA CallEffect ==
  ASSUME S3Type, NEW p \in Procs, Shape(p), NEW op \in {"get", "put", "remove"}, NEW k \in Keys,
         NEW want \in Versions \cup {None}, Call(p, op, k, want)
  PROVE  /\ CallersType' /\ Others(p) /\ job'[p] = job[p] /\ pc[p] = "idle"
         /\ call'[p] = [op |-> op, key |-> k, want |-> want]
         /\ pc'[p] \in {"flight", "lookup", "upload", "delete"}
         /\ op = "get" => pc'[p] \in {"flight", "lookup"}
         /\ op = "put" => pc'[p] = "upload"
         /\ op = "remove" => pc'[p] = "delete"
<1>1. /\ call[p] = NoCall /\ call' = [call EXCEPT ![p] = [op |-> op, key |-> k, want |-> want]]
      /\ UNCHANGED job
  BY DEF Call, OS!Call, NoCall
<1>2. pc[p] = "idle"
  BY <1>1, S3CacheAssumption DEF Shape, Key, NoCall, OS!NoCall
<1>3. PICK w \in {"flight", "lookup", "upload", "delete"} :
        /\ Goto(p, w)
        /\ op = "get" => w \in {"flight", "lookup"}
        /\ op = "put" => w = "upload"
        /\ op = "remove" => w = "delete"
  <2>1. CASE op = "get"
    BY <2>1 DEF Call
  <2>2. CASE op = "put"
    BY <2>2 DEF Call
  <2>3. CASE op = "remove"
    BY <2>3 DEF Call
  <2> QED
    BY <2>1, <2>2, <2>3
<1>4. [op |-> op, key |-> k, want |-> want] \in Calls
  BY DEF Calls
<1>5. pc' = [pc EXCEPT ![p] = w] /\ w \in Places
  BY <1>3 DEF Goto, Places
<1> QED
  BY <1>1, <1>2, <1>3, <1>4, <1>5 DEF S3Type, CallersType, Others, Same

LEMMA ReadCachedEffect ==
  ASSUME S3Type, NEW p \in Procs, Shape(p), ReadCached(p)
  PROVE  /\ CallersType' /\ Others(p) /\ UNCHANGED call
         /\ \/ /\ pc'[p] = "flight" /\ job'[p] = job[p] /\ torn' = torn
            \/ /\ pc'[p] = "readFile" /\ meta[Key(p)] # None /\ meta[Key(p)].hash = call[p].want
               /\ job'[p] = [job[p] EXCEPT !.uid = meta[Key(p)].uid]
               /\ torn' = IF BeingStored(Key(p)) THEN torn \cup {Key(p)} ELSE torn
<1> DEFINE e == meta[Key(p)]
           hit == e # None /\ e.hash = call[p].want
           u == IF hit THEN e.uid ELSE job[p].uid
<1>0. Key(p) \in Keys /\ job[p] \in Jobs
  BY DEF ReadCached, Shape, S3Type, CallersType
<1>1. e \in Entries \cup {None}
  BY <1>0 DEF S3Type, Metadata
<1>2. u \in Nat
  BY <1>0, <1>1 DEF Entries, Uids, Jobs
<1>3. /\ UNCHANGED call /\ job' = [job EXCEPT ![p].uid = u] /\ Goto(p, IF hit THEN "readFile" ELSE "flight")
      /\ torn' = IF hit /\ BeingStored(Key(p)) THEN torn \cup {Key(p)} ELSE torn
  BY DEF ReadCached, sharedVars, S3Type, CallersType
<1> HIDE DEF u, hit, e
<1>4. [job[p] EXCEPT !.uid = u] \in Jobs
  BY <1>0, <1>2 DEF Jobs
<1>5. job' = [job EXCEPT ![p] = [job[p] EXCEPT !.uid = u]]
  BY <1>3
<1>6. CallersType' /\ Others(p) /\ pc'[p] = (IF hit THEN "readFile" ELSE "flight")
      /\ job'[p] = [job[p] EXCEPT !.uid = u]
  <2>1. (IF hit THEN "readFile" ELSE "flight") \in Places
    BY DEF Places
  <2> QED
    BY <1>3, <1>4, <1>5, <2>1, MovedTo
<1>7. CASE hit
  BY <1>3, <1>6, <1>7 DEF u, hit, e
<1>8. CASE ~ hit
  <2>1. [job[p] EXCEPT !.uid = u] = job[p]
    BY <1>0, <1>8 DEF u, Jobs
  <2> QED
    BY <2>1, <1>3, <1>6, <1>8
<1> QED
  BY <1>7, <1>8

LEMMA FlightEffect ==
  ASSUME S3Type, NEW p \in Procs, Flight(p)
  PROVE  CallersType' /\ Others(p) /\ UNCHANGED <<call, job>> /\ pc'[p] \in {"join", "fetch"}
<1>1. PICK w \in {"join", "fetch"} : Goto(p, w)
  BY DEF Flight
<1>2. w \in Places /\ UNCHANGED <<job, call>>
  BY DEF Flight, sharedVars, Places
<1> QED
  BY <1>1, <1>2, StayedJob

LEMMA FetchEffect ==
  ASSUME S3Type, NEW p \in Procs, Shape(p), Fetch(p)
  PROVE  /\ CallersType' /\ Others(p) /\ UNCHANGED call /\ pc'[p] = "store"
         /\ job'[p] = [job[p] EXCEPT !.data = remote[Key(p)]] /\ remote[Key(p)] # None
<1>1. /\ UNCHANGED call /\ Goto(p, "store") /\ remote[Key(p)] # None
      /\ job' = [job EXCEPT ![p] = [job[p] EXCEPT !.data = remote[Key(p)]]]
  BY DEF Fetch, sharedVars
<1>2. Key(p) \in Keys /\ job[p] \in Jobs
  BY DEF Fetch, Shape, S3Type, CallersType
<1>3. [job[p] EXCEPT !.data = remote[Key(p)]] \in Jobs
  BY <1>2 DEF Jobs, S3Type
<1>4. "store" \in Places
  BY DEF Places
<1> QED
  BY <1>1, <1>3, <1>4, MovedTo

LEMMA UploadEffect ==
  ASSUME S3Type, NEW p \in Procs, Shape(p), Upload(p)
  PROVE  /\ CallersType' /\ Others(p) /\ UNCHANGED call /\ pc'[p] = "store"
         /\ job'[p] = [job[p] EXCEPT !.data = call[p].want] /\ call[p].want # None
<1>1. UNCHANGED call /\ Goto(p, "store") /\ job' = [job EXCEPT ![p] = [job[p] EXCEPT !.data = call[p].want]]
  BY DEF Upload, OS!Upload
<1>2. job[p] \in Jobs /\ call[p] \in Calls /\ call[p].want # None
  BY DEF Upload, Shape, S3Type, CallersType
<1>3. [job[p] EXCEPT !.data = call[p].want] \in Jobs
  BY <1>2 DEF Jobs, Calls
<1>4. "store" \in Places
  BY DEF Places
<1> QED
  BY <1>1, <1>2, <1>3, <1>4, MovedTo

LEMMA DeleteEffect ==
  ASSUME S3Type, NEW p \in Procs, Delete(p)
  PROVE  CallersType' /\ Others(p) /\ UNCHANGED <<call, job>> /\ pc'[p] = "forget"
<1>1. "forget" \in Places /\ Goto(p, "forget") /\ UNCHANGED <<job, call>>
  BY DEF Delete, OS!Delete, Places
<1> QED
  BY <1>1, StayedJob

LEMMA ForgetEffect ==
  ASSUME S3Type, NEW p \in Procs, Shape(p), Forget(p), meta[Key(p)] # None
  PROVE  /\ CallersType' /\ Others(p) /\ UNCHANGED sharedVars /\ pc'[p] = "persist"
         /\ job'[p] = [job[p] EXCEPT !.uid = meta[Key(p)].uid, !.then = "removeFile"]
         /\ meta' = [meta EXCEPT ![Key(p)] = None] /\ lru' = Without(Key(p))
         /\ Tears(p, {Key(p)}) /\ Outdates(p, {Key(p)})
<1>1. /\ meta' = [meta EXCEPT ![Key(p)] = None] /\ lru' = Without(Key(p))
      /\ Tears(p, {Key(p)}) /\ Outdates(p, {Key(p)})
      /\ UNCHANGED sharedVars /\ Goto(p, "persist")
      /\ job' = [job EXCEPT ![p].uid = meta[Key(p)].uid, ![p].then = "removeFile"]
  BY DEF Forget
<1>2. job[p] \in Jobs /\ meta[Key(p)] \in Entries
  BY DEF Forget, Shape, S3Type, CallersType, Metadata
<1>3. [job[p] EXCEPT !.uid = meta[Key(p)].uid, !.then = "removeFile"] \in Jobs
  <2>1. meta[Key(p)].uid \in Nat
    BY <1>2 DEF Entries, Uids
  <2> QED
    BY <1>2, <2>1 DEF Jobs
<1>4. job' = [job EXCEPT ![p] = [job[p] EXCEPT !.uid = meta[Key(p)].uid, !.then = "removeFile"]]
  BY <1>1 DEF S3Type, CallersType
<1>5. "persist" \in Places /\ UNCHANGED call
  BY <1>1 DEF Places, sharedVars
<1> QED
  BY <1>1, <1>3, <1>4, <1>5, MovedTo

LEMMA PersistEffect ==
  ASSUME S3Type, NEW p \in Procs, Persist(p)
  PROVE  /\ CallersType' /\ Others(p) /\ UNCHANGED call /\ pc'[p] = "rename"
         /\ job'[p] = [job[p] EXCEPT !.snap = meta]
<1>1. "rename" \in Places /\ Goto(p, "rename") /\ UNCHANGED call
  BY DEF Persist, Places, sharedVars
<1>2. job' = [job EXCEPT ![p] = [job[p] EXCEPT !.snap = meta]]
  BY DEF Persist
<1>3. [job[p] EXCEPT !.snap = meta] \in Jobs
  BY DEF Jobs, S3Type, CallersType
<1> QED
  BY <1>1, <1>2, <1>3, MovedTo

LEMMA RenameEffect ==
  ASSUME S3Type, NEW p \in Procs, Shape(p), Rename(p), job[p].then # "stored"
  PROVE  /\ CallersType' /\ Others(p) /\ UNCHANGED sharedVars
         /\ pc'[p] = job[p].then /\ pc'[p] \in {"removeFile", "evictFiles"}
         /\ job'[p] = [job[p] EXCEPT !.snap = NoJob.snap]
<1>1. /\ UNCHANGED sharedVars /\ Goto(p, job[p].then) /\ pc[p] = "rename"
      /\ job' = [job EXCEPT ![p] = [job[p] EXCEPT !.snap = NoJob.snap]]
  BY DEF Rename
<1>2. job[p] \in Jobs
  BY DEF S3Type, CallersType
<1>3. job[p].then \in {"removeFile", "evictFiles"}
  BY <1>1, <1>2 DEF Jobs, Shape
<1>4. NoJob.snap \in Metadata
  BY DEF NoJob, Metadata
<1>5. [job[p] EXCEPT !.snap = NoJob.snap] \in Jobs
  BY <1>2, <1>4 DEF Jobs
<1>6. job[p].then \in Places /\ UNCHANGED call
  BY <1>1, <1>3 DEF Places, sharedVars
<1> QED
  BY <1>1, <1>3, <1>5, <1>6, MovedTo

LEMMA ResolvedUID ==
  ASSUME S3Type, NEW p \in Procs, Key(p) \in Keys
  PROVE  /\ meta[Key(p)] = None => ResolveUID(p).uid = uuids + 1
         /\ meta[Key(p)] # None => ResolveUID(p).uid = meta[Key(p)].uid
         /\ ResolveUID(p).uid \in Nat /\ ResolveUID(p).old \in Nat
<1>1. CASE meta[Key(p)] = None
  BY <1>1 DEF ResolveUID, S3Type
<1>2. CASE meta[Key(p)] # None
  <2>1. meta[Key(p)] \in Entries
    BY <1>2 DEF S3Type, Metadata
  <2>2. meta[Key(p)].uid \in Nat /\ Size[meta[Key(p)].hash] \in Nat
    BY <2>1, S3CacheAssumption DEF Entries, Uids
  <2> QED
    BY <1>2, <2>2 DEF ResolveUID
<1> QED
  BY <1>1, <1>2

LEMMA StoreEffect ==
  ASSUME S3Type, NEW p \in Procs, Shape(p), Store(p)
  PROVE  /\ CallersType' /\ Others(p) /\ UNCHANGED call /\ pc'[p] = "measure"
         /\ ResolveUID(p).uid \in Uids
         /\ \E f \in Int : job'[p] = [job[p] EXCEPT !.uid = ResolveUID(p).uid, !.diff = f]
         /\ uuids' = IF ResolveUID(p).uid > uuids THEN ResolveUID(p).uid ELSE uuids
<1> DEFINE r == ResolveUID(p)
           f == Size[job[p].data] - r.old
<1>1. Key(p) \in Keys /\ job[p] \in Jobs /\ job[p].data # None
  BY DEF Store, Shape, HasData, S3Type, CallersType
<1>2. r.uid \in Nat /\ r.old \in Nat
  BY <1>1, ResolvedUID
<1>3. Size[job[p].data] \in Nat
  BY <1>1, S3CacheAssumption DEF Jobs
<1>4. f \in Int
  BY <1>2, <1>3
<1>5. /\ job' = [job EXCEPT ![p].uid = r.uid, ![p].diff = f]
      /\ uuids' = IF r.uid > uuids THEN r.uid ELSE uuids
      /\ UNCHANGED call /\ r.uid \in Uids
      /\ Goto(p, "measure")
  BY DEF Store, sharedVars
<1> HIDE DEF r, f
<1>6. job' = [job EXCEPT ![p] = [job[p] EXCEPT !.uid = r.uid, !.diff = f]]
  BY <1>5 DEF S3Type, CallersType
<1>7. [job[p] EXCEPT !.uid = r.uid, !.diff = f] \in Jobs
  BY <1>1, <1>2, <1>4 DEF Jobs
<1>8. "measure" \in Places
  BY DEF Places
<1>9. /\ CallersType' /\ Others(p) /\ pc'[p] = "measure"
      /\ job'[p] = [job[p] EXCEPT !.uid = r.uid, !.diff = f]
  BY <1>5, <1>6, <1>7, <1>8, MovedTo
<1> QED
  BY <1>4, <1>5, <1>9 DEF r

LEMMA MeasureEffect ==
  ASSUME S3Type, NEW p \in Procs, MeasureRoom(p)
  PROVE  CallersType' /\ Others(p) /\ UNCHANGED <<call, job>> /\ pc'[p] \in {"evict", "write"}
<1>1. PICK w \in {"evict", "write"} : Goto(p, w)
  BY DEF MeasureRoom
<1>2. w \in Places /\ UNCHANGED <<job, call>>
  BY DEF MeasureRoom, sharedVars, Places
<1> QED
  BY <1>1, <1>2, StayedJob

LEMMA EvictEffect ==
  ASSUME S3Type, LruInv, NEW p \in Procs, Evict(p)
  PROVE  /\ CallersType' /\ Others(p) /\ UNCHANGED sharedVars /\ pc'[p] = "persist"
         /\ \E n \in 0..Len(lru) :
              LET ks == {lru[i] : i \in 1..n}
                  drop == [i \in 1..n |-> meta[lru[i]].uid]
              IN /\ meta' = [k \in Keys |-> IF k \in ks THEN None ELSE meta[k]]
                 /\ lru' = SubSeq(lru, n + 1, Len(lru))
                 /\ drop \in Seq(Uids)
                 /\ job'[p] = [job[p] EXCEPT !.drop = drop, !.then = "evictFiles"]
                 /\ Tears(p, ks) /\ Outdates(p, ks)
<1>1. PICK n \in 0..Len(lru) :
        LET ks == {lru[i] : i \in 1..n}
        IN /\ meta' = [k \in Keys |-> IF k \in ks THEN None ELSE meta[k]]
           /\ lru' = SubSeq(lru, n + 1, Len(lru))
           /\ job' = [job EXCEPT ![p].drop = [i \in 1..n |-> meta[lru[i]].uid], ![p].then = "evictFiles"]
           /\ Tears(p, ks) /\ Outdates(p, ks)
           /\ Goto(p, "persist") /\ UNCHANGED sharedVars
  BY DEF Evict
<1> DEFINE drop == [i \in 1..n |-> meta[lru[i]].uid]
<1>2. \A i \in 1..n : meta[lru[i]] \in Entries
  BY DEF LruInv, S3Type, Metadata
<1>3. drop \in Seq(Uids)
  <2>1. \A i \in 1..n : meta[lru[i]].uid \in Uids
    BY <1>2 DEF Entries
  <2>2. n \in Nat
    BY DEF LruInv
  <2>3. drop \in [1..n -> Uids]
    BY <2>1
  <2> QED
    BY <2>2, <2>3
<1>4. job' = [job EXCEPT ![p].drop = drop, ![p].then = "evictFiles"]
  BY <1>1
<1> HIDE DEF drop
<1>5. job' = [job EXCEPT ![p] = [job[p] EXCEPT !.drop = drop, !.then = "evictFiles"]]
  BY <1>4 DEF S3Type, CallersType
<1>6. [job[p] EXCEPT !.drop = drop, !.then = "evictFiles"] \in Jobs
  BY <1>3 DEF Jobs, S3Type, CallersType
<1>7. "persist" \in Places /\ UNCHANGED call
  BY <1>1 DEF Places, sharedVars
<1>8. /\ CallersType' /\ Others(p) /\ pc'[p] = "persist"
      /\ job'[p] = [job[p] EXCEPT !.drop = drop, !.then = "evictFiles"]
  BY <1>1, <1>5, <1>6, <1>7, MovedTo
<1> QED
  BY <1>1, <1>3, <1>8 DEF drop

\* Of the three ways on, the last is the end of the call.
LEMMA EvictFileEffect ==
  ASSUME S3Type, NEW p \in Procs, EvictFile(p)
  PROVE  \/ /\ CallersType' /\ Others(p) /\ UNCHANGED sharedVars
            /\ \/ job[p].drop = << >> /\ pc'[p] = "write" /\ UNCHANGED <<job, files>>
               \/ /\ job[p].drop # << >> /\ pc'[p] = pc[p]
                  /\ files' = [files EXCEPT ![Head(job[p].drop)] = None]
                  /\ job'[p] = [job[p] EXCEPT !.drop = Tail(job[p].drop)]
         \/ StoreEnds(p) /\ UNCHANGED files
<1>1. job[p] \in Jobs
  BY DEF S3Type, CallersType
<1>2. CASE job[p].drop = << >> /\ Goto(p, "write") /\ UNCHANGED <<files, job, sharedVars>>
  <2>1. "write" \in Places /\ UNCHANGED <<call, job>>
    BY <1>2 DEF Places, sharedVars
  <2> QED
    BY <1>2, <2>1, StayedJob
<1>3. CASE /\ job[p].drop # << >> /\ files' = [files EXCEPT ![Head(job[p].drop)] = None]
           /\ job' = [job EXCEPT ![p].drop = Tail(@)] /\ UNCHANGED <<pc, sharedVars>>
  <2>1. job' = [job EXCEPT ![p] = [job[p] EXCEPT !.drop = Tail(job[p].drop)]]
    BY <1>3 DEF S3Type, CallersType
  <2>2. job[p].drop \in Seq(Uids)
    BY <1>1 DEF Jobs
  <2>3. Tail(job[p].drop) \in Seq(Uids)
    BY <1>3, <2>2
  <2>4. [job[p] EXCEPT !.drop = Tail(job[p].drop)] \in Jobs
    BY <1>1, <2>3 DEF Jobs
  <2>5. CallersType' /\ Others(p) /\ job'[p] = [job[p] EXCEPT !.drop = Tail(job[p].drop)]
    BY <1>3, <2>1, <2>4 DEF S3Type, CallersType, Others, Same, sharedVars
  <2> QED
    BY <1>3, <2>5
<1>4. CASE StoreEnds(p) /\ UNCHANGED files
  BY <1>4
<1> QED
  BY <1>2, <1>3, <1>4 DEF EvictFile

LEMMA WriteFileEffect ==
  ASSUME S3Type, NEW p \in Procs, WriteFile(p)
  PROVE  CallersType' /\ Others(p) /\ UNCHANGED <<call, job>> /\ pc'[p] = "put"
<1>1. "put" \in Places /\ Goto(p, "put") /\ UNCHANGED <<job, call>>
  BY DEF WriteFile, sharedVars, Places
<1> QED
  BY <1>1, StayedJob

LEMMA PutEffect ==
  ASSUME S3Type, NEW p \in Procs, Put(p)
  PROVE  /\ CallersType' /\ Others(p) /\ UNCHANGED call /\ pc'[p] = "persist"
         /\ job'[p] = [job[p] EXCEPT !.then = "stored"]
<1>1. "persist" \in Places /\ Goto(p, "persist") /\ UNCHANGED call
  BY DEF Put, Places, sharedVars
<1>2. job' = [job EXCEPT ![p] = [job[p] EXCEPT !.then = "stored"]]
  BY DEF Put
<1>3. [job[p] EXCEPT !.then = "stored"] \in Jobs
  BY DEF Jobs, S3Type, CallersType
<1> QED
  BY <1>1, <1>2, <1>3, MovedTo

-----------------------------------------------------------------------------
(***************************************************************************)
(* Types.                                                                  *)
(***************************************************************************)
\* Steps that end calls and leave the bucket and the cache alone.
LEMMA EndsType ==
  ASSUME S3Type, NEW ps, NEW a, Finish(ps, a), torn' \subseteq Keys, stale' \subseteq Keys,
         persisted' \in Metadata, files' \in [Uids -> Versions \cup {None}], UNCHANGED <<meta, uuids>>
  PROVE  S3Type'
BY Finished DEF S3Type

LEMMA MovesType ==
  ASSUME S3Type, CallersType', UNCHANGED <<remote, written, live, uuids>>, torn' \subseteq Keys, stale' \subseteq Keys,
         meta' \in Metadata, persisted' \in Metadata, files' \in [Uids -> Versions \cup {None}]
  PROVE  S3Type'
BY DEF S3Type

LEMMA TornStale ==
  ASSUME S3Type, NEW p, NEW ks \in SUBSET Keys
  PROVE  /\ Tears(p, ks) => torn' \subseteq Keys
         /\ Outdates(p, ks) => stale' \subseteq Keys
BY DEF S3Type, Tears, Outdates

LEMMA TypeStep ==
  ASSUME S3Type, LruInv, \A q \in Procs : Shape(q), [Next]_vars
  PROVE  S3Type'
<1> USE S3CacheAssumption
<1>1. ASSUME NEW p \in Procs, NEW op \in {"get", "put", "remove"}, NEW k \in Keys,
             NEW want \in Versions \cup {None}, Call(p, op, k, want)
      PROVE  S3Type'
  <2>1. CallersType'
    <3>1. Shape(p)
      OBVIOUS
    <3> HIDE S3CacheAssumption
    <3> QED
      BY <1>1, <3>1, CallEffect
  <2>2. live' \in [Procs -> SUBSET Versions]
    <3>1. UNION {live[q] : q \in {r \in Procs : OS!Getting(r, k)}} \subseteq Versions
      BY DEF S3Type
    <3>2. {remote[k]} \ {None} \subseteq Versions
      BY DEF S3Type
    <3> QED
      BY <3>1, <3>2, <1>1 DEF Call, OS!Call, S3Type
  <2> QED
    BY <2>1, <2>2, <1>1 DEF Call, OS!Call, S3Type, diskVars
<1>2. ASSUME NEW p \in Procs, ReadCached(p) PROVE S3Type'
  <2>1. CallersType' /\ torn' \subseteq Keys
    BY <1>2, ReadCachedEffect DEF S3Type, Shape, ReadCached
  <2> QED
    BY <2>1, <1>2, MovesType DEF S3Type, ReadCached, sharedVars, cacheVars, diskVars
<1>3. ASSUME NEW p \in Procs, ReadFile(p) PROVE S3Type'
  <2>1. UNCHANGED <<torn, stale, persisted, files, meta, uuids>>
    BY <1>3 DEF ReadFile, diskVars
  <2> QED
    BY <2>1, <1>3, EndsType DEF S3Type, ReadFile
<1>4. ASSUME NEW p \in Procs, Flight(p) PROVE S3Type'
  BY <1>4, FlightEffect, MovesType DEF S3Type, Flight, sharedVars, cacheVars, diskVars
<1>5. ASSUME NEW p \in Procs, FetchFails(p) \/ RemoteFails(p) \/ StoreSkipped(p) \/ WriteFails(p) PROVE S3Type'
  <2>1. UNCHANGED <<torn, stale, persisted, files, meta, uuids>>
    BY <1>5 DEF FetchFails, RemoteFails, StoreSkipped, WriteFails, cacheVars, diskVars
  <2>2. \E ps, a : Finish(ps, a)
    BY <1>5 DEF FetchFails, RemoteFails, StoreSkipped, WriteFails, StoreEnds
  <2> QED
    BY <2>1, <2>2, EndsType DEF S3Type
<1>6. ASSUME NEW p \in Procs, Fetch(p) PROVE S3Type'
  BY <1>6, FetchEffect, MovesType DEF S3Type, Fetch, sharedVars, cacheVars, diskVars
<1>7. ASSUME NEW p \in Procs, Upload(p) PROVE S3Type'
  <2>1. CallersType'
    BY <1>7, UploadEffect
  <2>2. Key(p) \in Keys /\ call[p].want \in Versions
    BY <1>7 DEF Upload, Shape, S3Type, CallersType, Calls
  <2>3. remote' \in [Keys -> Versions \cup {None}] /\ written' \in [Keys -> SUBSET Versions]
    BY <2>2, <1>7 DEF Upload, OS!Upload, S3Type, Key
  <2>4. live' \in [Procs -> SUBSET Versions]
    BY <2>2, <1>7 DEF Upload, OS!Upload, S3Type
  <2> QED
    BY <2>1, <2>3, <2>4, <1>7 DEF S3Type, Upload, cacheVars, diskVars
<1>8. ASSUME NEW p \in Procs, Delete(p) PROVE S3Type'
  <2>1. CallersType'
    BY <1>8, DeleteEffect
  <2>2. remote' \in [Keys -> Versions \cup {None}]
    BY <1>8 DEF Delete, OS!Delete, S3Type
  <2> QED
    BY <2>1, <2>2, <1>8 DEF S3Type, Delete, OS!Delete, cacheVars, diskVars
<1>9. ASSUME NEW p \in Procs, Forget(p) PROVE S3Type'
  <2>1. CASE meta[Key(p)] = None
    <3>1. Finish({p}, OS!Done(None)) /\ UNCHANGED <<torn, stale, persisted, files, meta, uuids>>
      BY <1>9, <2>1 DEF Forget, diskVars
    <3> QED
      BY <3>1, EndsType DEF S3Type
  <2>2. CASE meta[Key(p)] # None
    <3>1. Key(p) \in Keys
      BY <1>9 DEF Forget, Shape
    <3>2. /\ CallersType' /\ UNCHANGED sharedVars /\ meta' = [meta EXCEPT ![Key(p)] = None]
          /\ Tears(p, {Key(p)}) /\ Outdates(p, {Key(p)})
      BY <1>9, <2>2, ForgetEffect
    <3>3. meta' \in Metadata /\ torn' \subseteq Keys /\ stale' \subseteq Keys
      BY <3>1, <3>2, TornStale DEF S3Type, Metadata
    <3> QED
      BY <3>2, <3>3, <1>9, MovesType DEF S3Type, Forget, sharedVars, diskVars
  <2> QED
    BY <2>1, <2>2
<1>10. ASSUME NEW p \in Procs, RemoveFile(p) PROVE S3Type'
  <2>1. Key(p) \in Keys
    BY <1>10 DEF RemoveFile, Shape
  <2>2. torn' \subseteq Keys /\ files' \in [Uids -> Versions \cup {None}]
    BY <2>1, <1>10, TornStale DEF RemoveFile, S3Type
  <2> QED
    BY <2>2, <1>10, EndsType DEF RemoveFile, S3Type
<1>11. ASSUME NEW p \in Procs, Persist(p) PROVE S3Type'
  BY <1>11, PersistEffect, MovesType DEF S3Type, Persist, sharedVars, diskVars
<1>12. ASSUME NEW p \in Procs, Rename(p) PROVE S3Type'
  <2>1. persisted' \in Metadata
    <3>1. job[p].snap \in Metadata /\ meta \in Metadata
      BY DEF S3Type, CallersType, Jobs
    <3> QED
      BY <3>1, <1>12 DEF Rename, Metadata
  <2>2. stale' \subseteq Keys /\ UNCHANGED <<torn, meta, files, uuids>>
    BY <1>12 DEF Rename, S3Type
  <2>3. CASE job[p].then = "stored"
    BY <2>1, <2>2, <2>3, <1>12, EndsType DEF Rename, StoreEnds, S3Type
  <2>4. CASE job[p].then # "stored"
    BY <2>1, <2>2, <2>4, <1>12, RenameEffect, MovesType DEF S3Type, sharedVars
  <2> QED
    BY <2>3, <2>4
<1>13. ASSUME NEW p \in Procs, RenameFails(p) PROVE S3Type'
  <2>1. stale' \subseteq Keys /\ UNCHANGED <<torn, meta, persisted, files, uuids>>
    BY <1>13 DEF RenameFails, S3Type, diskVars
  <2>2. \E ps, a : Finish(ps, a)
    BY <1>13 DEF RenameFails, StoreEnds
  <2> QED
    BY <2>1, <2>2, EndsType DEF S3Type
<1>14. ASSUME NEW p \in Procs, Store(p) PROVE S3Type'
  <2>1. CallersType' /\ uuids' \in Nat
    <3>1. /\ CallersType' /\ ResolveUID(p).uid \in Uids
          /\ uuids' = IF ResolveUID(p).uid > uuids THEN ResolveUID(p).uid ELSE uuids
      BY <1>14, StoreEffect
    <3>2. ResolveUID(p).uid \in Nat /\ uuids \in Nat
      BY <3>1 DEF Uids, S3Type
    <3> QED
      BY <3>1, <3>2
  <2> QED
    BY <2>1, <1>14 DEF S3Type, Store, sharedVars, diskVars
<1>15. ASSUME NEW p \in Procs, Evict(p) PROVE S3Type'
  <2>1. CallersType' /\ UNCHANGED sharedVars
    BY <1>15, EvictEffect
  <2>2. PICK n \in 0..Len(lru) :
          LET ks == {lru[i] : i \in 1..n}
          IN /\ meta' = [k \in Keys |-> IF k \in ks THEN None ELSE meta[k]]
             /\ Tears(p, ks) /\ Outdates(p, ks)
    BY <1>15, EvictEffect
  <2>3. {lru[i] : i \in 1..n} \subseteq Keys
    BY DEF LruInv
  <2>4. torn' \subseteq Keys /\ stale' \subseteq Keys
    BY <2>2, <2>3, TornStale
  <2>5. meta' \in Metadata
    BY <2>2 DEF S3Type, Metadata
  <2> QED
    BY <2>1, <2>4, <2>5, <1>15, MovesType DEF S3Type, Evict, sharedVars, diskVars
<1>16. ASSUME NEW p \in Procs, EvictFile(p) PROVE S3Type'
  <2>1. UNCHANGED <<torn, meta, persisted, uuids, stale>>
    BY <1>16 DEF EvictFile
  <2>2. CASE StoreEnds(p) /\ UNCHANGED files
    BY <2>1, <2>2, EndsType DEF StoreEnds, S3Type
  <2>3. CASE ~ (StoreEnds(p) /\ UNCHANGED files)
    <3>1. CallersType' /\ UNCHANGED sharedVars
          /\ (UNCHANGED files \/ files' = [files EXCEPT ![Head(job[p].drop)] = None])
      BY <1>16, <2>3, EvictFileEffect
    <3>2. files' \in [Uids -> Versions \cup {None}]
      BY <3>1 DEF S3Type
    <3> QED
      BY <3>1, <3>2, <2>1, MovesType DEF S3Type, sharedVars
  <2> QED
    BY <2>2, <2>3
<1>17. ASSUME NEW p \in Procs, WriteFile(p) PROVE S3Type'
  <2>1. Key(p) \in Keys /\ job[p].data \in Versions
    BY <1>17 DEF WriteFile, Shape, Storing, HasData, S3Type, CallersType, Jobs
  <2>2. torn' \subseteq Keys /\ files' \in [Uids -> Versions \cup {None}]
    BY <2>1, <1>17, TornStale DEF WriteFile, S3Type
  <2> QED
    BY <2>2, <1>17, WriteFileEffect, MovesType DEF WriteFile, S3Type, sharedVars
<1>18. ASSUME NEW p \in Procs, Put(p) PROVE S3Type'
  <2>1. Key(p) \in Keys /\ job[p].data \in Versions /\ job[p].uid \in Uids
    BY <1>18 DEF Put, Shape, Storing, HasData, S3Type, CallersType, Jobs
  <2>2. torn' \subseteq Keys /\ stale' \subseteq Keys
    BY <2>1, <1>18, TornStale DEF Put
  <2>3. [uid |-> IF meta[Key(p)] = None THEN job[p].uid ELSE meta[Key(p)].uid, hash |-> job[p].data] \in Entries
    BY <2>1 DEF Entries, S3Type, Metadata
  <2>4. meta' \in Metadata
    BY <2>3, <1>18 DEF Put, S3Type, Metadata
  <2> QED
    BY <2>2, <2>4, <1>18, PutEffect, MovesType DEF Put, S3Type, sharedVars, diskVars
<1>19. CASE Crash
  <2>1. CallersType'
    BY <1>19, NoJobType DEF Crash, OS!Crash, CallersType, Places, NoCall
  <2>2. torn' \subseteq Keys /\ stale' \subseteq Keys
    BY <1>19 DEF Crash, S3Type
  <2>3. live' \in [Procs -> SUBSET Versions]
    BY <1>19 DEF Crash, OS!Crash
  <2> QED
    BY <2>1, <2>2, <2>3, <1>19 DEF Crash, OS!Crash, S3Type, diskVars
<1>20. CASE UNCHANGED vars
  BY <1>20 DEF vars, S3Type, CallersType, sharedVars, diskVars
<1>21. ASSUME NEW p \in Procs, MeasureRoom(p) PROVE S3Type'
  <2>1. CallersType'
    BY <1>21, MeasureEffect
  <2> QED
    BY <2>1, <1>21 DEF S3Type, MeasureRoom, sharedVars, diskVars
<1> QED
  BY <1>1, <1>2, <1>3, <1>4, <1>5, <1>6, <1>7, <1>8, <1>9, <1>10, <1>11, <1>12, <1>13, <1>14, <1>15, <1>16,
     <1>17, <1>18, <1>19, <1>20, <1>21 DEF Next, Step

-----------------------------------------------------------------------------
(***************************************************************************)
(* The order of use.                                                       *)
(***************************************************************************)
\* Removing an element closes the gap.
LEMMA RemovedAt ==
  ASSUME NEW S, NEW s \in Seq(S), NEW i \in 1..Len(s)
  PROVE  /\ RemoveAt(s, i) \in Seq(S) /\ Len(RemoveAt(s, i)) = Len(s) - 1
         /\ \A j \in 1..(Len(s) - 1) : RemoveAt(s, i)[j] = IF j < i THEN s[j] ELSE s[j + 1]
<1> DEFINE a == SubSeq(s, 1, i - 1)
           b == SubSeq(s, i + 1, Len(s))
<1>1. Len(s) \in Nat /\ i \in Nat
  OBVIOUS
<1>2. a \in Seq(S) /\ Len(a) = i - 1 /\ \A j \in 1..(i - 1) : a[j] = s[j]
  BY <1>1
<1>3. b \in Seq(S) /\ Len(b) = Len(s) - i /\ \A j \in 1..(Len(s) - i) : b[j] = s[i + j]
  <2>1. b \in Seq(S)
    BY <1>1
  <2>2. Len(b) = (Len(s) - (i + 1)) + 1
    BY <1>1
  <2>3. \A j \in 1..Len(b) : b[j] = s[((i + 1) + j) - 1]
    BY <1>1, <2>2
  <2>4. \A j \in 1..Len(b) : ((i + 1) + j) - 1 = i + j
    BY <1>1
  <2>5. Len(b) = Len(s) - i
    BY <1>1, <2>2
  <2> HIDE DEF b
  <2> QED
    BY <2>1, <2>3, <2>4, <2>5
<1>4. RemoveAt(s, i) = a \o b
  BY DEF RemoveAt
<1> HIDE DEF a, b
<1>5. a \o b \in Seq(S) /\ Len(a \o b) = Len(s) - 1
  <2>1. a \o b \in Seq(S) /\ Len(a \o b) = Len(a) + Len(b)
    BY <1>2, <1>3, ConcatProperties
  <2>2. (i - 1) + (Len(s) - i) = Len(s) - 1
    BY <1>1
  <2> QED
    BY <2>1, <2>2, <1>2, <1>3
<1>6. ASSUME NEW j \in 1..(Len(s) - 1)
      PROVE  (a \o b)[j] = IF j < i THEN s[j] ELSE s[j + 1]
  <2>1. CASE j < i
    BY <2>1, <1>1, <1>2, <1>3
  <2>2. CASE ~ (j < i)
    <3>1. (a \o b)[j] = b[j - (i - 1)]
      BY <2>2, <1>1, <1>2, <1>3
    <3>2. j - (i - 1) \in 1..(Len(s) - i) /\ i + (j - (i - 1)) = j + 1
      BY <2>2, <1>1
    <3> QED
      BY <2>2, <3>1, <3>2, <1>3
  <2> QED
    BY <2>1, <2>2
<1> QED
  BY <1>4, <1>5, <1>6

LEMMA WithoutFacts ==
  ASSUME lru \in Seq(Keys), NoDuplicates(lru), NEW k \in Keys
  PROVE  /\ Without(k) \in Seq(Keys) /\ NoDuplicates(Without(k))
         /\ \A i \in DOMAIN Without(k) : Without(k)[i] # k /\ \E j \in DOMAIN lru : Without(k)[i] = lru[j]
<1>1. DOMAIN lru = 1..Len(lru) /\ Len(lru) \in Nat
  OBVIOUS
<1>2. CASE k \notin ToSet(lru)
  BY <1>2 DEF Without, ToSet
<1>3. CASE k \in ToSet(lru)
  <2> DEFINE c == CHOOSE i \in DOMAIN lru : lru[i] = k
             t == RemoveAt(lru, c)
  <2>1. c \in 1..Len(lru) /\ lru[c] = k
    BY <1>1, <1>3 DEF ToSet
  <2>2. Without(k) = t
    BY <1>3 DEF Without
  <2> HIDE DEF c
  <2>3. /\ t \in Seq(Keys) /\ Len(t) = Len(lru) - 1
        /\ \A j \in 1..(Len(lru) - 1) : t[j] = IF j < c THEN lru[j] ELSE lru[j + 1]
    BY <2>1, RemovedAt
  <2> HIDE DEF t
  <2>4. DOMAIN t = 1..(Len(lru) - 1)
    BY <2>3
  <2> DEFINE at(j) == IF j < c THEN j ELSE j + 1
  <2>5. \A j \in DOMAIN t : at(j) \in DOMAIN lru /\ at(j) # c /\ t[j] = lru[at(j)]
    BY <1>1, <2>1, <2>3, <2>4
  <2>6. \A i, j \in DOMAIN t : at(i) = at(j) => i = j
    BY <2>1, <2>4, <1>1
  <2> HIDE DEF at
  <2>7. NoDuplicates(t)
    BY <2>5, <2>6 DEF NoDuplicates
  <2>8. \A i \in DOMAIN t : t[i] # k
    BY <2>1, <2>5, <1>1 DEF NoDuplicates
  <2> QED
    BY <2>2, <2>3, <2>5, <2>7, <2>8
<1> QED
  BY <1>2, <1>3

LEMMA MostRecentFacts ==
  ASSUME lru \in Seq(Keys), NoDuplicates(lru), NEW k \in Keys
  PROVE  /\ MostRecent(k) \in Seq(Keys) /\ NoDuplicates(MostRecent(k))
         /\ \A i \in DOMAIN MostRecent(k) : MostRecent(k)[i] = k \/ \E j \in DOMAIN lru : MostRecent(k)[i] = lru[j]
<1> DEFINE w == Without(k)
<1>1. /\ w \in Seq(Keys) /\ NoDuplicates(w)
      /\ \A i \in DOMAIN w : w[i] # k /\ \E j \in DOMAIN lru : w[i] = lru[j]
  BY WithoutFacts
<1>2. MostRecent(k) = Append(w, k)
  BY DEF MostRecent
<1> HIDE DEF w
<1>3. /\ DOMAIN Append(w, k) = 1..(Len(w) + 1) /\ DOMAIN w = 1..Len(w) /\ Len(w) \in Nat
      /\ Append(w, k) \in Seq(Keys) /\ Append(w, k)[Len(w) + 1] = k
      /\ \A i \in 1..Len(w) : Append(w, k)[i] = w[i]
  BY <1>1
<1>4. \A i \in 1..(Len(w) + 1) : i \in DOMAIN w \/ i = Len(w) + 1
  BY <1>3
<1>5. NoDuplicates(Append(w, k))
  BY <1>1, <1>3, <1>4 DEF NoDuplicates
<1> QED
  BY <1>1, <1>2, <1>3, <1>4, <1>5

LEMMA SuffixFacts ==
  ASSUME NEW S, NEW s \in Seq(S), NEW n \in 0..Len(s)
  PROVE  /\ SubSeq(s, n + 1, Len(s)) \in Seq(S) /\ Len(SubSeq(s, n + 1, Len(s))) = Len(s) - n
         /\ \A i \in 1..(Len(s) - n) : SubSeq(s, n + 1, Len(s))[i] = s[n + i]
<1> DEFINE m == n + 1
           l == Len(s)
           t == SubSeq(s, m, l)
<1>1. l \in Nat /\ n \in Nat /\ m \in Int /\ n <= l
  OBVIOUS
<1>2. \A i \in m..l : s[i] \in S
  BY <1>1
<1> HIDE DEF m, l
<1>3. l \in Int
  BY <1>1
<1>4. /\ t \in Seq(S) /\ Len(t) = (IF m <= l THEN (l - m) + 1 ELSE 0)
      /\ \A i \in 1..((l - m) + 1) : t[i] = s[(m + i) - 1]
  BY <1>1, <1>2, <1>3, SubSeqProperties
<1> HIDE DEF t
<1>5. (IF m <= l THEN (l - m) + 1 ELSE 0) = l - n /\ (l - m) + 1 = l - n
  BY <1>1 DEF m
<1>6. \A i \in 1..(l - n) : (m + i) - 1 = n + i
  BY <1>1 DEF m
<1> QED
  BY <1>4, <1>5, <1>6 DEF t, m, l

LEMMA LruStep ==
  ASSUME S3Type, LruInv, \A q \in Procs : Shape(q), [Next]_vars
  PROVE  LruInv'
<1>9. IsFiniteSet(Keys) /\ None \notin Entries
  BY S3CacheAssumption
<1>0. lru \in Seq(Keys) /\ NoDuplicates(lru) /\ DOMAIN lru = 1..Len(lru) /\ Len(lru) \in Nat
  BY DEF LruInv
<1>1. ASSUME UNCHANGED <<lru, meta>> PROVE LruInv'
  BY <1>1 DEF LruInv, NoDuplicates
<1>2. ASSUME NEW p \in Procs, ReadFile(p) PROVE LruInv'
  <2>1. CASE lru' = lru
    BY <2>1, <1>1, <1>2 DEF ReadFile
  <2>2. CASE lru' # lru
    <3>1. meta' = meta /\ lru' = MostRecent(Key(p)) /\ Key(p) \in Keys /\ meta[Key(p)] # None
      BY <2>2, <1>2 DEF ReadFile, Tracked
    <3>2. /\ MostRecent(Key(p)) \in Seq(Keys) /\ NoDuplicates(MostRecent(Key(p)))
          /\ \A i \in DOMAIN MostRecent(Key(p)) :
               MostRecent(Key(p))[i] = Key(p) \/ \E j \in DOMAIN lru : MostRecent(Key(p))[i] = lru[j]
      BY <1>0, <3>1, MostRecentFacts
    <3>3. \A i \in DOMAIN lru' : meta'[lru'[i]] # None
      BY <3>1, <3>2 DEF LruInv
    <3> QED
      BY <3>1, <3>2, <3>3 DEF LruInv, NoDuplicates
  <2> QED
    BY <2>1, <2>2
<1>3. ASSUME NEW p \in Procs, Forget(p) PROVE LruInv'
  <2>1. CASE meta[Key(p)] = None
    BY <2>1, <1>1, <1>3 DEF Forget
  <2>2. CASE meta[Key(p)] # None
    <3>1. Key(p) \in Keys
      BY <1>3 DEF Forget, Shape
    <3>2. lru' = Without(Key(p)) /\ meta' = [meta EXCEPT ![Key(p)] = None]
      BY <1>3, <2>2 DEF Forget
    <3>3. \A k \in Keys \ {Key(p)} : meta'[k] = meta[k]
      BY <3>2 DEF S3Type, Metadata
    <3>4. /\ Without(Key(p)) \in Seq(Keys) /\ NoDuplicates(Without(Key(p)))
          /\ \A i \in DOMAIN Without(Key(p)) : Without(Key(p))[i] # Key(p)
                                               /\ \E j \in DOMAIN lru : Without(Key(p))[i] = lru[j]
      BY <1>0, <3>1, WithoutFacts
    <3>5. \A i \in DOMAIN lru' : meta'[lru'[i]] # None
      BY <3>2, <3>3, <3>4, <1>0 DEF LruInv
    <3> QED
      BY <3>2, <3>4, <3>5 DEF LruInv, NoDuplicates
  <2> QED
    BY <2>1, <2>2
<1>4. ASSUME NEW p \in Procs, Evict(p) PROVE LruInv'
  <2>1. PICK n \in 0..Len(lru) :
          /\ meta' = [k \in Keys |-> IF k \in {lru[i] : i \in 1..n} THEN None ELSE meta[k]]
          /\ lru' = SubSeq(lru, n + 1, Len(lru))
    BY <1>4 DEF Evict
  <2>2. n \in Nat /\ n <= Len(lru)
    BY <1>0
  <2>3. /\ lru' \in Seq(Keys) /\ Len(lru') = Len(lru) - n
        /\ \A i \in 1..(Len(lru) - n) : lru'[i] = lru[n + i]
    <3>1. lru' = SubSeq(lru, n + 1, Len(lru))
      BY <2>1
    <3>2. /\ SubSeq(lru, n + 1, Len(lru)) \in Seq(Keys) /\ Len(SubSeq(lru, n + 1, Len(lru))) = Len(lru) - n
          /\ \A i \in 1..(Len(lru) - n) : SubSeq(lru, n + 1, Len(lru))[i] = lru[n + i]
      BY <1>0, SuffixFacts
    <3> QED
      BY <3>1, <3>2, Zenon
  <2>4. DOMAIN lru' = 1..(Len(lru) - n)
    BY <2>3
  <2>5. \A i \in DOMAIN lru' : n + i \in DOMAIN lru /\ lru'[i] = lru[n + i]
    BY <2>2, <2>3, <2>4, <1>0
  <2>6. \A i, j \in DOMAIN lru' : lru'[i] = lru'[j] => i = j
    BY <2>4, <2>5, <2>2, <1>0 DEF NoDuplicates
  <2>7. \A i \in DOMAIN lru' : meta'[lru'[i]] # None
    <3>1. SUFFICES ASSUME NEW i \in DOMAIN lru'
                   PROVE  meta'[lru'[i]] # None
      OBVIOUS
    <3>2. \A j \in 1..n : lru[j] # lru[n + i]
      BY <2>2, <2>4, <2>5, <1>0 DEF NoDuplicates
    <3>3. lru[n + i] \in Keys /\ meta[lru[n + i]] # None
      BY <2>5, <1>0 DEF LruInv
    <3> QED
      BY <3>2, <3>3, <2>1, <2>5
  <2> QED
    BY <2>3, <2>6, <2>7 DEF LruInv, NoDuplicates
<1>5. ASSUME NEW p \in Procs, Put(p) PROVE LruInv'
  <2>1. Key(p) \in Keys
    BY <1>5 DEF Put, Shape
  <2> DEFINE e == [uid |-> IF meta[Key(p)] = None THEN job[p].uid ELSE meta[Key(p)].uid, hash |-> job[p].data]
  <2>2. lru' = MostRecent(Key(p)) /\ meta' = [meta EXCEPT ![Key(p)] = e]
    BY <1>5 DEF Put
  <2>3. e \in Entries
    <3>1. job[p].uid \in Uids /\ job[p].data \in Versions
      BY <1>5 DEF Put, Shape, Storing, HasData, S3Type, CallersType, Jobs
    <3> QED
      BY <2>1, <3>1 DEF Entries, S3Type, Metadata
  <2> HIDE DEF e
  <2>4. meta'[Key(p)] # None /\ \A k \in Keys \ {Key(p)} : meta'[k] = meta[k]
    BY <2>1, <2>2, <2>3, <1>9 DEF S3Type, Metadata
  <2>5. /\ MostRecent(Key(p)) \in Seq(Keys) /\ NoDuplicates(MostRecent(Key(p)))
        /\ \A i \in DOMAIN MostRecent(Key(p)) :
             MostRecent(Key(p))[i] = Key(p) \/ \E j \in DOMAIN lru : MostRecent(Key(p))[i] = lru[j]
    BY <1>0, <2>1, MostRecentFacts
  <2>6. \A i \in DOMAIN lru' : meta'[lru'[i]] # None
    BY <2>2, <2>4, <2>5, <1>0 DEF LruInv
  <2> QED
    BY <2>2, <2>5, <2>6 DEF LruInv, NoDuplicates
<1>6. CASE Crash
  <2> DEFINE S == EntriesOf(persisted)
             D == 1..Cardinality(S)
  <2>1. S \subseteq Keys /\ \A k \in S : persisted[k] # None
    BY DEF EntriesOf
  <2>2. IsFiniteSet(S)
    BY <2>1, <1>9, FS_Subset
  <2>3. Cardinality(S) \in Nat
    BY <2>2, FS_CardinalityType
  <2>4. lru' \in [D -> S] /\ \A i, j \in D : i # j => lru'[i] # lru'[j]
    BY <1>6 DEF Crash, SetToSeqs
  <2> HIDE DEF S
  <2>5. lru' \in Seq(Keys) /\ DOMAIN lru' = D
    BY <2>1, <2>3, <2>4
  <2>6. \A i \in DOMAIN lru' : meta'[lru'[i]] # None
    BY <2>1, <2>4, <2>5, <1>6 DEF Crash
  <2> QED
    BY <2>4, <2>5, <2>6 DEF LruInv, NoDuplicates
<1>7. ASSUME NEW p \in Procs,
             \/ \E op \in {"get", "put", "remove"}, k \in Keys, want \in Versions \cup {None} : Call(p, op, k, want)
             \/ ReadCached(p) \/ Flight(p) \/ FetchFails(p) \/ Fetch(p) \/ Upload(p) \/ RemoteFails(p) \/ Delete(p)
             \/ RemoveFile(p) \/ Persist(p) \/ Rename(p) \/ RenameFails(p) \/ StoreSkipped(p) \/ Store(p)
             \/ MeasureRoom(p) \/ EvictFile(p) \/ WriteFile(p) \/ WriteFails(p)
      PROVE  LruInv'
  BY <1>1, <1>7 DEF Call, ReadCached, Flight, FetchFails, Fetch, Upload, RemoteFails, Delete, RemoveFile, Persist,
     Rename, RenameFails, StoreSkipped, Store, MeasureRoom, EvictFile, WriteFile, WriteFails, cacheVars
<1>8. CASE UNCHANGED vars
  BY <1>1, <1>8 DEF vars
<1> QED
  BY <1>2, <1>3, <1>4, <1>5, <1>6, <1>7, <1>8 DEF Next, Step

-----------------------------------------------------------------------------
(***************************************************************************)
(* Where callers are and what they have.                                   *)
(***************************************************************************)
LEMMA SameFacts ==
  ASSUME NEW q \in Procs, Same(q)
  PROVE  /\ Key(q)' = Key(q) /\ (Storing(q)' <=> Storing(q)) /\ (Outside(q)' <=> Outside(q))
         /\ Shape(q) => Shape(q)'
BY DEF Same, Key, Storing, HasData, Outside, Shape, Fresh, NoCall, NoJob, OS!NoCall

LEMMA EndedFacts ==
  ASSUME NEW q \in Procs, Ended(q)
  PROVE  Shape(q)' /\ Outside(q)' /\ Fresh(q)'
<1>1. pc'[q] = "idle" /\ job'[q] = NoJob /\ call'[q] = NoCall
  BY DEF Ended
<1>2. NoJob.uid = 0 /\ NoJob.drop = << >> /\ NoJob.then = "idle"
  BY DEF NoJob
<1>3. Outside(q)' /\ Fresh(q)'
  BY <1>1, <1>2 DEF Outside, Fresh
<1> QED
  BY <1>1, <1>2, <1>3 DEF Shape, Storing, HasData, NoCall, NoJob, OS!NoCall

\* The end of calls keeps the shape of all.
LEMMA FinishShape ==
  ASSUME S3Type, \A q \in Procs : Shape(q), NEW ps, NEW a, Finish(ps, a)
  PROVE  \A q \in Procs : Shape(q)'
BY Finished, SameFacts, EndedFacts

LEMMA OthersShape ==
  ASSUME \A q \in Procs : Shape(q), NEW p \in Procs, Others(p), Shape(p)'
  PROVE  \A q \in Procs : Shape(q)'
BY SameFacts DEF Others

LEMMA ShapeStep ==
  ASSUME S3Type, LruInv, \A q \in Procs : Shape(q), [Next]_vars
  PROVE  \A q \in Procs : Shape(q)'
<1>1. ASSUME NEW p \in Procs, NEW op \in {"get", "put", "remove"}, NEW k \in Keys,
             NEW want \in Versions \cup {None}, Call(p, op, k, want)
      PROVE  \A q \in Procs : Shape(q)'
  <2>1. /\ Others(p) /\ job'[p] = job[p] /\ pc[p] = "idle"
        /\ call'[p] = [op |-> op, key |-> k, want |-> want]
        /\ pc'[p] \in {"flight", "lookup", "upload", "delete"}
        /\ op = "get" => pc'[p] \in {"flight", "lookup"}
        /\ op = "put" => pc'[p] = "upload"
        /\ op = "remove" => pc'[p] = "delete"
    BY <1>1, CallEffect
  <2>2. Fresh(p)
    BY <2>1 DEF Shape, Outside
  <2>3. op = "put" => want # None
    BY <1>1 DEF Call
  <2>4. call'[p].op = op /\ call'[p].key = k /\ call'[p].want = want
    BY <2>1
  <2>5. Shape(p)'
    BY <2>1, <2>2, <2>3, <2>4 DEF Shape, Storing, HasData, Fresh, Outside, Key
  <2> QED
    BY <2>1, <2>5, OthersShape
<1>2. ASSUME NEW p \in Procs, ReadCached(p) PROVE \A q \in Procs : Shape(q)'
  <2>0. pc[p] = "lookup" /\ job[p] \in Jobs /\ Key(p) \in Keys /\ call[p].op = "get" /\ Fresh(p)
    BY <1>2 DEF ReadCached, S3Type, CallersType, Shape, Outside
  <2>1. Others(p) /\ UNCHANGED call
    BY <1>2, ReadCachedEffect
  <2>2. CASE pc'[p] = "flight" /\ job'[p] = job[p]
    BY <2>0, <2>1, <2>2, OthersShape DEF Shape, Storing, HasData, Fresh, Outside, Key
  <2>3. CASE pc'[p] = "readFile" /\ meta[Key(p)] # None /\ job'[p] = [job[p] EXCEPT !.uid = meta[Key(p)].uid]
    <3>1. meta[Key(p)].uid \in Uids
      BY <2>0, <2>3 DEF S3Type, Metadata, Entries
    <3>2. job'[p].uid = meta[Key(p)].uid /\ job'[p].drop = << >> /\ job'[p].then = "idle"
      BY <2>0, <2>3 DEF Jobs, Fresh
    <3>3. Shape(p)'
      BY <3>1, <3>2, <2>0, <2>1, <2>3 DEF Shape, Storing, HasData, Fresh, Outside, Key
    <3> QED
      BY <2>1, <3>3, OthersShape
  <2> QED
    BY <2>2, <2>3, <1>2, ReadCachedEffect
<1>3. ASSUME NEW p \in Procs, Flight(p) PROVE \A q \in Procs : Shape(q)'
  <2>1. pc[p] = "flight" /\ Others(p) /\ UNCHANGED <<call, job>> /\ pc'[p] \in {"join", "fetch"}
    BY <1>3, FlightEffect DEF Flight
  <2>2. Shape(p)'
    BY <2>1 DEF Shape, Storing, HasData, Fresh, Outside, Key
  <2> QED
    BY <2>1, <2>2, OthersShape
<1>4. ASSUME NEW p \in Procs, Fetch(p) PROVE \A q \in Procs : Shape(q)'
  <2>0. pc[p] = "fetch" /\ job[p] \in Jobs /\ Key(p) \in Keys /\ call[p].op = "get" /\ Fresh(p)
    BY <1>4 DEF Fetch, S3Type, CallersType, Shape, Outside
  <2>1. /\ Others(p) /\ UNCHANGED call /\ pc'[p] = "store" /\ remote[Key(p)] # None
        /\ job'[p] = [job[p] EXCEPT !.data = remote[Key(p)]]
    BY <1>4, FetchEffect
  <2>2. job'[p].data # None /\ job'[p].uid = 0 /\ job'[p].drop = << >> /\ job'[p].then = "idle"
    BY <2>0, <2>1 DEF Jobs, Fresh
  <2>3. Shape(p)'
    BY <2>0, <2>1, <2>2 DEF Shape, Storing, HasData, Fresh, Outside, Key
  <2> QED
    BY <2>1, <2>3, OthersShape
<1>5. ASSUME NEW p \in Procs, Upload(p) PROVE \A q \in Procs : Shape(q)'
  <2>0. pc[p] = "upload" /\ job[p] \in Jobs /\ Key(p) \in Keys /\ call[p].op = "put" /\ Fresh(p)
    BY <1>5 DEF Upload, S3Type, CallersType, Shape, Outside
  <2>1. /\ Others(p) /\ UNCHANGED call /\ pc'[p] = "store" /\ call[p].want # None
        /\ job'[p] = [job[p] EXCEPT !.data = call[p].want]
    BY <1>5, UploadEffect
  <2>2. job'[p].data # None /\ job'[p].uid = 0 /\ job'[p].drop = << >> /\ job'[p].then = "idle"
    BY <2>0, <2>1 DEF Jobs, Fresh
  <2>3. Shape(p)'
    BY <2>0, <2>1, <2>2 DEF Shape, Storing, HasData, Fresh, Outside, Key
  <2> QED
    BY <2>1, <2>3, OthersShape
<1>6. ASSUME NEW p \in Procs, Delete(p) PROVE \A q \in Procs : Shape(q)'
  <2>1. pc[p] = "delete" /\ Others(p) /\ UNCHANGED <<call, job>> /\ pc'[p] = "forget"
    BY <1>6, DeleteEffect DEF Delete
  <2>2. Shape(p)'
    BY <2>1 DEF Shape, Storing, HasData, Fresh, Outside, Key
  <2> QED
    BY <2>1, <2>2, OthersShape
<1>7. ASSUME NEW p \in Procs, Forget(p) PROVE \A q \in Procs : Shape(q)'
  <2>1. CASE meta[Key(p)] = None
    BY <1>7, <2>1, FinishShape DEF Forget
  <2>2. CASE meta[Key(p)] # None
    <3>0. pc[p] = "forget" /\ job[p] \in Jobs /\ Key(p) \in Keys /\ call[p].op = "remove" /\ Fresh(p)
      BY <1>7 DEF Forget, S3Type, CallersType, Shape, Outside
    <3>1. /\ Others(p) /\ UNCHANGED sharedVars /\ pc'[p] = "persist"
          /\ job'[p] = [job[p] EXCEPT !.uid = meta[Key(p)].uid, !.then = "removeFile"]
      BY <1>7, <2>2, ForgetEffect
    <3>2. meta[Key(p)].uid \in Uids
      BY <3>0, <2>2 DEF S3Type, Metadata, Entries
    <3>3. job'[p].uid = meta[Key(p)].uid /\ job'[p].drop = << >> /\ job'[p].then = "removeFile"
      BY <3>0, <3>1 DEF Jobs, Fresh
    <3>4. Shape(p)'
      BY <3>0, <3>1, <3>2, <3>3 DEF Shape, Storing, HasData, Fresh, Outside, Key, sharedVars
    <3> QED
      BY <3>1, <3>4, OthersShape
  <2> QED
    BY <2>1, <2>2
<1>8. ASSUME NEW p \in Procs, Persist(p) PROVE \A q \in Procs : Shape(q)'
  <2>1. /\ pc[p] = "persist" /\ Others(p) /\ UNCHANGED call /\ pc'[p] = "rename"
        /\ job'[p] = [job[p] EXCEPT !.snap = meta] /\ job[p] \in Jobs
    BY <1>8, PersistEffect DEF Persist, S3Type, CallersType
  <2>2. /\ job'[p].uid = job[p].uid /\ job'[p].drop = job[p].drop /\ job'[p].then = job[p].then
        /\ job'[p].data = job[p].data
    BY <2>1 DEF Jobs
  <2>3. Shape(p)'
    BY <2>1, <2>2 DEF Shape, Storing, HasData, Fresh, Outside, Key
  <2> QED
    BY <2>1, <2>3, OthersShape
<1>9. ASSUME NEW p \in Procs, Rename(p) PROVE \A q \in Procs : Shape(q)'
  <2>1. CASE job[p].then = "stored"
    BY <1>9, <2>1, FinishShape DEF Rename, StoreEnds
  <2>2. CASE job[p].then # "stored"
    <3>1. /\ pc[p] = "rename" /\ Others(p) /\ UNCHANGED sharedVars /\ pc'[p] = job[p].then
          /\ pc'[p] \in {"removeFile", "evictFiles"}
          /\ job'[p] = [job[p] EXCEPT !.snap = NoJob.snap] /\ job[p] \in Jobs
      BY <1>9, <2>2, RenameEffect DEF Rename, S3Type, CallersType
    <3>2. /\ job'[p].uid = job[p].uid /\ job'[p].drop = job[p].drop /\ job'[p].then = job[p].then
          /\ job'[p].data = job[p].data
      BY <3>1 DEF Jobs
    <3>3. Shape(p)'
      <4>1. UNCHANGED call
        BY <3>1 DEF sharedVars
      <4>2. CASE job[p].then = "removeFile"
        BY <3>1, <3>2, <4>1, <4>2 DEF Shape, Storing, HasData, Fresh, Outside, Key
      <4>3. CASE job[p].then = "evictFiles"
        BY <3>1, <3>2, <4>1, <4>3 DEF Shape, Storing, HasData, Fresh, Outside, Key
      <4> QED
        BY <3>1, <4>2, <4>3
    <3> QED
      BY <3>1, <3>3, OthersShape
  <2> QED
    BY <2>1, <2>2
<1>10. ASSUME NEW p \in Procs, Store(p) PROVE \A q \in Procs : Shape(q)'
  <2>0. pc[p] = "store" /\ job[p] \in Jobs /\ Fresh(p)
    BY <1>10 DEF Store, S3Type, CallersType, Shape, Outside
  <2>1. /\ Others(p) /\ UNCHANGED call /\ pc'[p] = "measure" /\ ResolveUID(p).uid \in Uids
        /\ \E f \in Int : job'[p] = [job[p] EXCEPT !.uid = ResolveUID(p).uid, !.diff = f]
    BY <1>10, StoreEffect
  <2>2. /\ job'[p].uid = ResolveUID(p).uid /\ job'[p].drop = << >> /\ job'[p].then = "idle"
        /\ job'[p].data = job[p].data
    BY <2>0, <2>1 DEF Jobs, Fresh
  <2>3. Shape(p)'
    BY <2>0, <2>1, <2>2 DEF Shape, Storing, HasData, Fresh, Outside, Key
  <2> QED
    BY <2>1, <2>3, OthersShape
<1>11. ASSUME NEW p \in Procs, Evict(p) PROVE \A q \in Procs : Shape(q)'
  <2>1. /\ pc[p] = "evict" /\ Others(p) /\ UNCHANGED sharedVars /\ pc'[p] = "persist" /\ job[p] \in Jobs
        /\ \E d \in Seq(Uids) : job'[p] = [job[p] EXCEPT !.drop = d, !.then = "evictFiles"]
    BY <1>11, EvictEffect DEF Evict, S3Type, CallersType
  <2>2. job'[p].uid = job[p].uid /\ job'[p].then = "evictFiles" /\ job'[p].data = job[p].data
    BY <2>1 DEF Jobs
  <2>3. Shape(p)'
    BY <2>1, <2>2 DEF Shape, Storing, HasData, Fresh, Outside, Key, sharedVars
  <2> QED
    BY <2>1, <2>3, OthersShape
<1>12. ASSUME NEW p \in Procs, EvictFile(p) PROVE \A q \in Procs : Shape(q)'
  <2>0. pc[p] = "evictFiles" /\ job[p] \in Jobs
    BY <1>12 DEF EvictFile, S3Type, CallersType
  <2>1. CASE StoreEnds(p)
    BY <2>1, FinishShape DEF StoreEnds
  <2>2. CASE Others(p) /\ UNCHANGED sharedVars /\ job[p].drop = << >> /\ pc'[p] = "write" /\ UNCHANGED job
    <3>1. Shape(p)'
      BY <2>0, <2>2 DEF Shape, Storing, HasData, Fresh, Outside, Key, sharedVars
    <3> QED
      BY <2>2, <3>1, OthersShape
  <2>3. CASE /\ Others(p) /\ UNCHANGED sharedVars /\ pc'[p] = pc[p]
             /\ job'[p] = [job[p] EXCEPT !.drop = Tail(job[p].drop)]
    <3>1. job'[p].uid = job[p].uid /\ job'[p].then = job[p].then /\ job'[p].data = job[p].data
      BY <2>0, <2>3 DEF Jobs
    <3>2. Shape(p)'
      BY <2>0, <2>3, <3>1 DEF Shape, Storing, HasData, Fresh, Outside, Key, sharedVars
    <3> QED
      BY <2>3, <3>2, OthersShape
  <2> QED
    BY <2>1, <2>2, <2>3, <1>12, EvictFileEffect
<1>13. ASSUME NEW p \in Procs, WriteFile(p) PROVE \A q \in Procs : Shape(q)'
  <2>1. pc[p] = "write" /\ Others(p) /\ UNCHANGED <<call, job>> /\ pc'[p] = "put"
    BY <1>13, WriteFileEffect DEF WriteFile
  <2>2. Shape(p)'
    BY <2>1 DEF Shape, Storing, HasData, Fresh, Outside, Key
  <2> QED
    BY <2>1, <2>2, OthersShape
<1>14. ASSUME NEW p \in Procs, Put(p) PROVE \A q \in Procs : Shape(q)'
  <2>1. /\ pc[p] = "put" /\ Others(p) /\ UNCHANGED call /\ pc'[p] = "persist" /\ job[p] \in Jobs
        /\ job'[p] = [job[p] EXCEPT !.then = "stored"]
    BY <1>14, PutEffect DEF Put, S3Type, CallersType
  <2>2. /\ job'[p].uid = job[p].uid /\ job'[p].then = "stored" /\ job'[p].data = job[p].data
        /\ job'[p].drop = job[p].drop
    BY <2>1 DEF Jobs
  <2>3. Shape(p)'
    BY <2>1, <2>2 DEF Shape, Storing, HasData, Fresh, Outside, Key
  <2> QED
    BY <2>1, <2>3, OthersShape
<1>15. ASSUME NEW p \in Procs,
              \/ ReadFile(p) \/ FetchFails(p) \/ RemoteFails(p) \/ RemoveFile(p) \/ RenameFails(p)
              \/ StoreSkipped(p) \/ WriteFails(p)
       PROVE  \A q \in Procs : Shape(q)'
  <2>1. \E ps, a : Finish(ps, a)
    BY <1>15 DEF ReadFile, FetchFails, RemoteFails, RemoveFile, RenameFails, StoreSkipped, WriteFails, StoreEnds
  <2> QED
    BY <2>1, FinishShape
<1>16. CASE Crash
  <2>1. \A q \in Procs : Ended(q)
    BY <1>16 DEF Crash, OS!Crash, Ended, NoCall
  <2> QED
    BY <2>1, EndedFacts
<1>17. CASE UNCHANGED vars
  <2>1. \A q \in Procs : Same(q)
    BY <1>17 DEF vars, sharedVars, Same
  <2> QED
    BY <2>1, SameFacts
<1>18. ASSUME NEW p \in Procs, MeasureRoom(p) PROVE \A q \in Procs : Shape(q)'
  <2>1. pc[p] = "measure" /\ Others(p) /\ UNCHANGED <<call, job>> /\ pc'[p] \in {"evict", "write"}
    BY <1>18, MeasureEffect DEF MeasureRoom
  <2>2. Shape(p)'
    BY <2>1 DEF Shape, Storing, HasData, Fresh, Outside, Key
  <2> QED
    BY <2>1, <2>2, OthersShape
<1> QED
  BY <1>1, <1>2, <1>3, <1>4, <1>5, <1>6, <1>7, <1>8, <1>9, <1>10, <1>11, <1>12, <1>13, <1>14, <1>15, <1>16,
     <1>17, <1>18 DEF Next, Step

-----------------------------------------------------------------------------
(***************************************************************************)
(* Versions.                                                               *)
(***************************************************************************)
LEMMA VersionFrame ==
  ASSUME VersionInv, UNCHANGED <<remote, written>>,
         \A q \in Procs : \/ Ended(q)
                          \/ /\ call'[q] = call[q] /\ live'[q] = live[q]
                             /\ HasData(q)' => HasData(q) /\ job'[q].data = job[q].data
  PROVE  VersionInv'
<1>1. ASSUME NEW q \in Procs
      PROVE  Wants(q)' /\ Brings(q)'
  <2>1. CASE Ended(q)
    BY <2>1 DEF Ended, Wants, Brings, HasData, Storing, NoCall, OS!NoCall
  <2>2. CASE ~ Ended(q)
    <3>1. call'[q] = call[q] /\ live'[q] = live[q] /\ (HasData(q)' => HasData(q) /\ job'[q].data = job[q].data)
      BY <2>2
    <3>2. Wants(q)'
      BY <3>1 DEF VersionInv, Wants, Key
    <3>3. \A r \in Procs : OS!Getting(r, Key(q))' => OS!Getting(r, Key(q)) /\ live'[r] = live[r]
      BY <3>1 DEF OS!Getting, Ended, NoCall, OS!NoCall, Key
    <3>4. Brings(q)'
      BY <3>1, <3>3 DEF VersionInv, Brings, Key
    <3> QED
      BY <3>2, <3>4
  <2> QED
    BY <2>1, <2>2
<1> QED
  BY <1>1 DEF VersionInv

LEMMA FinishVersion ==
  ASSUME S3Type, VersionInv, NEW ps, NEW a, Finish(ps, a)
  PROVE  VersionInv'
<1>1. \A q \in Procs : Ended(q) \/ (Same(q) /\ live'[q] = live[q])
  BY Finished
<1>2. \A q \in Procs : Same(q) => (HasData(q)' => HasData(q) /\ job'[q].data = job[q].data)
  BY SameFacts DEF HasData, Same
<1>3. UNCHANGED <<remote, written>>
  BY Finished
<1> QED
  BY <1>1, <1>2, <1>3, VersionFrame DEF Same

LEMMA MoveVersion ==
  ASSUME VersionInv, UNCHANGED <<remote, written, live, call>>, NEW p \in Procs, Others(p),
         HasData(p)' => HasData(p) /\ job'[p].data = job[p].data
  PROVE  VersionInv'
<1>1. \A q \in Procs \ {p} : HasData(q)' => HasData(q) /\ job'[q].data = job[q].data
  BY SameFacts DEF HasData, Same, Others
<1> QED
  BY <1>1, VersionFrame

LEMMA VersionStep ==
  ASSUME S3Type, LruInv, \A q \in Procs : Shape(q), VersionInv, [Next]_vars
  PROVE  VersionInv'
<1>1. ASSUME NEW p \in Procs, NEW op \in {"get", "put", "remove"}, NEW k \in Keys,
             NEW want \in Versions \cup {None}, Call(p, op, k, want)
      PROVE  VersionInv'
  <2>1. /\ Others(p) /\ call'[p] = [op |-> op, key |-> k, want |-> want]
        /\ pc'[p] \in {"flight", "lookup", "upload", "delete"}
    BY <1>1, CallEffect
  <2>2. /\ UNCHANGED <<remote, written>>
        /\ \A q \in Procs \ {p} : live'[q] = live[q]
        /\ live'[p] = IF op = "get" THEN ({remote[k]} \ {None})
                                         \cup UNION {live[q] : q \in {r \in Procs : OS!Getting(r, k)}}
                                    ELSE {}
        /\ op = "get" => want \in written[k] \cup {None}
    BY <1>1 DEF Call, OS!Call, S3Type
  <2>3. call'[p].op = op /\ call'[p].key = k /\ call'[p].want = want
    BY <2>1
  <2>4. Wants(p)' /\ Brings(p)'
    <3>1. ~ HasData(p)'
      BY <2>1 DEF HasData, Storing
    <3>2. Wants(p)'
      BY <2>2, <2>3 DEF Wants, Key
    <3> QED
      BY <3>1, <3>2 DEF Brings
  <2>5. ASSUME NEW q \in Procs \ {p}
        PROVE  Wants(q)' /\ Brings(q)'
    <3>1. Same(q) /\ live'[q] = live[q] /\ Key(q)' = Key(q) /\ (HasData(q)' <=> HasData(q))
      BY <2>1, <2>2, SameFacts DEF Others, HasData, Same
    <3>2. Wants(q)'
      BY <3>1, <2>2 DEF VersionInv, Wants, Same
    <3>3. ASSUME HasData(q), call[q].op = "get", NEW r \in Procs, OS!Getting(r, Key(q))'
          PROVE  job[q].data \in live'[r]
      <4>1. CASE r = p
        <5>1. op = "get" /\ k = Key(q)
          BY <3>3, <4>1, <2>3, <3>1 DEF OS!Getting
        <5>2. OS!Getting(q, k)
          BY <5>1, <3>3 DEF OS!Getting, Key
        <5>3. job[q].data \in live[q]
          BY <5>1, <5>2, <3>3 DEF VersionInv, Brings
        <5> QED
          BY <5>1, <5>2, <5>3, <4>1, <2>2
      <4>2. CASE r # p
        <5>1. OS!Getting(r, Key(q)) /\ live'[r] = live[r]
          BY <3>3, <4>2, <2>1, <2>2, <3>1 DEF OS!Getting, Others, Same
        <5> QED
          BY <5>1, <3>3 DEF VersionInv, Brings
      <4> QED
        BY <4>1, <4>2
    <3>4. Brings(q)'
      BY <3>1, <3>3, <2>2 DEF VersionInv, Brings, Same
    <3> QED
      BY <3>2, <3>4
  <2> QED
    BY <2>2, <2>4, <2>5 DEF VersionInv
<1>2. ASSUME NEW p \in Procs, ReadCached(p) PROVE VersionInv'
  <2>1. UNCHANGED <<remote, written, live, call>> /\ Others(p) /\ pc'[p] \in {"flight", "readFile"}
    BY <1>2, ReadCachedEffect DEF ReadCached, sharedVars
  <2>2. ~ HasData(p)'
    BY <2>1 DEF HasData, Storing
  <2> QED
    BY <2>1, <2>2, MoveVersion
<1>3. ASSUME NEW p \in Procs, Flight(p) PROVE VersionInv'
  <2>1. UNCHANGED <<remote, written, live, call>> /\ Others(p) /\ pc'[p] \in {"join", "fetch"}
    BY <1>3, FlightEffect DEF Flight, sharedVars
  <2>2. ~ HasData(p)'
    BY <2>1 DEF HasData, Storing
  <2> QED
    BY <2>1, <2>2, MoveVersion
<1>4. ASSUME NEW p \in Procs, Fetch(p) PROVE VersionInv'
  <2>1. /\ UNCHANGED <<remote, written, live, call>> /\ Others(p) /\ remote[Key(p)] # None
        /\ job'[p] = [job[p] EXCEPT !.data = remote[Key(p)]]
    BY <1>4, FetchEffect DEF Fetch, sharedVars
  <2>2. Key(p) \in Keys /\ call[p].op = "get" /\ job[p] \in Jobs
    BY <1>4 DEF Fetch, Shape, S3Type, CallersType
  <2>3. job'[p].data = remote[Key(p)]
    BY <2>1, <2>2 DEF Jobs
  <2>4. \A r \in Procs : OS!Getting(r, Key(p)) => remote[Key(p)] \in live[r]
    BY <2>1 DEF VersionInv, Wants, OS!Getting, Key
  <2>5. Brings(p)'
    BY <2>1, <2>2, <2>3, <2>4 DEF VersionInv, Brings, Key, OS!Getting
  <2>6. \A q \in Procs : Wants(q)'
    BY <2>1 DEF VersionInv, Wants, Key
  <2>7. \A q \in Procs \ {p} : Brings(q)'
    BY <2>1, SameFacts DEF VersionInv, Brings, HasData, Key, OS!Getting, Others, Same
  <2> QED
    BY <2>1, <2>5, <2>6, <2>7 DEF VersionInv
<1>5. ASSUME NEW p \in Procs, Upload(p) PROVE VersionInv'
  <2> DEFINE v == call[p].want
             k == Key(p)
  <2>1. /\ UNCHANGED call /\ Others(p) /\ job'[p] = [job[p] EXCEPT !.data = v]
        /\ v # None
    BY <1>5, UploadEffect
  <2>2. k \in Keys /\ call[p].op = "put" /\ job[p] \in Jobs
    BY <1>5 DEF Upload, Shape, S3Type, CallersType
  <2>3. /\ remote' = [remote EXCEPT ![k] = v] /\ written' = [written EXCEPT ![k] = written[k] \cup {v}]
        /\ live' = [q \in Procs |-> IF OS!Getting(q, k) THEN live[q] \cup {v} ELSE live[q]]
    BY <1>5 DEF Upload, OS!Upload, Key
  <2>4. /\ remote'[k] = v /\ v \in written'[k] /\ \A l \in Keys : written[l] \subseteq written'[l]
        /\ \A l \in Keys \ {k} : remote'[l] = remote[l]
    BY <2>2, <2>3 DEF S3Type
  <2>5. \A q \in Procs : live[q] \subseteq live'[q] /\ (OS!Getting(q, k) => v \in live'[q])
    BY <2>3
  <2>6. job'[p].data = v
    BY <2>1, <2>2 DEF Jobs
  <2>7. \A q \in Procs : call[q].op = "get" => Key(q) \in Keys
    BY S3CacheAssumption DEF Shape, NoCall, OS!NoCall
  <2> HIDE DEF v, k
  <2>8. \A l \in Keys : remote'[l] # None => remote'[l] \in written'[l]
    BY <2>4 DEF VersionInv
  <2>9. ASSUME NEW q \in Procs PROVE Wants(q)'
    <3>1. SUFFICES ASSUME call[q].op = "get"
                   PROVE  /\ call[q].want # None => call[q].want \in written'[Key(q)]
                          /\ remote'[Key(q)] # None => remote'[Key(q)] \in live'[q]
      BY <2>1 DEF Wants, Key
    <3>2. Key(q) \in Keys /\ (call[q].want # None => call[q].want \in written[Key(q)])
          /\ (remote[Key(q)] # None => remote[Key(q)] \in live[q])
      BY <3>1, <2>7 DEF VersionInv, Wants
    <3>3. CASE Key(q) = k
      <4>1. OS!Getting(q, k)
        BY <3>1, <3>3 DEF OS!Getting, Key
      <4> QED
        BY <4>1, <3>2, <3>3, <2>4, <2>5
    <3>4. CASE Key(q) # k
      BY <3>2, <3>4, <2>4, <2>5
    <3> QED
      BY <3>3, <3>4
  <2>10. Brings(p)'
    BY <2>1, <2>2, <2>4, <2>6 DEF Brings, Key, v, k
  <2>11. ASSUME NEW q \in Procs \ {p} PROVE Brings(q)'
    <3>1. Same(q) /\ (HasData(q)' <=> HasData(q)) /\ Key(q)' = Key(q)
      BY <2>1, SameFacts DEF HasData, Others, Same
    <3>2. HasData(q) => Key(q) \in Keys
      BY DEF HasData, Storing, Shape
    <3>3. \A r \in Procs : OS!Getting(r, Key(q))' <=> OS!Getting(r, Key(q))
      BY <2>1 DEF OS!Getting, Key
    <3> QED
      BY <3>1, <3>2, <3>3, <2>4, <2>5 DEF VersionInv, Brings, Same
  <2> QED
    BY <2>8, <2>9, <2>10, <2>11 DEF VersionInv
<1>6. ASSUME NEW p \in Procs, Delete(p) PROVE VersionInv'
  <2>1. UNCHANGED <<written, live, call, job>> /\ Others(p) /\ pc'[p] = "forget"
    BY <1>6, DeleteEffect DEF Delete, OS!Delete
  <2>2. \A k \in Keys : remote'[k] # None => remote'[k] = remote[k]
    BY <1>6 DEF Delete, OS!Delete, S3Type
  <2>3. ~ HasData(p)'
    BY <2>1 DEF HasData, Storing
  <2>4. \A q \in Procs : call[q].op = "get" => Key(q) \in Keys
    BY S3CacheAssumption DEF Shape, NoCall, OS!NoCall
  <2>5. \A q \in Procs : Wants(q)'
    BY <2>1, <2>2, <2>4 DEF VersionInv, Wants, Key
  <2>6. \A q \in Procs \ {p} : Brings(q)'
    BY <2>1, SameFacts DEF VersionInv, Brings, HasData, Key, OS!Getting, Others, Same
  <2> QED
    BY <2>1, <2>2, <2>3, <2>5, <2>6 DEF VersionInv, Brings
<1>7. ASSUME NEW p \in Procs, Forget(p) PROVE VersionInv'
  <2>1. CASE meta[Key(p)] = None
    BY <1>7, <2>1, FinishVersion DEF Forget
  <2>2. CASE meta[Key(p)] # None
    <3>1. /\ Others(p) /\ UNCHANGED sharedVars /\ pc'[p] = "persist"
          /\ job'[p] = [job[p] EXCEPT !.uid = meta[Key(p)].uid, !.then = "removeFile"] /\ job[p] \in Jobs
      BY <1>7, <2>2, ForgetEffect DEF S3Type, CallersType
    <3>2. job'[p].then = "removeFile"
      BY <3>1 DEF Jobs
    <3>3. ~ HasData(p)'
      BY <3>1, <3>2 DEF HasData, Storing
    <3> QED
      BY <3>1, <3>3, MoveVersion DEF sharedVars
  <2> QED
    BY <2>1, <2>2
<1>8. ASSUME NEW p \in Procs, Persist(p) PROVE VersionInv'
  <2>1. /\ pc[p] = "persist" /\ Others(p) /\ UNCHANGED sharedVars /\ pc'[p] = "rename"
        /\ job'[p] = [job[p] EXCEPT !.snap = meta] /\ job[p] \in Jobs
    BY <1>8, PersistEffect DEF Persist, S3Type, CallersType
  <2>2. job'[p].then = job[p].then /\ job'[p].data = job[p].data
    BY <2>1 DEF Jobs
  <2>3. HasData(p)' => HasData(p)
    BY <2>1, <2>2 DEF HasData, Storing
  <2> QED
    BY <2>1, <2>2, <2>3, MoveVersion DEF sharedVars
<1>9. ASSUME NEW p \in Procs, Rename(p) PROVE VersionInv'
  <2>1. CASE job[p].then = "stored"
    BY <1>9, <2>1, FinishVersion DEF Rename, StoreEnds
  <2>2. CASE job[p].then # "stored"
    <3>1. /\ pc[p] = "rename" /\ Others(p) /\ UNCHANGED sharedVars /\ pc'[p] = job[p].then
          /\ job'[p] = [job[p] EXCEPT !.snap = NoJob.snap] /\ job[p] \in Jobs
      BY <1>9, <2>2, RenameEffect DEF Rename, S3Type, CallersType
    <3>2. job'[p].data = job[p].data
      BY <3>1 DEF Jobs
    <3>3. HasData(p)' => HasData(p)
      BY <3>1 DEF HasData, Storing
    <3> QED
      BY <3>1, <3>2, <3>3, MoveVersion DEF sharedVars
  <2> QED
    BY <2>1, <2>2
<1>10. ASSUME NEW p \in Procs, Store(p) PROVE VersionInv'
  <2>1. /\ pc[p] = "store" /\ Others(p) /\ UNCHANGED sharedVars /\ job[p] \in Jobs
        /\ \E f \in Int : job'[p] = [job[p] EXCEPT !.uid = ResolveUID(p).uid, !.diff = f]
    BY <1>10, StoreEffect DEF Store, S3Type, CallersType
  <2>2. job'[p].data = job[p].data
    BY <2>1 DEF Jobs
  <2> QED
    BY <2>1, <2>2, MoveVersion DEF sharedVars, HasData
<1>11. ASSUME NEW p \in Procs, Evict(p) PROVE VersionInv'
  <2>1. /\ pc[p] = "evict" /\ Others(p) /\ UNCHANGED sharedVars /\ job[p] \in Jobs
        /\ \E d \in Seq(Uids) : job'[p] = [job[p] EXCEPT !.drop = d, !.then = "evictFiles"]
    BY <1>11, EvictEffect DEF Evict, S3Type, CallersType
  <2>2. job'[p].data = job[p].data
    BY <2>1 DEF Jobs
  <2> QED
    BY <2>1, <2>2, MoveVersion DEF sharedVars, HasData, Storing
<1>12. ASSUME NEW p \in Procs, EvictFile(p) PROVE VersionInv'
  <2>1. CASE StoreEnds(p)
    BY <2>1, FinishVersion DEF StoreEnds
  <2>2. CASE ~ StoreEnds(p)
    <3>1. /\ pc[p] = "evictFiles" /\ Others(p) /\ UNCHANGED sharedVars /\ job[p] \in Jobs
          /\ \/ UNCHANGED job
             \/ job'[p] = [job[p] EXCEPT !.drop = Tail(job[p].drop)]
      BY <1>12, <2>2, EvictFileEffect DEF EvictFile, S3Type, CallersType
    <3>2. job'[p].data = job[p].data
      BY <3>1 DEF Jobs
    <3> QED
      BY <3>1, <3>2, MoveVersion DEF sharedVars, HasData, Storing
  <2> QED
    BY <2>1, <2>2
<1>13. ASSUME NEW p \in Procs, WriteFile(p) PROVE VersionInv'
  <2>1. pc[p] = "write" /\ Others(p) /\ UNCHANGED sharedVars /\ UNCHANGED job
    BY <1>13, WriteFileEffect DEF WriteFile
  <2> QED
    BY <2>1, MoveVersion DEF sharedVars, HasData, Storing
<1>14. ASSUME NEW p \in Procs, Put(p) PROVE VersionInv'
  <2>1. /\ pc[p] = "put" /\ Others(p) /\ UNCHANGED sharedVars /\ job[p] \in Jobs
        /\ job'[p] = [job[p] EXCEPT !.then = "stored"]
    BY <1>14, PutEffect DEF Put, S3Type, CallersType
  <2>2. job'[p].data = job[p].data
    BY <2>1 DEF Jobs
  <2> QED
    BY <2>1, <2>2, MoveVersion DEF sharedVars, HasData, Storing
<1>15. ASSUME NEW p \in Procs,
              \/ ReadFile(p) \/ FetchFails(p) \/ RemoteFails(p) \/ RemoveFile(p) \/ RenameFails(p)
              \/ StoreSkipped(p) \/ WriteFails(p)
       PROVE  VersionInv'
  <2>1. \E ps, a : Finish(ps, a)
    BY <1>15 DEF ReadFile, FetchFails, RemoteFails, RemoveFile, RenameFails, StoreSkipped, WriteFails, StoreEnds
  <2> QED
    BY <2>1, FinishVersion
<1>16. CASE Crash
  <2>1. \A q \in Procs : Ended(q)
    BY <1>16 DEF Crash, OS!Crash, Ended, NoCall
  <2> QED
    BY <2>1, <1>16, VersionFrame DEF Crash, OS!Crash
<1>17. CASE UNCHANGED vars
  <2>1. \A q \in Procs : Same(q) /\ live'[q] = live[q] /\ (HasData(q)' => HasData(q))
    BY <1>17, SameFacts DEF vars, sharedVars, Same, HasData
  <2> QED
    BY <2>1, <1>17, VersionFrame DEF vars, sharedVars, Same
<1>18. ASSUME NEW p \in Procs, MeasureRoom(p) PROVE VersionInv'
  <2>1. pc[p] = "measure" /\ Others(p) /\ UNCHANGED sharedVars /\ UNCHANGED job
    BY <1>18, MeasureEffect DEF MeasureRoom
  <2> QED
    BY <2>1, MoveVersion DEF sharedVars, HasData, Storing
<1> QED
  BY <1>1, <1>2, <1>3, <1>4, <1>5, <1>6, <1>7, <1>8, <1>9, <1>10, <1>11, <1>12, <1>13, <1>14, <1>15, <1>16,
     <1>17, <1>18 DEF Next, Step

-----------------------------------------------------------------------------
(***************************************************************************)
(* Identifiers.  No step but Store makes a key claim an identifier that it *)
(* did not claim before.                                                   *)
(***************************************************************************)
ClaimsKept == \A k \in Keys, u \in Uids : Claim(k, u)' => Claim(k, u)
MetaKept == \A k \in Keys, u \in Uids : Names(meta, k, u)' => Claim(k, u)
DiskKept == \A k \in Keys, u \in Uids : Names(persisted, k, u)' => Claim(k, u)
JobKept(q) ==
  \A k \in Keys, u \in Uids :
    Names(job'[q].snap, k, u) \/ (Key(q)' = k /\ job'[q].uid = u) => Claim(k, u)

LEMMA SameClaims ==
  ASSUME NEW q \in Procs, Key(q)' = Key(q), job'[q].snap = job[q].snap, job'[q].uid = job[q].uid
  PROVE  JobKept(q)
BY DEF JobKept, Claim

LEMMA NoClaims ==
  ASSUME NEW q \in Procs, job'[q] = NoJob
  PROVE  JobKept(q)
BY DEF JobKept, NoJob, Names, Uids

\* Everything but the job of one caller, or the jobs of those that end.
LEMMA KeptByOthers ==
  ASSUME NEW p \in Procs, Others(p), JobKept(p), MetaKept, DiskKept
  PROVE  ClaimsKept
<1>1. \A q \in Procs \ {p} : JobKept(q)
  BY SameClaims, SameFacts DEF Others, Same
<1>2. \A q \in Procs : JobKept(q)
  BY <1>1
<1> QED
  BY <1>2 DEF JobKept, MetaKept, DiskKept, ClaimsKept, Claim

LEMMA KeptByFinish ==
  ASSUME S3Type, NEW ps, NEW a, Finish(ps, a), MetaKept, DiskKept
  PROVE  ClaimsKept
<1>1. \A q \in Procs : Ended(q) \/ Same(q)
  BY Finished
<1>2. \A q \in Procs : JobKept(q)
  BY <1>1, SameClaims, NoClaims, SameFacts DEF Ended, Same
<1> QED
  BY <1>2 DEF JobKept, MetaKept, DiskKept, ClaimsKept, Claim

LEMMA MetaSame == UNCHANGED meta => MetaKept
BY DEF MetaKept, Names, Claim

LEMMA DiskSame == UNCHANGED persisted => DiskKept
BY DEF DiskKept, Names, Claim

\* What rename makes of the file: for each key, the entry that was collected
\* or the one in memory.
LEMMA RenamedFile ==
  ASSUME NEW p, Rename(p), NEW k \in Keys
  PROVE  persisted'[k] \in {meta[k], job[p].snap[k]}
BY DEF Rename

LEMMA ClaimStep ==
  ASSUME S3Type, LruInv, \A q \in Procs : Shape(q), [Next]_vars, \A p \in Procs : ~ Store(p)
  PROVE  ClaimsKept
<1>1. ASSUME NEW p \in Procs, NEW op \in {"get", "put", "remove"}, NEW k \in Keys,
             NEW want \in Versions \cup {None}, Call(p, op, k, want)
      PROVE  ClaimsKept
  <2>1. Others(p) /\ job'[p] = NoJob
    BY <1>1, CallEffect DEF Shape
  <2>2. UNCHANGED <<meta, persisted>>
    BY <1>1 DEF Call, diskVars
  <2> QED
    BY <2>1, <2>2, NoClaims, MetaSame, DiskSame, KeptByOthers
<1>2. ASSUME NEW p \in Procs, ReadCached(p) PROVE ClaimsKept
  <2>1. Others(p) /\ UNCHANGED <<call, meta, persisted>> /\ job[p] \in Jobs
    BY <1>2, ReadCachedEffect DEF ReadCached, cacheVars, diskVars, S3Type, CallersType
  <2>2. CASE job'[p] = job[p]
    BY <2>1, <2>2, SameClaims, MetaSame, DiskSame, KeptByOthers DEF Key
  <2>3. CASE meta[Key(p)] # None /\ job'[p] = [job[p] EXCEPT !.uid = meta[Key(p)].uid]
    <3>1. job'[p].uid = meta[Key(p)].uid /\ job'[p].snap = job[p].snap /\ Key(p)' = Key(p)
      BY <2>1, <2>3 DEF Jobs, Key
    <3>2. JobKept(p)
      BY <2>3, <3>1 DEF JobKept, Claim, Names
    <3> QED
      BY <2>1, <3>2, MetaSame, DiskSame, KeptByOthers
  <2> QED
    BY <2>2, <2>3, <1>2, ReadCachedEffect
<1>3. ASSUME NEW p \in Procs, Fetch(p) \/ Upload(p)
      PROVE  ClaimsKept
  <2>1. /\ Others(p) /\ UNCHANGED <<call, meta, persisted>> /\ job[p] \in Jobs
        /\ \E v : job'[p] = [job[p] EXCEPT !.data = v]
    BY <1>3, FetchEffect, UploadEffect DEF Fetch, Upload, cacheVars, diskVars, S3Type, CallersType
  <2>2. job'[p].uid = job[p].uid /\ job'[p].snap = job[p].snap /\ Key(p)' = Key(p)
    BY <2>1 DEF Jobs, Key
  <2> QED
    BY <2>1, <2>2, SameClaims, MetaSame, DiskSame, KeptByOthers
<1>4. ASSUME NEW p \in Procs, Flight(p) \/ Delete(p) \/ WriteFile(p) PROVE ClaimsKept
  <2>1. Others(p) /\ UNCHANGED <<call, job, meta, persisted>>
    BY <1>4, FlightEffect, DeleteEffect, WriteFileEffect DEF Flight, Delete, WriteFile, cacheVars, diskVars
  <2> QED
    BY <2>1, SameClaims, MetaSame, DiskSame, KeptByOthers DEF Key
<1>5. ASSUME NEW p \in Procs, Forget(p) PROVE ClaimsKept
  <2>1. CASE meta[Key(p)] = None
    BY <1>5, <2>1, MetaSame, DiskSame, KeptByFinish DEF Forget, diskVars
  <2>2. CASE meta[Key(p)] # None
    <3>1. /\ Others(p) /\ UNCHANGED <<call, persisted>> /\ job[p] \in Jobs
          /\ meta' = [meta EXCEPT ![Key(p)] = None]
          /\ job'[p] = [job[p] EXCEPT !.uid = meta[Key(p)].uid, !.then = "removeFile"]
      BY <1>5, <2>2, ForgetEffect DEF Forget, sharedVars, diskVars, S3Type, CallersType
    <3>2. job'[p].uid = meta[Key(p)].uid /\ job'[p].snap = job[p].snap /\ Key(p)' = Key(p)
      BY <3>1 DEF Jobs, Key
    <3>3. JobKept(p)
      BY <2>2, <3>2 DEF JobKept, Claim, Names
    <3>4. MetaKept
      BY <3>1 DEF MetaKept, Names, Claim, S3Type, Metadata
    <3> QED
      BY <3>1, <3>3, <3>4, DiskSame, KeptByOthers
  <2> QED
    BY <2>1, <2>2
<1>6. ASSUME NEW p \in Procs, Persist(p) PROVE ClaimsKept
  <2>1. Others(p) /\ UNCHANGED <<call, meta, persisted>> /\ job'[p] = [job[p] EXCEPT !.snap = meta] /\ job[p] \in Jobs
    BY <1>6, PersistEffect DEF Persist, diskVars, S3Type, CallersType
  <2>2. job'[p].uid = job[p].uid /\ job'[p].snap = meta /\ Key(p)' = Key(p)
    BY <2>1 DEF Jobs, Key
  <2>3. JobKept(p)
    BY <2>2 DEF JobKept, Claim
  <2> QED
    BY <2>1, <2>3, MetaSame, DiskSame, KeptByOthers
<1>7. ASSUME NEW p \in Procs, Rename(p) PROVE ClaimsKept
  <2>1. DiskKept
    BY <1>7, RenamedFile DEF DiskKept, Claim, Names
  <2>2. UNCHANGED meta
    BY <1>7 DEF Rename
  <2>3. CASE job[p].then = "stored"
    BY <1>7, <2>1, <2>2, <2>3, MetaSame, KeptByFinish DEF Rename, StoreEnds
  <2>4. CASE job[p].then # "stored"
    <3>1. Others(p) /\ UNCHANGED call /\ job[p] \in Jobs /\ job'[p] = [job[p] EXCEPT !.snap = NoJob.snap]
      BY <1>7, <2>4, RenameEffect DEF sharedVars, S3Type, CallersType
    <3>2. job'[p].uid = job[p].uid /\ job'[p].snap = [k \in Keys |-> None] /\ Key(p)' = Key(p)
      BY <3>1 DEF Jobs, Key, NoJob
    <3>3. JobKept(p)
      BY <3>2 DEF JobKept, Claim, Names
    <3> QED
      BY <2>1, <2>2, <3>1, <3>3, MetaSame, KeptByOthers
  <2> QED
    BY <2>3, <2>4
<1>8. ASSUME NEW p \in Procs, Evict(p) PROVE ClaimsKept
  <2>1. /\ Others(p) /\ UNCHANGED <<call, persisted>> /\ job[p] \in Jobs
        /\ \E ks : meta' = [k \in Keys |-> IF k \in ks THEN None ELSE meta[k]]
        /\ \E d : job'[p] = [job[p] EXCEPT !.drop = d, !.then = "evictFiles"]
    BY <1>8, EvictEffect, ZenonT(40) DEF Evict, sharedVars, diskVars, S3Type, CallersType
  <2>2. job'[p].uid = job[p].uid /\ job'[p].snap = job[p].snap /\ Key(p)' = Key(p)
    BY <2>1 DEF Jobs, Key
  <2>3. MetaKept
    BY <2>1 DEF MetaKept, Names, Claim
  <2> QED
    BY <2>1, <2>2, <2>3, SameClaims, DiskSame, KeptByOthers
<1>9. ASSUME NEW p \in Procs, EvictFile(p) PROVE ClaimsKept
  <2>0. UNCHANGED <<meta, persisted>>
    BY <1>9 DEF EvictFile
  <2>1. CASE StoreEnds(p)
    BY <2>0, <2>1, MetaSame, DiskSame, KeptByFinish DEF StoreEnds
  <2>2. CASE ~ StoreEnds(p)
    <3>1. /\ Others(p) /\ UNCHANGED sharedVars /\ job[p] \in Jobs
          /\ \/ UNCHANGED job
             \/ job'[p] = [job[p] EXCEPT !.drop = Tail(job[p].drop)]
      BY <1>9, <2>2, EvictFileEffect DEF S3Type, CallersType
    <3>2. job'[p].uid = job[p].uid /\ job'[p].snap = job[p].snap /\ Key(p)' = Key(p)
      BY <3>1 DEF Jobs, Key, sharedVars
    <3> QED
      BY <2>0, <3>1, <3>2, SameClaims, MetaSame, DiskSame, KeptByOthers
  <2> QED
    BY <2>1, <2>2
<1>10. ASSUME NEW p \in Procs, Put(p) PROVE ClaimsKept
  <2>1. /\ Others(p) /\ UNCHANGED <<call, persisted>> /\ job'[p] = [job[p] EXCEPT !.then = "stored"] /\ job[p] \in Jobs
        /\ meta' = [meta EXCEPT ![Key(p)] = [uid |-> IF meta[Key(p)] = None THEN job[p].uid ELSE meta[Key(p)].uid,
                                             hash |-> job[p].data]]
    BY <1>10, PutEffect DEF Put, diskVars, S3Type, CallersType
  <2>2. job'[p].uid = job[p].uid /\ job'[p].snap = job[p].snap /\ Key(p)' = Key(p)
    BY <2>1 DEF Jobs, Key
  <2>3. MetaKept
    <3>1. \A k \in Keys \ {Key(p)} : meta'[k] = meta[k]
      BY <2>1 DEF S3Type, Metadata
    <3>2. Key(p) \in Keys => meta'[Key(p)].uid \in {job[p].uid} \/ (meta[Key(p)] # None /\ meta'[Key(p)].uid = meta[Key(p)].uid)
      BY <2>1 DEF S3Type, Metadata
    <3> QED
      BY <3>1, <3>2 DEF MetaKept, Names, Claim
  <2> QED
    BY <2>1, <2>2, <2>3, SameClaims, DiskSame, KeptByOthers
<1>11. ASSUME NEW p \in Procs,
              \/ ReadFile(p) \/ FetchFails(p) \/ RemoteFails(p) \/ RemoveFile(p) \/ RenameFails(p)
              \/ StoreSkipped(p) \/ WriteFails(p)
       PROVE  ClaimsKept
  <2>1. \E ps, a : Finish(ps, a)
    BY <1>11 DEF ReadFile, FetchFails, RemoteFails, RemoveFile, RenameFails, StoreSkipped, WriteFails, StoreEnds
  <2>2. UNCHANGED <<meta, persisted>>
    BY <1>11 DEF ReadFile, FetchFails, RemoteFails, RemoveFile, RenameFails, StoreSkipped, WriteFails, cacheVars, diskVars
  <2> QED
    BY <2>1, <2>2, KeptByFinish, MetaSame, DiskSame
<1>12. CASE Crash
  <2>1. meta' = persisted /\ UNCHANGED persisted /\ \A q \in Procs : job'[q] = NoJob
    BY <1>12 DEF Crash, diskVars
  <2>2. \A q \in Procs : JobKept(q)
    BY <2>1, NoClaims
  <2>3. MetaKept /\ DiskKept
    BY <2>1, DiskSame DEF MetaKept, Names, Claim
  <2> QED
    BY <2>2, <2>3 DEF JobKept, MetaKept, DiskKept, ClaimsKept, Claim
<1>13. CASE UNCHANGED vars
  BY <1>13 DEF vars, diskVars, sharedVars, ClaimsKept, Claim, Names, Key
<1>14. ASSUME NEW p \in Procs, MeasureRoom(p) PROVE ClaimsKept
  <2>1. UNCHANGED <<call, job, meta, persisted>>
    BY <1>14 DEF MeasureRoom, sharedVars, diskVars
  <2> QED
    BY <2>1 DEF ClaimsKept, Claim, Names, Key
<1> QED
  BY <1>1, <1>2, <1>3, <1>4, <1>5, <1>6, <1>7, <1>8, <1>9, <1>10, <1>11, <1>12, <1>13, <1>14 DEF Next, Step

\* Files are removed, or written by a caller with a version of its key.
LEMMA FilesStep ==
  ASSUME S3Type, \A q \in Procs : Shape(q), VersionInv, [Next]_vars, NEW u \in Uids
  PROVE  \/ files'[u] \in {files[u], None}
         \/ \E k \in Keys : Claim(k, u) /\ files'[u] \in written[k]
<1>1. ASSUME NEW p \in Procs, RemoveFile(p)
      PROVE  files'[u] \in {files[u], None}
  BY <1>1 DEF RemoveFile, S3Type
<1>2. ASSUME NEW p \in Procs, EvictFile(p)
      PROVE  files'[u] \in {files[u], None}
  BY <1>2 DEF EvictFile, S3Type
<1>3. ASSUME NEW p \in Procs, WriteFile(p)
      PROVE  files'[u] = files[u] \/ \E k \in Keys : Claim(k, u) /\ files'[u] \in written[k]
  <2>1. files' = [files EXCEPT ![job[p].uid] = job[p].data] /\ HasData(p) /\ Key(p) \in Keys
    BY <1>3 DEF WriteFile, HasData, Storing, Shape
  <2>2. job[p].data \in written[Key(p)]
    BY <2>1 DEF VersionInv, Brings
  <2>3. CASE u = job[p].uid
    BY <2>1, <2>2, <2>3 DEF Claim, S3Type
  <2>4. CASE u # job[p].uid
    BY <2>1, <2>4 DEF S3Type
  <2> QED
    BY <2>3, <2>4
<1>4. ASSUME NEW p \in Procs,
             \/ \E op \in {"get", "put", "remove"}, k \in Keys, want \in Versions \cup {None} : Call(p, op, k, want)
             \/ ReadCached(p) \/ ReadFile(p) \/ Flight(p) \/ FetchFails(p) \/ Fetch(p) \/ Upload(p) \/ RemoteFails(p)
             \/ Delete(p) \/ Forget(p) \/ Persist(p) \/ Rename(p) \/ RenameFails(p) \/ StoreSkipped(p) \/ Store(p)
             \/ MeasureRoom(p) \/ Evict(p) \/ WriteFails(p) \/ Put(p)
      PROVE  UNCHANGED files
  BY <1>4 DEF Call, ReadCached, ReadFile, Flight, FetchFails, Fetch, Upload, RemoteFails, Delete, Forget, Persist,
     Rename, RenameFails, StoreSkipped, Store, MeasureRoom, Evict, WriteFails, Put, cacheVars, diskVars
<1>5. CASE Crash \/ UNCHANGED vars
  BY <1>5 DEF Crash, vars, diskVars
<1> QED
  BY <1>1, <1>2, <1>3, <1>4, <1>5 DEF Next, Step

\* Versions that were in the bucket are never forgotten.
LEMMA WrittenGrows ==
  ASSUME S3Type, [Next]_vars, NEW k \in Keys
  PROVE  written[k] \subseteq written'[k]
<1>1. ASSUME NEW p \in Procs, Upload(p) PROVE written[k] \subseteq written'[k]
  BY <1>1 DEF Upload, OS!Upload, S3Type
<1>2. ASSUME NEW p \in Procs,
             \/ \E op \in {"get", "put", "remove"}, l \in Keys, want \in Versions \cup {None} : Call(p, op, l, want)
             \/ ReadCached(p) \/ Flight(p) \/ Fetch(p) \/ Delete(p) \/ Persist(p) \/ Store(p) \/ Evict(p)
             \/ MeasureRoom(p) \/ WriteFile(p) \/ Put(p)
      PROVE  UNCHANGED written
  BY <1>2 DEF Call, OS!Call, ReadCached, Flight, Fetch, Delete, OS!Delete, Persist, Store, MeasureRoom, Evict,
     WriteFile, Put, sharedVars
<1>3. ASSUME NEW p \in Procs,
             \/ ReadFile(p) \/ FetchFails(p) \/ RemoteFails(p) \/ RemoveFile(p) \/ RenameFails(p)
             \/ StoreSkipped(p) \/ WriteFails(p) \/ Forget(p) \/ Rename(p) \/ EvictFile(p)
      PROVE  UNCHANGED written
  BY <1>3 DEF ReadFile, FetchFails, RemoteFails, RemoveFile, RenameFails, StoreSkipped, WriteFails, Forget, Rename,
     EvictFile, StoreEnds, Finish, sharedVars
<1>4. CASE Crash \/ UNCHANGED vars
  BY <1>4 DEF Crash, OS!Crash, vars, sharedVars
<1> QED
  BY <1>1, <1>2, <1>3, <1>4 DEF Next, Step

\* What Store claims is the identifier of the entry, or one that nobody has.
LEMMA StoreClaims ==
  ASSUME S3Type, \A q \in Procs : Shape(q), NEW p \in Procs, Store(p), NEW k \in Keys, NEW u \in Uids, Claim(k, u)'
  PROVE  \/ Claim(k, u)
         \/ k = Key(p) /\ u = uuids + 1 /\ uuids' = u /\ meta[Key(p)] = None
<1>1. /\ Others(p) /\ UNCHANGED call
      /\ \E f \in Int : job'[p] = [job[p] EXCEPT !.uid = ResolveUID(p).uid, !.diff = f]
      /\ uuids' = IF ResolveUID(p).uid > uuids THEN ResolveUID(p).uid ELSE uuids
  BY StoreEffect
<1>2. Key(p) \in Keys /\ job[p] \in Jobs /\ UNCHANGED <<meta, persisted>>
  BY DEF Store, Shape, S3Type, CallersType, diskVars
<1>3. job'[p].uid = ResolveUID(p).uid /\ job'[p].snap = job[p].snap /\ Key(p)' = Key(p)
  BY <1>1, <1>2 DEF Jobs, Key
<1>4. \A q \in Procs \ {p} : JobKept(q)
  BY <1>1, SameClaims, SameFacts DEF Others, Same
<1>5. CASE ~ Claim(k, u)
  <2>1. Key(p) = k /\ ResolveUID(p).uid = u
    BY <1>2, <1>3, <1>4, <1>5 DEF JobKept, Claim, Names
  <2>2. meta[k] = None
    BY <2>1, <1>2, <1>5, ResolvedUID DEF Claim, Names
  <2>3. u = uuids + 1
    BY <2>1, <2>2, <1>2, ResolvedUID
  <2> QED
    BY <2>1, <2>2, <2>3, <1>1 DEF S3Type
<1> QED
  BY <1>5

LEMMA UidStep ==
  ASSUME S3Type, LruInv, \A q \in Procs : Shape(q), VersionInv, UidInv, [Next]_vars
  PROVE  UidInv'
<1>0. uuids \in Nat /\ \A u \in Uids : u \in Nat
  BY DEF S3Type, Uids
<1>1. \A u \in Uids : \/ files'[u] \in {files[u], None}
                      \/ \E k \in Keys : Claim(k, u) /\ files'[u] \in written[k]
  BY FilesStep
<1>2. \A k \in Keys : written[k] \subseteq written'[k]
  BY WrittenGrows
<1>3. \A k \in Keys, u \in Uids : Claim(k, u) /\ files'[u] # None => files'[u] \in written'[k]
  BY <1>1, <1>2 DEF UidInv
<1>4. CASE \A p \in Procs : ~ Store(p)
  <2>1. ClaimsKept
    BY <1>4, ClaimStep
  <2>2. UNCHANGED uuids
    <3>1. ASSUME NEW p \in Procs,
                 \/ \E op \in {"get", "put", "remove"}, k \in Keys, want \in Versions \cup {None} : Call(p, op, k, want)
                 \/ ReadCached(p) \/ ReadFile(p) \/ Flight(p) \/ FetchFails(p) \/ Fetch(p) \/ Upload(p)
                 \/ RemoteFails(p) \/ Delete(p) \/ Forget(p) \/ RemoveFile(p) \/ Persist(p) \/ Rename(p)
                 \/ RenameFails(p) \/ StoreSkipped(p) \/ Evict(p) \/ EvictFile(p) \/ WriteFile(p) \/ WriteFails(p)
                 \/ MeasureRoom(p) \/ Put(p)
          PROVE  UNCHANGED uuids
      BY <3>1 DEF Call, ReadCached, ReadFile, Flight, FetchFails, Fetch, Upload, RemoteFails, Delete, Forget,
         RemoveFile, Persist, Rename, RenameFails, StoreSkipped, MeasureRoom, Evict, EvictFile, WriteFile, WriteFails,
         Put, cacheVars
    <3>2. CASE Crash \/ UNCHANGED vars
      BY <3>2 DEF Crash, vars
    <3> QED
      BY <3>1, <3>2, <1>4 DEF Next, Step
  <2>3. \A u \in Uids : u > uuids => files'[u] = None
    <3>1. \A k \in Keys, u \in Uids : Claim(k, u) => u <= uuids
      BY DEF UidInv
    <3>2. \A k \in Keys, u \in Uids : u > uuids => ~ Claim(k, u)
      BY <3>1, <1>0
    <3> QED
      BY <3>2, <1>1 DEF UidInv
  <2> QED
    BY <2>1, <2>2, <2>3, <1>3 DEF UidInv, ClaimsKept
<1>5. ASSUME NEW p \in Procs, Store(p) PROVE UidInv'
  <2>1. uuids' \in Nat /\ uuids <= uuids'
    <3>1. ResolveUID(p).uid \in Uids /\ uuids' = IF ResolveUID(p).uid > uuids THEN ResolveUID(p).uid ELSE uuids
      BY <1>5, StoreEffect
    <3> QED
      BY <3>1, <1>0
  <2>2. \A k \in Keys, u \in Uids : Claim(k, u)' => Claim(k, u) \/ (k = Key(p) /\ u = uuids + 1 /\ uuids' = u)
    BY <1>5, StoreClaims
  <2>3. UNCHANGED files
    BY <1>5 DEF Store, diskVars
  <2>4. \A u \in Uids : u > uuids => files[u] = None /\ \A k \in Keys : ~ Claim(k, u)
    BY <1>0 DEF UidInv
  <2>5. \A k \in Keys, u \in Uids : Claim(k, u)' => u <= uuids'
    BY <2>1, <2>2, <1>0 DEF UidInv
  <2>6. \A k \in Keys, u \in Uids : Claim(k, u)' /\ files'[u] # None => files'[u] \in written'[k]
    <3>1. uuids + 1 > uuids
      BY <1>0
    <3> QED
      BY <3>1, <2>2, <2>3, <2>4, <1>3
  <2>7. \A k, l \in Keys, u \in Uids : Claim(k, u)' /\ Claim(l, u)' => k = l
    BY <2>2, <2>4, <1>0 DEF UidInv
  <2>8. \A u \in Uids : u > uuids' => files'[u] = None
    <3>1. \A u \in Uids : u > uuids' => u > uuids
      BY <2>1, <1>0
    <3> QED
      BY <3>1, <2>3 DEF UidInv
  <2> QED
    BY <2>5, <2>6, <2>7, <2>8 DEF UidInv
<1> QED
  BY <1>4, <1>5

-----------------------------------------------------------------------------
(***************************************************************************)
(* Files and entries.  A caller that stays where it is is alike before and *)
(* after; Benign is what a caller that moves may do while files and        *)
(* entries stay.                                                           *)
(***************************************************************************)
LEMMA Alike ==
  ASSUME NEW q \in Procs, Same(q)
  PROVE  /\ Key(q)' = Key(q) /\ (Storing(q)' <=> Storing(q))
         /\ \A u \in Uids : (Dooms(q, u)' <=> Dooms(q, u)) /\ (Kills(q, u)' <=> Kills(q, u))
         /\ \A k \in Keys : /\ Unsaved(q, k)' <=> Unsaved(q, k)
                            /\ Putting(q, k)' <=> Putting(q, k)
BY DEF Same, Key, Storing, Dooms, Kills, Unsaved, Putting

LEMMA FreshDooms ==
  ASSUME NEW q \in Procs, Fresh(q)'
  PROVE  \A u \in Uids : ~ Dooms(q, u)'
BY DEF Fresh, Dooms, ToSet

Gentle(q) ==
  /\ \A u \in Uids : Dooms(q, u)' => Dooms(q, u)
  /\ \A k \in Keys : Putting(q, k) => Putting(q, k)'
Benign(q) == Gentle(q) /\ StoreInv(q)' /\ ReadInv(q)' /\ SnapInv(q)'
Thrifty(q) ==
  /\ \A u \in Uids : Kills(q, u)' => Kills(q, u)
  /\ \A k \in Keys : Unsaved(q, k) => Unsaved(q, k)' \/ k \in stale' \/ persisted[k] = meta[k]

\* A caller that left the cache, or never came to it.
LEMMA OutsideBenign ==
  ASSUME NEW q \in Procs, Outside(q)', Fresh(q)', pc[q] # "put"
  PROVE  Benign(q) /\ \A u \in Uids : ~ Kills(q, u)'
<1>1. \A u \in Uids : ~ Dooms(q, u)'
  BY FreshDooms
<1>2. ~ Storing(q)' /\ pc'[q] \notin {"readFile", "rename", "removeFile", "measure", "evictFiles", "write"}
  BY DEF Outside, Storing
<1>3. \A u \in Uids : ~ Kills(q, u)'
  BY <1>2 DEF Kills
<1> QED
  BY <1>1, <1>2, <1>3 DEF Benign, Gentle, Putting, StoreInv, ReadInv, SnapInv

\* Nothing changes but where callers are.
LEMMA QuietEntries ==
  ASSUME S3Type, FileInv, UNCHANGED <<meta, files>>, uuids' \in Nat, uuids <= uuids', torn \subseteq torn',
         \A q \in Procs : Same(q) \/ Benign(q),
         \A q \in Procs : Same(q) /\ pc[q] = "rename" => stale \subseteq stale'
  PROVE  /\ DoomInv'
         /\ \A k \in Keys : EntryInv(k)'
         /\ \A q \in Procs : StoreInv(q)' /\ ReadInv(q)' /\ SnapInv(q)'
<1>1. \A q \in Procs : Gentle(q)
  BY Alike DEF Gentle, Benign
<1>2. DoomInv'
  <2>1. \A u \in Uids : u \in Nat /\ uuids \in Nat
    BY DEF Uids, S3Type
  <2>2. \A u \in Uids : u <= uuids => u <= uuids'
    BY <2>1
  <2> QED
    BY <1>1, <2>2 DEF DoomInv, FileInv, Gentle
<1>3. \A k \in Keys : EntryInv(k)'
  <2>1. \A k \in Keys, u \in Uids : Names(meta, k, u)' <=> Names(meta, k, u)
    BY DEF Names
  <2> QED
    BY <1>1, <2>1 DEF EntryInv, FileInv, Gentle
<1>4. ASSUME NEW q \in Procs
      PROVE  StoreInv(q)' /\ ReadInv(q)' /\ SnapInv(q)'
  <2>1. CASE Benign(q)
    BY <2>1 DEF Benign
  <2>2. CASE Same(q)
    <3>1. /\ Key(q)' = Key(q) /\ (Storing(q)' <=> Storing(q))
          /\ pc'[q] = pc[q] /\ job'[q] = job[q] /\ call'[q] = call[q]
      BY <2>2, Alike DEF Same
    <3>2. StoreInv(q)'
      <4>1. \A u \in Uids : Names(meta, Key(q), u)' <=> Names(meta, Key(q), u)
        BY <3>1 DEF Names
      <4> QED
        BY <1>1, <3>1, <4>1 DEF StoreInv, FileInv, Gentle
    <3>3. ReadInv(q)'
      BY <3>1 DEF ReadInv, FileInv
    <3>4. SnapInv(q)'
      BY <3>1, <2>2 DEF SnapInv, FileInv
    <3> QED
      BY <3>2, <3>3, <3>4
  <2> QED
    BY <2>1, <2>2
<1> QED
  BY <1>2, <1>3, <1>4

LEMMA QuietDisk ==
  ASSUME FileInv, UNCHANGED <<meta, files, persisted>>, torn \subseteq torn', stale \subseteq stale',
         \A q \in Procs : Same(q) \/ Thrifty(q)
  PROVE  \A k \in Keys : DiskInv(k)'
<1>1. \A q \in Procs : Thrifty(q)
  BY Alike DEF Thrifty
<1>2. \A k \in Keys : Leftover(k) => Leftover(k)'
  BY <1>1 DEF Leftover, Names, Thrifty
<1> QED
  BY <1>1, <1>2 DEF DiskInv, FileInv, Thrifty

LEMMA QuietFiles ==
  ASSUME S3Type, FileInv, UNCHANGED <<meta, files, persisted, uuids>>, torn \subseteq torn', stale \subseteq stale',
         \A q \in Procs : Same(q) \/ (Benign(q) /\ Thrifty(q))
  PROVE  FileInv'
<1>1. uuids' \in Nat /\ uuids <= uuids'
  BY DEF S3Type
<1>2. \A k \in Keys : DiskInv(k)'
  BY QuietDisk
<1>3. /\ DoomInv'
      /\ \A k \in Keys : EntryInv(k)'
      /\ \A q \in Procs : StoreInv(q)' /\ ReadInv(q)' /\ SnapInv(q)'
  BY <1>1, QuietEntries
<1> QED
  BY <1>2, <1>3 DEF FileInv

\* Calls end, and what was cached stays.
LEMMA EndsQuietly ==
  ASSUME S3Inv, NEW ps, NEW a, Finish(ps, a), UNCHANGED <<meta, files, persisted, uuids, torn>>, stale \subseteq stale',
         \A q \in Procs \cap ps :
           pc[q] # "put" /\ (job[q].then # "stored" \/ \A k \in Keys \ stale' : persisted[k] = meta[k])
  PROVE  FileInv'
<1>1. \A q \in Procs : IF q \in ps THEN Ended(q) ELSE Same(q)
  BY Finished DEF S3Inv
<1>2. ASSUME NEW q \in Procs, q \in ps
      PROVE  Benign(q) /\ Thrifty(q)
  <2>1. Outside(q)' /\ Fresh(q)'
    BY <1>1, <1>2, EndedFacts
  <2>2. Benign(q) /\ \A u \in Uids : ~ Kills(q, u)'
    BY <1>2, <2>1, OutsideBenign
  <2>3. \A k \in Keys : Unsaved(q, k) => k \in stale' \/ persisted[k] = meta[k]
    BY <1>2 DEF Unsaved
  <2> QED
    BY <2>2, <2>3 DEF Thrifty
<1> QED
  BY <1>1, <1>2, QuietFiles DEF S3Inv

LEMMA FlockPlaces ==
  ASSUME S3Inv, NEW p \in Procs, NEW q \in Flock(p)
  PROVE  q \in Procs /\ (q # p => pc[q] = "join" /\ job[q].then = "idle")
BY DEF Flock, S3Inv, Shape, Outside, Fresh

LEMMA EndingFiles ==
  ASSUME S3Inv, NEW p \in Procs,
         \/ ReadFile(p) \/ FetchFails(p) \/ RemoteFails(p) \/ RenameFails(p) \/ StoreSkipped(p) \/ WriteFails(p)
         \/ (Forget(p) /\ meta[Key(p)] = None)
         \/ (EvictFile(p) /\ StoreEnds(p) /\ UNCHANGED files)
  PROVE  FileInv'
<1>0. /\ \A q \in Procs : Shape(q)
      /\ \A q \in Flock(p) : q \in Procs /\ (q # p => pc[q] = "join" /\ job[q].then = "idle")
  BY FlockPlaces DEF S3Inv
<1>1. CASE RenameFails(p)
  <2>1. \E ps, a : Finish(ps, a) /\ ps \in {{p}, Flock(p)}
    BY <1>1 DEF RenameFails, StoreEnds
  <2>2. /\ UNCHANGED <<meta, files, persisted, uuids, torn>> /\ pc[p] = "rename"
        /\ stale' = {k \in Keys : persisted[k] # meta[k]} \cup stale
    BY <1>1 DEF RenameFails, diskVars
  <2>3. stale \subseteq stale' /\ \A k \in Keys \ stale' : persisted[k] = meta[k]
    BY <2>2
  <2> QED
    BY <1>0, <2>1, <2>2, <2>3, EndsQuietly
<1>2. CASE \/ ReadFile(p) \/ FetchFails(p) \/ RemoteFails(p) \/ StoreSkipped(p) \/ WriteFails(p)
           \/ (Forget(p) /\ meta[Key(p)] = None) \/ (EvictFile(p) /\ StoreEnds(p) /\ UNCHANGED files)
  <2>1. \E ps, a : Finish(ps, a) /\ ps \in {{p}, Flock(p)}
    BY <1>2 DEF ReadFile, FetchFails, RemoteFails, StoreSkipped, WriteFails, Forget, StoreEnds
  <2>2. UNCHANGED <<meta, files, persisted, uuids, torn, stale>>
    BY <1>2 DEF ReadFile, FetchFails, RemoteFails, StoreSkipped, WriteFails, Forget, EvictFile, cacheVars, diskVars
  <2>3. pc[p] \in {"readFile", "fetch", "upload", "delete", "store", "write", "forget", "evictFiles"}
    BY <1>2 DEF ReadFile, FetchFails, RemoteFails, StoreSkipped, WriteFails, Forget, EvictFile
  <2>4. pc[p] # "put" /\ job[p].then # "stored"
    BY <1>0, <2>3 DEF Shape
  <2> QED
    BY <1>0, <2>1, <2>2, <2>4, EndsQuietly
<1> QED
  BY <1>1, <1>2

\* One caller moves outside the cache.
LEMMA OutsideFiles ==
  ASSUME S3Inv, [Next]_vars, NEW p \in Procs,
         \/ \E op \in {"get", "put", "remove"}, k \in Keys, want \in Versions \cup {None} : Call(p, op, k, want)
         \/ (ReadCached(p) /\ pc'[p] = "flight" /\ torn' = torn) \/ Flight(p) \/ Fetch(p) \/ Upload(p) \/ Delete(p)
  PROVE  FileInv'
<1>0. S3Type /\ LruInv /\ \A q \in Procs : Shape(q)
  BY DEF S3Inv
<1>1. Others(p) /\ pc'[p] \in {"flight", "lookup", "upload", "delete", "join", "fetch", "store", "forget"}
  BY <1>0, CallEffect, ReadCachedEffect, FlightEffect, FetchEffect, UploadEffect, DeleteEffect
<1>2. UNCHANGED <<meta, files, persisted, uuids, torn, stale>>
  BY DEF Call, ReadCached, Flight, Fetch, Upload, Delete, cacheVars, diskVars
<1>3. pc[p] \in {"idle", "lookup", "flight", "fetch", "upload", "delete"}
  BY <1>0, CallEffect DEF ReadCached, Flight, Fetch, Upload, Delete
<1>4. Shape(p)'
  BY <1>0, ShapeStep
<1>5. Outside(p)' /\ Fresh(p)' /\ pc[p] # "put"
  BY <1>1, <1>3, <1>4 DEF Shape, Outside
<1>6. Benign(p) /\ \A u \in Uids : ~ Kills(p, u)'
  BY <1>5, OutsideBenign
<1>7. job[p].then # "stored"
  BY <1>0, <1>3 DEF Shape
<1>8. Thrifty(p)
  BY <1>6, <1>7 DEF Thrifty, Unsaved
<1>9. \A q \in Procs : Same(q) \/ (Benign(q) /\ Thrifty(q))
  BY <1>1, <1>6, <1>8 DEF Others
<1> QED
  BY <1>0, <1>2, <1>9, QuietFiles DEF S3Inv

\* A cached file is found: nobody is storing its key, or the key is torn.
LEMMA ReadCachedFiles ==
  ASSUME S3Inv, NEW p \in Procs, ReadCached(p), pc'[p] = "readFile"
  PROVE  FileInv'
<1>0. S3Type /\ FileInv /\ pc[p] = "lookup" /\ Shape(p) /\ Key(p) \in Keys /\ Fresh(p) /\ job[p] \in Jobs
  BY DEF S3Inv, ReadCached, Shape, Outside, S3Type, CallersType
<1>1. /\ Others(p) /\ UNCHANGED call /\ meta[Key(p)] # None /\ meta[Key(p)].hash = call[p].want
      /\ job'[p] = [job[p] EXCEPT !.uid = meta[Key(p)].uid]
      /\ torn' = IF BeingStored(Key(p)) THEN torn \cup {Key(p)} ELSE torn
  BY <1>0, ReadCachedEffect
<1>2. UNCHANGED <<meta, files, persisted, uuids, stale>> /\ torn \subseteq torn'
  BY <1>1 DEF ReadCached, cacheVars, diskVars
<1>3. job'[p].uid = meta[Key(p)].uid /\ job'[p].drop = << >> /\ job'[p].then = "idle" /\ Key(p)' = Key(p)
  BY <1>0, <1>1 DEF Jobs, Fresh, Key
<1>4. Gentle(p) /\ Thrifty(p)
  BY <1>0, <1>3 DEF Gentle, Thrifty, Dooms, Kills, Putting, Unsaved, Fresh, ToSet
<1>5. StoreInv(p)' /\ SnapInv(p)'
  BY DEF StoreInv, Storing, SnapInv
<1>6. ReadInv(p)'
  <2>1. SUFFICES ASSUME Key(p) \notin torn', NEW u \in Uids, meta[Key(p)].uid = u
                 PROVE  files[u] = call[p].want
    BY <1>1, <1>2, <1>3 DEF ReadInv
  <2>2. ~ BeingStored(Key(p)) /\ Key(p) \notin torn
    BY <1>1, <2>1
  <2>3. \A q \in Procs : ~ Putting(q, Key(p))
    BY <2>2 DEF BeingStored, Putting, Storing
  <2> QED
    BY <1>0, <1>1, <2>1, <2>2, <2>3 DEF FileInv, EntryInv, Names
<1>7. \A q \in Procs : Same(q) \/ (Benign(q) /\ Thrifty(q))
  BY <1>1, <1>4, <1>5, <1>6 DEF Others, Benign
<1> QED
  BY <1>0, <1>2, <1>7, QuietFiles

LEMMA PersistFiles ==
  ASSUME S3Inv, NEW p \in Procs, Persist(p)
  PROVE  FileInv'
<1>0. S3Type /\ FileInv /\ pc[p] = "persist" /\ Shape(p) /\ job[p] \in Jobs
  BY DEF S3Inv, Persist, S3Type, CallersType
<1>1. /\ Others(p) /\ UNCHANGED call /\ pc'[p] = "rename" /\ job'[p] = [job[p] EXCEPT !.snap = meta]
      /\ UNCHANGED <<meta, files, persisted, uuids, stale, torn>>
  BY <1>0, PersistEffect DEF Persist, diskVars
<1>2. /\ job'[p].uid = job[p].uid /\ job'[p].drop = job[p].drop /\ job'[p].then = job[p].then
      /\ job'[p].snap = meta /\ Key(p)' = Key(p)
  BY <1>0, <1>1 DEF Jobs, Key
<1>3. Gentle(p) /\ Thrifty(p)
  BY <1>0, <1>1, <1>2 DEF Gentle, Thrifty, Dooms, Kills, Putting, Unsaved
<1>4. \A q \in Procs \ {p}, u \in Uids : Dooms(q, u)' <=> Dooms(q, u)
  BY <1>1, Alike DEF Others
<1>5. StoreInv(p)'
  BY <1>0, <1>1, <1>2, <1>4 DEF StoreInv, Storing, FileInv, Names
<1>6. ReadInv(p)' /\ SnapInv(p)'
  BY <1>1, <1>2 DEF ReadInv, SnapInv
<1>7. \A q \in Procs : Same(q) \/ (Benign(q) /\ Thrifty(q))
  BY <1>1, <1>3, <1>5, <1>6 DEF Others, Benign
<1> QED
  BY <1>0, <1>1, <1>7, QuietFiles

\* After a rename the file is what is in memory, but for stale keys.
LEMMA RenameFiles ==
  ASSUME S3Inv, NEW p \in Procs, Rename(p)
  PROVE  FileInv'
<1>0. /\ S3Type /\ FileInv /\ pc[p] = "rename" /\ Shape(p) /\ job[p] \in Jobs
      /\ UNCHANGED <<meta, files, uuids, torn>>
  BY DEF S3Inv, Rename, S3Type, CallersType
<1>1. stale' = IF persisted' = meta /\ \A q \in Procs \ {p} : pc[q] # "rename" THEN {} ELSE stale
  BY DEF Rename
<1>2. \A k \in Keys \ stale : persisted'[k] = meta[k]
  BY <1>0, RenamedFile DEF FileInv, SnapInv
<1>3. \A k \in Keys : DiskInv(k)'
  BY <1>0, <1>1, <1>2 DEF DiskInv
<1>4. \A q \in Procs : Same(q) \/ Benign(q)
  <2>1. CASE job[p].then = "stored"
    <3>1. \E ps, a : Finish(ps, a) /\ ps = Flock(p)
      BY <2>1 DEF Rename, StoreEnds
    <3>2. \A q \in Procs : IF q \in Flock(p) THEN Ended(q) ELSE Same(q)
      BY <1>0, <3>1, Finished
    <3>3. ASSUME NEW q \in Procs, q \in Flock(p)
          PROVE  Benign(q)
      <4>1. Outside(q)' /\ Fresh(q)'
        BY <3>2, <3>3, EndedFacts
      <4>2. pc[q] # "put"
        BY <1>0, <3>3, FlockPlaces
      <4> QED
        BY <4>1, <4>2, OutsideBenign
    <3> QED
      BY <3>2, <3>3
  <2>2. CASE job[p].then # "stored"
    <3>1. /\ Others(p) /\ UNCHANGED sharedVars /\ pc'[p] = job[p].then /\ pc'[p] \in {"removeFile", "evictFiles"}
          /\ job'[p] = [job[p] EXCEPT !.snap = NoJob.snap]
      BY <1>0, <2>2, RenameEffect
    <3>2. /\ job'[p].uid = job[p].uid /\ job'[p].drop = job[p].drop /\ job'[p].then = job[p].then
          /\ Key(p)' = Key(p)
      BY <1>0, <3>1 DEF Jobs, Key, sharedVars
    <3>3. Gentle(p)
      BY <1>0, <3>1, <3>2 DEF Gentle, Dooms, Putting
    <3>4. \A q \in Procs \ {p}, u \in Uids : Dooms(q, u)' <=> Dooms(q, u)
      BY <3>1, Alike DEF Others
    <3>5. StoreInv(p)'
      BY <1>0, <3>1, <3>2, <3>4 DEF StoreInv, Storing, FileInv, Names
    <3>6. ReadInv(p)' /\ SnapInv(p)'
      BY <3>1 DEF ReadInv, SnapInv
    <3> QED
      BY <3>1, <3>3, <3>5, <3>6 DEF Others, Benign
  <2> QED
    BY <2>1, <2>2
<1>5. \A q \in Procs : Same(q) /\ pc[q] = "rename" => stale \subseteq stale'
  <2>1. ~ Same(p)
    <3>1. CASE job[p].then = "stored"
      <4>1. pc'[p] = "idle"
        BY <3>1 DEF Rename, StoreEnds, Finish, Flock
      <4> QED
        BY <4>1, <1>0 DEF Same
    <3>2. CASE job[p].then # "stored"
      BY <1>0, <3>2, RenameEffect DEF Same
    <3> QED
      BY <3>1, <3>2
  <2> QED
    BY <2>1, <1>1
<1>6. uuids' \in Nat /\ uuids <= uuids' /\ torn \subseteq torn'
  BY <1>0 DEF S3Type
<1>7. /\ DoomInv'
      /\ \A k \in Keys : EntryInv(k)'
      /\ \A q \in Procs : StoreInv(q)' /\ ReadInv(q)' /\ SnapInv(q)'
  BY <1>0, <1>4, <1>5, <1>6, QuietEntries
<1> QED
  BY <1>3, <1>7 DEF FileInv

\* Nobody dooms the identifier that Store takes, and no removed entry has it.
LEMMA ResolvedSafely ==
  ASSUME S3Inv, NEW p \in Procs, Key(p) \in Keys, NEW r \in Uids, ResolveUID(p).uid = r
  PROVE  /\ Key(p) \notin torn => \A q \in Procs : ~ Dooms(q, r)
         /\ \A k \in Keys : meta[k] = None => ~ Names(persisted, k, r)
         /\ meta[Key(p)] # None => Names(meta, Key(p), r)
<1>0. S3Type /\ FileInv /\ UidInv
  BY DEF S3Inv
<1>1. CASE meta[Key(p)] = None
  <2>1. r = uuids + 1
    BY <1>0, <1>1, ResolvedUID
  <2>2. \A u \in Uids : u \in Nat /\ uuids \in Nat
    BY <1>0 DEF S3Type, Uids
  <2>3. \A q \in Procs : ~ Dooms(q, r)
    <3>1. \A q \in Procs : Dooms(q, r) => r <= uuids
      BY <1>0 DEF FileInv, DoomInv
    <3> QED
      BY <3>1, <2>1, <2>2
  <2>4. \A k \in Keys : ~ Names(persisted, k, r)
    <3>1. \A k \in Keys : Names(persisted, k, r) => r <= uuids
      BY <1>0 DEF UidInv, Claim
    <3> QED
      BY <3>1, <2>1, <2>2
  <2> QED
    BY <1>1, <2>3, <2>4
<1>2. CASE meta[Key(p)] # None
  <2>1. Names(meta, Key(p), r)
    BY <1>0, <1>2, ResolvedUID DEF Names
  <2>2. Key(p) \notin torn => \A q \in Procs : ~ Dooms(q, r)
    BY <1>0, <2>1 DEF FileInv, EntryInv
  <2>3. \A k \in Keys : Names(persisted, k, r) => k = Key(p)
    BY <1>0, <2>1 DEF UidInv, Claim
  <2> QED
    BY <1>2, <2>1, <2>2, <2>3
<1> QED
  BY <1>1, <1>2

LEMMA StoreFiles ==
  ASSUME S3Inv, NEW p \in Procs, Store(p)
  PROVE  FileInv'
<1>0. /\ S3Type /\ FileInv /\ pc[p] = "store" /\ Shape(p) /\ Key(p) \in Keys /\ Fresh(p) /\ job[p] \in Jobs
      /\ UNCHANGED <<meta, files, persisted, stale, torn>>
  BY DEF S3Inv, Store, Shape, Outside, S3Type, CallersType, diskVars
<1>1. /\ Others(p) /\ UNCHANGED call /\ pc'[p] = "measure" /\ ResolveUID(p).uid \in Uids
      /\ \E f \in Int : job'[p] = [job[p] EXCEPT !.uid = ResolveUID(p).uid, !.diff = f]
      /\ uuids' = IF ResolveUID(p).uid > uuids THEN ResolveUID(p).uid ELSE uuids
  BY <1>0, StoreEffect
<1>2. PICK r \in Uids : ResolveUID(p).uid = r
  BY <1>1
<1>3. /\ job'[p].uid = r /\ job'[p].drop = << >> /\ job'[p].then = "idle" /\ Key(p)' = Key(p)
  BY <1>0, <1>1, <1>2 DEF Jobs, Fresh, Key
<1>4. /\ Key(p) \notin torn => \A q \in Procs : ~ Dooms(q, r)
      /\ \A k \in Keys : meta[k] = None => ~ Names(persisted, k, r)
      /\ meta[Key(p)] # None => Names(meta, Key(p), r)
  BY <1>0, <1>2, ResolvedSafely
<1>5. uuids' \in Nat /\ uuids <= uuids' /\ torn \subseteq torn' /\ stale \subseteq stale'
  BY <1>0, <1>1, <1>2 DEF S3Type, Uids
<1>6. Gentle(p)
  BY <1>0, <1>3 DEF Gentle, Dooms, Putting, ToSet
<1>7. \A q \in Procs \ {p}, u \in Uids :
        /\ Dooms(q, u)' <=> Dooms(q, u)
        /\ Kills(q, u)' <=> Kills(q, u)
  BY <1>1, Alike DEF Others
<1>8. StoreInv(p)'
  <2>1. pc'[p] # "put" /\ (meta[Key(p)] # None => Names(meta, Key(p), r)')
    BY <1>0, <1>1, <1>3, <1>4 DEF Names
  <2> QED
    BY <1>0, <1>3, <1>4, <1>7, <2>1 DEF StoreInv
<1>9. ReadInv(p)' /\ SnapInv(p)'
  BY <1>1 DEF ReadInv, SnapInv
<1>10. \A q \in Procs : Same(q) \/ Benign(q)
  BY <1>1, <1>6, <1>8, <1>9 DEF Others, Benign
<1>11. /\ DoomInv'
       /\ \A k \in Keys : EntryInv(k)'
       /\ \A q \in Procs : StoreInv(q)' /\ ReadInv(q)' /\ SnapInv(q)'
  BY <1>0, <1>5, <1>10, QuietEntries
<1>12. ASSUME NEW k \in Keys PROVE DiskInv(k)'
  <2>1. \A u \in Uids : Kills(p, u)' => u = r
    BY <1>3, <1>1 DEF Kills, ToSet
  <2>2. meta[k] = None /\ Leftover(k) => Leftover(k)'
    BY <1>0, <1>4, <1>7, <2>1 DEF Leftover, Names
  <2>3. \A q \in Procs : Unsaved(q, k) => Unsaved(q, k)'
    <3>1. \A q \in Procs \ {p} : Unsaved(q, k)' <=> Unsaved(q, k)
      BY <1>1, Alike DEF Others
    <3>2. ~ Unsaved(p, k)
      BY <1>0 DEF Unsaved, Fresh
    <3> QED
      BY <3>1, <3>2
  <2> QED
    BY <1>0, <2>2, <2>3 DEF DiskInv, FileInv
<1> QED
  BY <1>11, <1>12 DEF FileInv

LEMMA MeasureFiles ==
  ASSUME S3Inv, NEW p \in Procs, MeasureRoom(p)
  PROVE  FileInv'
<1>0. S3Type /\ FileInv /\ pc[p] = "measure" /\ UNCHANGED <<meta, files, persisted, uuids, stale, torn>>
  BY DEF S3Inv, MeasureRoom, diskVars
<1>1. Others(p) /\ UNCHANGED <<call, job>> /\ pc'[p] \in {"evict", "write"}
  BY <1>0, MeasureEffect
<1>2. \A q \in Procs, u \in Uids : Dooms(q, u)' <=> Dooms(q, u)
  BY <1>1 DEF Dooms
<1>3. Gentle(p) /\ Thrifty(p)
  BY <1>0, <1>1, <1>2 DEF Gentle, Thrifty, Putting, Kills, Unsaved, Key
<1>4. StoreInv(p)'
  <2>1. Storing(p) /\ Key(p)' = Key(p) /\ pc'[p] # "put" /\ StoreInv(p)
    BY <1>0, <1>1 DEF Storing, Key, FileInv
  <2>2. \A u \in Uids : Names(meta, Key(p), u)' <=> Names(meta, Key(p), u)
    BY <1>0, <2>1 DEF Names
  <2> QED
    BY <1>0, <1>1, <1>2, <2>1, <2>2 DEF StoreInv
<1>5. ReadInv(p)' /\ SnapInv(p)'
  BY <1>1 DEF ReadInv, SnapInv
<1>6. \A q \in Procs : Same(q) \/ (Benign(q) /\ Thrifty(q))
  BY <1>1, <1>3, <1>4, <1>5 DEF Others, Benign
<1> QED
  BY <1>0, <1>6, QuietFiles

\* A file is removed by a caller that was on its way to.
LEMMA GoneFiles ==
  ASSUME S3Inv, NEW p \in Procs, Others(p), NEW w \in Uids, files' = [files EXCEPT ![w] = None],
         Dooms(p, w), Kills(p, w), UNCHANGED <<meta, persisted, uuids, stale>>, torn \subseteq torn',
         Benign(p), Thrifty(p)
  PROVE  FileInv'
<1>0. S3Type /\ FileInv
  BY DEF S3Inv
<1>1. files'[w] = None /\ \A u \in Uids \ {w} : files'[u] = files[u]
  BY <1>0 DEF S3Type
<1>2. /\ \A k \in Keys, u \in Uids : Names(meta, k, u)' <=> Names(meta, k, u)
      /\ \A k \in Keys, u \in Uids : Names(persisted, k, u)' <=> Names(persisted, k, u)
  BY DEF Names
<1>3. \A q \in Procs \ {p} :
        /\ Key(q)' = Key(q) /\ (Storing(q)' <=> Storing(q))
        /\ pc'[q] = pc[q] /\ job'[q] = job[q] /\ call'[q] = call[q]
        /\ \A u \in Uids : (Dooms(q, u)' <=> Dooms(q, u)) /\ (Kills(q, u)' <=> Kills(q, u))
        /\ \A k \in Keys : /\ Unsaved(q, k)' <=> Unsaved(q, k)
                           /\ Putting(q, k)' <=> Putting(q, k)
  BY Alike DEF Others, Same
<1>4. \A q \in Procs : Gentle(q) /\ Thrifty(q)
  BY <1>3 DEF Gentle, Thrifty, Benign
<1>5. DoomInv'
  BY <1>0, <1>4 DEF FileInv, DoomInv, Gentle
<1>6. ASSUME NEW k \in Keys PROVE EntryInv(k)'
  <2>1. k \notin torn => ~ Names(meta, k, w)
    BY <1>0 DEF FileInv, EntryInv
  <2> QED
    BY <1>0, <1>1, <1>2, <1>4, <2>1 DEF FileInv, EntryInv, Gentle
<1>7. ASSUME NEW k \in Keys PROVE DiskInv(k)'
  <2>1. Leftover(k) => Leftover(k)'
    <3>1. Leftover(k) => ~ Names(persisted, k, w)
      BY DEF Leftover
    <3> QED
      BY <3>1, <1>1, <1>2, <1>4 DEF Leftover, Thrifty
  <2> QED
    BY <1>0, <1>4, <2>1 DEF FileInv, DiskInv, Thrifty
<1>8. ASSUME NEW q \in Procs PROVE StoreInv(q)' /\ ReadInv(q)' /\ SnapInv(q)'
  <2>1. CASE q = p
    BY <2>1 DEF Benign
  <2>2. CASE q # p
    <3>1. StoreInv(q)'
      <4>1. Storing(q) /\ Key(q) \notin torn => job[q].uid # w
        BY <1>0, <2>2 DEF FileInv, StoreInv
      <4>2. \A u \in Uids : Names(meta, Key(q), u)' <=> Names(meta, Key(q), u)
        BY <1>3, <2>2 DEF Names
      <4> QED
        BY <1>0, <1>1, <1>3, <1>4, <2>2, <4>1, <4>2 DEF FileInv, StoreInv, Gentle
    <3>2. ReadInv(q)'
      BY <1>0, <1>1, <1>3, <2>2 DEF FileInv, ReadInv
    <3>3. SnapInv(q)'
      BY <1>0, <1>3, <2>2 DEF FileInv, SnapInv
    <3> QED
      BY <3>1, <3>2, <3>3
  <2> QED
    BY <2>1, <2>2
<1> QED
  BY <1>5, <1>6, <1>7, <1>8 DEF FileInv

LEMMA RemoveFileFiles ==
  ASSUME S3Inv, NEW p \in Procs, RemoveFile(p)
  PROVE  FileInv'
<1>0. S3Type /\ pc[p] = "removeFile" /\ Shape(p)
  BY DEF S3Inv, RemoveFile
<1>1. job[p].then = "removeFile" /\ job[p].uid \in Uids
  BY <1>0 DEF Shape
<1>2. Dooms(p, job[p].uid) /\ Kills(p, job[p].uid)
  BY <1>0, <1>1 DEF Dooms, Kills
<1>3. \E a : Finish({p}, a)
  BY DEF RemoveFile
<1>4. Others(p) /\ Ended(p)
  BY <1>0, <1>3, Finished DEF Others
<1>5. Outside(p)' /\ Fresh(p)' /\ pc[p] # "put"
  BY <1>0, <1>4, EndedFacts
<1>6. Benign(p) /\ \A u \in Uids : ~ Kills(p, u)'
  BY <1>5, OutsideBenign
<1>7. Thrifty(p)
  BY <1>1, <1>6 DEF Thrifty, Unsaved
<1>8. /\ files' = [files EXCEPT ![job[p].uid] = None] /\ torn \subseteq torn'
      /\ UNCHANGED <<meta, persisted, uuids, stale>>
  BY DEF RemoveFile, Tears
<1> QED
  BY <1>1, <1>2, <1>4, <1>6, <1>7, <1>8, GoneFiles

LEMMA HeadTailSets ==
  ASSUME NEW s \in Seq(Uids), s # << >>
  PROVE  Head(s) \in ToSet(s) /\ Head(s) \in Uids /\ \A u \in ToSet(Tail(s)) : u \in ToSet(s)
<1>1. Len(s) \in Nat /\ Len(s) >= 1 /\ DOMAIN s = 1..Len(s) /\ Head(s) = s[1]
  OBVIOUS
<1>2. \A i \in DOMAIN Tail(s) : i + 1 \in DOMAIN s /\ Tail(s)[i] = s[i + 1]
  OBVIOUS
<1> QED
  BY <1>1, <1>2 DEF ToSet

LEMMA EvictFileFiles ==
  ASSUME S3Inv, NEW p \in Procs, EvictFile(p)
  PROVE  FileInv'
<1>0. S3Type /\ FileInv /\ pc[p] = "evictFiles" /\ Shape(p) /\ job[p] \in Jobs
  BY DEF S3Inv, EvictFile, S3Type, CallersType
<1>1. job[p].then # "stored" /\ UNCHANGED <<meta, persisted, uuids, stale, torn>>
  BY <1>0 DEF Shape, EvictFile
<1>2. CASE StoreEnds(p) /\ UNCHANGED files
  BY <1>2, EndingFiles
<1>3. CASE Others(p) /\ UNCHANGED sharedVars /\ pc'[p] = "write" /\ UNCHANGED <<job, files>>
  <2>1. Key(p)' = Key(p) /\ Storing(p) /\ \A q \in Procs \ {p}, u \in Uids : Dooms(q, u)' <=> Dooms(q, u)
    BY <1>0, <1>3, Alike DEF Key, sharedVars, Others, Storing
  <2>2. Gentle(p) /\ Thrifty(p)
    BY <1>0, <1>1, <1>3 DEF Gentle, Thrifty, Dooms, Kills, Putting, Unsaved
  <2>3. StoreInv(p)'
    BY <1>0, <1>1, <1>3, <2>1 DEF StoreInv, FileInv, Names
  <2>4. ReadInv(p)' /\ SnapInv(p)'
    BY <1>3 DEF ReadInv, SnapInv
  <2>5. \A q \in Procs : Same(q) \/ (Benign(q) /\ Thrifty(q))
    BY <1>3, <2>2, <2>3, <2>4 DEF Others, Benign
  <2> QED
    BY <1>0, <1>1, <1>3, <2>5, QuietFiles
<1>4. CASE /\ Others(p) /\ UNCHANGED sharedVars /\ job[p].drop # << >> /\ pc'[p] = pc[p]
           /\ files' = [files EXCEPT ![Head(job[p].drop)] = None]
           /\ job'[p] = [job[p] EXCEPT !.drop = Tail(job[p].drop)]
  <2>1. /\ job'[p].uid = job[p].uid /\ job'[p].drop = Tail(job[p].drop) /\ job'[p].then = job[p].then
        /\ Key(p)' = Key(p)
    BY <1>0, <1>4 DEF Jobs, Key, sharedVars
  <2>2. /\ Head(job[p].drop) \in ToSet(job[p].drop) /\ Head(job[p].drop) \in Uids
        /\ \A u \in ToSet(Tail(job[p].drop)) : u \in ToSet(job[p].drop)
    BY <1>0, <1>4, HeadTailSets DEF Jobs
  <2>3. Dooms(p, Head(job[p].drop)) /\ Kills(p, Head(job[p].drop))
    BY <1>0, <2>2 DEF Dooms, Kills
  <2>4. Gentle(p) /\ Thrifty(p)
    BY <1>0, <1>1, <1>4, <2>1, <2>2 DEF Gentle, Thrifty, Dooms, Kills, Putting, Unsaved
  <2>5. \A q \in Procs \ {p}, u \in Uids : Dooms(q, u)' <=> Dooms(q, u)
    BY <1>4, Alike DEF Others
  <2>6. StoreInv(p)'
    <3>1. Storing(p)
      BY <1>0 DEF Storing
    <3> QED
      BY <1>0, <1>1, <1>4, <2>1, <2>5, <3>1 DEF StoreInv, FileInv, Names
  <2>7. ReadInv(p)' /\ SnapInv(p)'
    BY <1>0, <1>4 DEF ReadInv, SnapInv
  <2>8. Benign(p) /\ torn \subseteq torn'
    BY <1>1, <2>4, <2>6, <2>7 DEF Benign
  <2> QED
    BY <1>1, <1>4, <2>2, <2>3, <2>4, <2>8, GoneFiles
<1> QED
  BY <1>0, <1>2, <1>3, <1>4, EvictFileEffect

\* The file of a key is written; whoever else uses the key finds it torn.
LEMMA WriteFileFiles ==
  ASSUME S3Inv, NEW p \in Procs, WriteFile(p)
  PROVE  FileInv'
<1>0. /\ S3Type /\ FileInv /\ UidInv /\ pc[p] = "write" /\ Shape(p) /\ Key(p) \in Keys /\ job[p] \in Jobs
      /\ Storing(p)
  BY DEF S3Inv, WriteFile, Shape, S3Type, CallersType, Storing
<1>1. job[p].uid \in Uids /\ job[p].then # "stored"
  BY <1>0 DEF Shape
<1>2. PICK w \in Uids : job[p].uid = w
  BY <1>1
<1>3. /\ Others(p) /\ UNCHANGED <<call, job>> /\ pc'[p] = "put" /\ Key(p)' = Key(p)
      /\ files' = [files EXCEPT ![w] = job[p].data]
      /\ torn' = torn \cup {k \in {Key(p)} : \E q \in Procs \ {p} : Holds(q, k)}
      /\ UNCHANGED <<meta, persisted, uuids, stale>>
  BY <1>0, <1>2, WriteFileEffect DEF WriteFile, Key, Tears
<1>4. files'[w] = job[p].data /\ \A u \in Uids \ {w} : files'[u] = files[u]
  BY <1>0, <1>3 DEF S3Type
<1>5. \A k \in Keys : Claim(k, w) => k = Key(p)
  <2>1. Claim(Key(p), w)
    BY <1>2 DEF Claim
  <2> QED
    BY <1>0, <2>1 DEF UidInv
<1>6. \A q \in Procs \ {p} :
        /\ Key(q)' = Key(q) /\ (Storing(q)' <=> Storing(q))
        /\ pc'[q] = pc[q] /\ job'[q] = job[q] /\ call'[q] = call[q]
        /\ \A u \in Uids : (Dooms(q, u)' <=> Dooms(q, u)) /\ (Kills(q, u)' <=> Kills(q, u))
        /\ \A k \in Keys : /\ Unsaved(q, k)' <=> Unsaved(q, k)
                           /\ Putting(q, k)' <=> Putting(q, k)
  BY <1>3, Alike DEF Others, Same
<1>7. Gentle(p) /\ Thrifty(p)
  BY <1>0, <1>1, <1>3 DEF Gentle, Thrifty, Dooms, Kills, Putting, Unsaved
<1>8. \A q \in Procs : Gentle(q) /\ Thrifty(q)
  BY <1>6, <1>7 DEF Gentle, Thrifty
<1>9. /\ \A k \in Keys, u \in Uids : Names(meta, k, u)' <=> Names(meta, k, u)
      /\ \A k \in Keys, u \in Uids : Names(persisted, k, u)' <=> Names(persisted, k, u)
  BY <1>3 DEF Names
<1>10. DoomInv'
  BY <1>0, <1>3, <1>8 DEF FileInv, DoomInv, Gentle
<1>11. ASSUME NEW k \in Keys PROVE EntryInv(k)'
  <2>1. CASE k = Key(p)
    <3>1. Putting(p, k)'
      BY <1>3, <2>1 DEF Putting
    <3> QED
      BY <1>0, <1>3, <1>8, <1>9, <3>1 DEF FileInv, EntryInv, Gentle
  <2>2. CASE k # Key(p)
    <3>1. ~ Names(meta, k, w)
      BY <1>5, <2>2 DEF Claim
    <3> QED
      BY <1>0, <1>3, <1>4, <1>8, <1>9, <3>1 DEF FileInv, EntryInv, Gentle
  <2> QED
    BY <2>1, <2>2
<1>12. ASSUME NEW k \in Keys PROVE DiskInv(k)'
  <2>1. Leftover(k) => Leftover(k)'
    <3>1. Leftover(k) => ~ Names(persisted, k, w)
      BY <1>0, <1>2 DEF Leftover, Kills
    <3> QED
      BY <3>1, <1>3, <1>4, <1>8, <1>9 DEF Leftover, Thrifty
  <2> QED
    BY <1>0, <1>3, <1>8, <2>1 DEF FileInv, DiskInv, Thrifty
<1>13. StoreInv(p)'
  <2>1. \A u \in Uids : Names(meta, Key(p), u)' <=> Names(meta, Key(p), u)
    BY <1>3 DEF Names
  <2> QED
    BY <1>0, <1>2, <1>3, <1>4, <1>6, <2>1 DEF FileInv, StoreInv
<1>14. ASSUME NEW q \in Procs \ {p} PROVE StoreInv(q)' /\ ReadInv(q)' /\ SnapInv(q)'
  <2>1. (Storing(q) \/ pc[q] = "readFile") /\ Key(q) \notin torn' => job[q].uid # w
    <3>1. (Storing(q) \/ pc[q] = "readFile") /\ Key(q) \notin torn' => Key(q) # Key(p)
      BY <1>3 DEF Holds
    <3>2. (Storing(q) \/ pc[q] = "readFile") => Key(q) \in Keys
      BY DEF S3Inv, Shape, Storing
    <3>3. job[q].uid = w /\ Key(q) \in Keys => Claim(Key(q), w)
      BY DEF Claim
    <3> QED
      BY <3>1, <3>2, <3>3, <1>5
  <2>2. StoreInv(q)'
    <3>1. \A u \in Uids : Names(meta, Key(q), u)' <=> Names(meta, Key(q), u)
      BY <1>3, <1>6 DEF Names
    <3> QED
      BY <1>0, <1>3, <1>4, <1>6, <1>8, <2>1, <3>1 DEF FileInv, StoreInv, Gentle
  <2>3. ReadInv(q)'
    BY <1>0, <1>3, <1>4, <1>6, <2>1 DEF FileInv, ReadInv
  <2>4. SnapInv(q)'
    BY <1>0, <1>3, <1>6 DEF FileInv, SnapInv
  <2> QED
    BY <2>2, <2>3, <2>4
<1>15. ReadInv(p)' /\ SnapInv(p)'
  BY <1>3 DEF ReadInv, SnapInv
<1> QED
  BY <1>10, <1>11, <1>12, <1>13, <1>14, <1>15 DEF FileInv

\* Entries are removed from memory; their files are doomed.
LEMMA RemovedEntries ==
  ASSUME S3Inv, NEW p \in Procs, Others(p), Key(p)' = Key(p), NEW ks \in SUBSET Keys,
         meta' = [k \in Keys |-> IF k \in ks THEN None ELSE meta[k]], UNCHANGED <<files, persisted, uuids>>,
         Tears(p, ks), Outdates(p, ks), pc[p] \in {"forget", "evict"}, pc'[p] = "persist", job'[p].then # "stored",
         \A u \in Uids : Dooms(p, u)' => \E k \in ks : Names(meta, k, u),
         Storing(p)' => Storing(p) /\ job'[p].uid = job[p].uid
  PROVE  FileInv'
<1>0. S3Type /\ FileInv /\ UidInv /\ \A q \in Procs : Shape(q)
  BY DEF S3Inv
<1>1. /\ torn' = torn \cup {k \in ks : \E q \in Procs \ {p} : Holds(q, k)}
      /\ stale' = IF \E q \in Procs \ {p} : pc[q] = "rename" THEN stale \cup ks ELSE stale
  BY DEF Tears, Outdates
<1>2. /\ \A k \in ks : meta'[k] = None
      /\ \A k \in Keys \ ks : meta'[k] = meta[k]
      /\ torn \subseteq torn' /\ stale \subseteq stale'
  BY <1>1
<1>3. \A q \in Procs \ {p} :
        /\ Key(q)' = Key(q) /\ (Storing(q)' <=> Storing(q))
        /\ pc'[q] = pc[q] /\ job'[q] = job[q] /\ call'[q] = call[q]
        /\ \A u \in Uids : (Dooms(q, u)' <=> Dooms(q, u)) /\ (Kills(q, u)' <=> Kills(q, u))
        /\ \A k \in Keys : /\ Unsaved(q, k)' <=> Unsaved(q, k)
                           /\ Putting(q, k)' <=> Putting(q, k)
  BY Alike DEF Others, Same
<1>4. /\ \A k \in Keys : ~ Unsaved(p, k) /\ ~ Putting(p, k)
      /\ \A u \in Uids : ~ Kills(p, u)'
  BY <1>0 DEF Shape, Unsaved, Putting, Kills
<1>5. \A k, l \in Keys, u \in Uids : Names(meta, k, u) /\ Claim(l, u) => k = l
  BY <1>0 DEF UidInv, Claim
<1>6. /\ \A k \in Keys, u \in Uids : Names(meta, k, u)' => Names(meta, k, u) /\ k \notin ks
      /\ \A k \in Keys, u \in Uids : Names(persisted, k, u)' <=> Names(persisted, k, u)
  BY <1>2 DEF Names
<1>7. DoomInv'
  <2>1. \A k \in Keys, u \in Uids : Names(meta, k, u) => u <= uuids
    BY <1>0 DEF UidInv, Claim
  <2> QED
    BY <1>0, <1>3, <2>1 DEF FileInv, DoomInv
<1>8. ASSUME NEW k \in Keys PROVE EntryInv(k)'
  <2>1. \A u \in Uids : Names(meta, k, u) /\ k \notin ks => ~ Dooms(p, u)'
    BY <1>5 DEF Claim
  <2>2. \A q \in Procs : Putting(q, k) => Putting(q, k)'
    BY <1>3, <1>4
  <2>3. \A u \in Uids : Names(meta, k, u)' => meta'[k] = meta[k]
    BY <1>2, <1>6
  <2> QED
    BY <1>0, <1>2, <1>3, <1>6, <2>1, <2>2, <2>3 DEF FileInv, EntryInv
<1>9. ASSUME NEW k \in Keys PROVE DiskInv(k)'
  <2>1. SUFFICES ASSUME k \notin stale' \cup torn', \A q \in Procs : ~ Unsaved(q, k)'
                 PROVE  persisted[k] = meta'[k] \/ (meta'[k] = None /\ Leftover(k)')
    BY DEF DiskInv
  <2>2. persisted[k] = meta[k] \/ (meta[k] = None /\ Leftover(k))
    BY <1>0, <1>2, <1>3, <1>4, <2>1 DEF FileInv, DiskInv
  <2>3. Leftover(k) => Leftover(k)'
    BY <1>3, <1>4, <1>6 DEF Leftover
  <2>4. CASE k \notin ks
    BY <1>2, <2>2, <2>3, <2>4
  <2>5. CASE meta[k] = None
    BY <1>2, <2>2, <2>3, <2>5
  <2>6. CASE k \in ks /\ meta[k] # None
    <3>1. persisted[k] = meta[k] /\ meta'[k] = None /\ k \notin torn
      BY <1>2, <2>1, <2>2, <2>6
    <3>2. \A q \in Procs \ {p} : ~ Holds(q, k)
      BY <1>1, <2>1, <2>6
    <3>3. ASSUME NEW u \in Uids, Names(persisted, k, u)
          PROVE  files[u] = persisted[k].hash /\ \A q \in Procs : ~ Kills(q, u)'
      <4>1. Names(meta, k, u)
        BY <3>1, <3>3 DEF Names
      <4>2. \A q \in Procs : ~ Putting(q, k)
        BY <1>4, <3>2 DEF Putting, Holds, Storing
      <4>3. files[u] = meta[k].hash /\ \A q \in Procs : ~ Dooms(q, u)
        BY <1>0, <3>1, <4>1, <4>2 DEF FileInv, EntryInv
      <4>4. ASSUME NEW q \in Procs \ {p} PROVE ~ Kills(q, u)
        <5>1. job[q].uid = u /\ Key(q) \in Keys => Key(q) = k
          BY <4>1, <1>5 DEF Claim
        <5>2. pc[q] \in {"measure", "evictFiles", "write"} => Storing(q) /\ Key(q) \in Keys
          BY <1>0 DEF Storing, Shape
        <5>3. pc[q] \in {"measure", "evictFiles", "write"} => job[q].uid # u
          BY <3>2, <5>1, <5>2 DEF Holds
        <5>4. pc[q] = "removeFile" => job[q].then = "removeFile"
          BY <1>0 DEF Shape
        <5> QED
          BY <4>3, <5>3, <5>4 DEF Kills, Dooms
      <4> QED
        BY <3>1, <4>3, <4>4, <1>3, <1>4
    <3> QED
      BY <3>1, <3>3, <1>6 DEF Leftover
  <2> QED
    BY <2>4, <2>5, <2>6
<1>10. StoreInv(p)'
  <2>1. Storing(p)' => Key(p) \in Keys
    BY <1>0 DEF Shape
  <2>2. Storing(p)' => \A u \in Uids : meta'[Key(p)] # None /\ Names(meta, Key(p), u) => Names(meta, Key(p), u)'
    BY <1>2, <2>1 DEF Names
  <2>3. Storing(p)' /\ meta'[Key(p)] # None => meta[Key(p)] # None
    BY <1>2, <2>1
  <2> QED
    BY <1>0, <1>2, <1>3, <2>2, <2>3 DEF FileInv, StoreInv
<1>11. ASSUME NEW q \in Procs \ {p} PROVE StoreInv(q)' /\ ReadInv(q)' /\ SnapInv(q)'
  <2>1. Storing(q) => Key(q) \in Keys
    BY <1>0 DEF Shape, Storing
  <2>2. Storing(q) /\ Key(q) \notin torn' => Key(q) \notin ks
    BY <1>1 DEF Holds
  <2>3. Storing(q) /\ Key(q) \notin torn' => \A u \in Uids : job[q].uid = u => ~ Dooms(p, u)'
    <3>1. SUFFICES ASSUME Storing(q), Key(q) \notin torn', NEW u \in Uids, job[q].uid = u, Dooms(p, u)'
                   PROVE  FALSE
      OBVIOUS
    <3>2. PICK k \in ks : Names(meta, k, u)
      BY <3>1
    <3>3. Claim(Key(q), u)
      BY <3>1, <2>1 DEF Claim
    <3> QED
      BY <3>1, <3>2, <3>3, <2>1, <2>2, <1>5
  <2>4. StoreInv(q)'
    <3>1. Storing(q) /\ Key(q) \notin torn' =>
            meta'[Key(q)] = meta[Key(q)] /\ \A u \in Uids : Names(meta, Key(q), u)' <=> Names(meta, Key(q), u)
      BY <1>2, <1>3, <2>1, <2>2 DEF Names
    <3> QED
      BY <1>0, <1>2, <1>3, <2>3, <3>1 DEF FileInv, StoreInv
  <2>5. ReadInv(q)'
    BY <1>0, <1>2, <1>3 DEF FileInv, ReadInv
  <2>6. SnapInv(q)'
    BY <1>0, <1>1, <1>2, <1>3 DEF FileInv, SnapInv
  <2> QED
    BY <2>4, <2>5, <2>6
<1>12. ReadInv(p)' /\ SnapInv(p)'
  BY DEF ReadInv, SnapInv
<1> QED
  BY <1>7, <1>8, <1>9, <1>10, <1>11, <1>12 DEF FileInv

LEMMA ForgetFiles ==
  ASSUME S3Inv, NEW p \in Procs, Forget(p), meta[Key(p)] # None
  PROVE  FileInv'
<1>0. S3Type /\ pc[p] = "forget" /\ Shape(p) /\ Key(p) \in Keys /\ Fresh(p) /\ job[p] \in Jobs
  BY DEF S3Inv, Forget, Shape, Outside, S3Type, CallersType
<1>1. /\ Others(p) /\ UNCHANGED sharedVars /\ pc'[p] = "persist"
      /\ job'[p] = [job[p] EXCEPT !.uid = meta[Key(p)].uid, !.then = "removeFile"]
      /\ meta' = [meta EXCEPT ![Key(p)] = None] /\ Tears(p, {Key(p)}) /\ Outdates(p, {Key(p)})
  BY <1>0, ForgetEffect
<1>2. UNCHANGED <<files, persisted, uuids>>
  BY DEF Forget, diskVars
<1>3. job'[p].uid = meta[Key(p)].uid /\ job'[p].then = "removeFile" /\ job'[p].drop = << >> /\ Key(p)' = Key(p)
  BY <1>0, <1>1 DEF Jobs, Fresh, Key, sharedVars
<1>4. meta' = [k \in Keys |-> IF k \in {Key(p)} THEN None ELSE meta[k]]
  BY <1>0, <1>1 DEF S3Type, Metadata
<1>5. \A u \in Uids : Dooms(p, u)' => \E k \in {Key(p)} : Names(meta, k, u)
  BY <1>3 DEF Dooms, Names, ToSet
<1>6. ~ Storing(p)' /\ job'[p].then # "stored"
  BY <1>1, <1>3 DEF Storing
<1>7. {Key(p)} \in SUBSET Keys
  BY <1>0
<1> QED
  BY <1>0, <1>1, <1>2, <1>3, <1>4, <1>5, <1>6, <1>7, RemovedEntries

LEMMA EvictFiles ==
  ASSUME S3Inv, NEW p \in Procs, Evict(p)
  PROVE  FileInv'
<1>0. S3Type /\ LruInv /\ pc[p] = "evict" /\ job[p] \in Jobs
  BY DEF S3Inv, Evict, S3Type, CallersType
<1>1. Others(p) /\ UNCHANGED sharedVars /\ pc'[p] = "persist"
  BY <1>0, EvictEffect
<1>2. PICK n \in 0..Len(lru) :
        LET ks == {lru[i] : i \in 1..n}
            drop == [i \in 1..n |-> meta[lru[i]].uid]
        IN /\ meta' = [k \in Keys |-> IF k \in ks THEN None ELSE meta[k]]
           /\ drop \in Seq(Uids)
           /\ job'[p] = [job[p] EXCEPT !.drop = drop, !.then = "evictFiles"]
           /\ Tears(p, ks) /\ Outdates(p, ks)
  BY <1>0, EvictEffect
<1> DEFINE ks == {lru[i] : i \in 1..n}
           drop == [i \in 1..n |-> meta[lru[i]].uid]
<1>3. /\ meta' = [k \in Keys |-> IF k \in ks THEN None ELSE meta[k]]
      /\ Tears(p, ks) /\ Outdates(p, ks)
  BY <1>2
<1>4. \A i \in 1..n : lru[i] \in Keys /\ meta[lru[i]] # None
  BY <1>0 DEF LruInv
<1>5. ks \in SUBSET Keys
  BY <1>4
<1>6. \A u \in ToSet(drop) : \E k \in ks : Names(meta, k, u)
  BY <1>4 DEF ToSet, Names
<1>7. job'[p] = [job[p] EXCEPT !.drop = drop, !.then = "evictFiles"]
  BY <1>2
<1> HIDE DEF ks, drop
<1>8. job'[p].uid = job[p].uid /\ job'[p].then = "evictFiles" /\ job'[p].drop = drop /\ Key(p)' = Key(p)
  BY <1>0, <1>1, <1>7 DEF Jobs, Key, sharedVars
<1>9. \A u \in Uids : Dooms(p, u)' => \E k \in ks : Names(meta, k, u)
  BY <1>6, <1>8 DEF Dooms
<1>10. UNCHANGED <<files, persisted, uuids>> /\ Storing(p)
  BY <1>0 DEF Evict, diskVars, Storing
<1> QED
  BY <1>0, <1>1, <1>3, <1>5, <1>8, <1>9, <1>10, RemovedEntries

\* put: the entry names the file that the caller has written.
LEMMA PutFiles ==
  ASSUME S3Inv, NEW p \in Procs, Put(p)
  PROVE  FileInv'
<1>0. /\ S3Type /\ FileInv /\ UidInv /\ pc[p] = "put" /\ Shape(p) /\ Key(p) \in Keys /\ job[p] \in Jobs
      /\ Storing(p)
  BY DEF S3Inv, Put, Shape, S3Type, CallersType, Storing
<1>1. PICK w \in Uids : job[p].uid = w
  BY <1>0 DEF Shape
<1>2. job[p].drop = << >> /\ job[p].then \notin {"stored", "removeFile"} /\ job[p].data \in Versions
  BY <1>0 DEF Shape, HasData, Jobs
<1>3. /\ Others(p) /\ UNCHANGED call /\ pc'[p] = "persist" /\ job'[p] = [job[p] EXCEPT !.then = "stored"]
      /\ UNCHANGED <<files, persisted, uuids>> /\ Tears(p, {Key(p)}) /\ Outdates(p, {Key(p)})
  BY <1>0, PutEffect DEF Put, diskVars
<1>4. job'[p].uid = w /\ job'[p].drop = << >> /\ job'[p].then = "stored" /\ Key(p)' = Key(p)
  BY <1>0, <1>1, <1>2, <1>3 DEF Jobs, Key
<1>5. /\ torn' = torn \cup {k \in {Key(p)} : \E q \in Procs \ {p} : Holds(q, k)}
      /\ stale' = IF \E q \in Procs \ {p} : pc[q] = "rename" THEN stale \cup {Key(p)} ELSE stale
  BY <1>3 DEF Tears, Outdates
<1>6. /\ \A k \in Keys \ {Key(p)} : meta'[k] = meta[k]
      /\ meta'[Key(p)].hash = job[p].data
      /\ meta'[Key(p)].uid = IF meta[Key(p)] = None THEN job[p].uid ELSE meta[Key(p)].uid
  BY <1>0 DEF Put, S3Type, Metadata
<1>7. torn \subseteq torn' /\ stale \subseteq stale'
  BY <1>5
<1>8. \A q \in Procs \ {p} :
        /\ Key(q)' = Key(q) /\ (Storing(q)' <=> Storing(q))
        /\ pc'[q] = pc[q] /\ job'[q] = job[q] /\ call'[q] = call[q]
        /\ \A u \in Uids : (Dooms(q, u)' <=> Dooms(q, u)) /\ (Kills(q, u)' <=> Kills(q, u))
        /\ \A k \in Keys : /\ Unsaved(q, k)' <=> Unsaved(q, k)
                           /\ Putting(q, k)' <=> Putting(q, k)
  BY <1>3, Alike DEF Others, Same
<1>9. /\ \A u \in Uids : ~ Dooms(p, u)' /\ ~ Kills(p, u)'
      /\ \A k \in Keys : ~ Unsaved(p, k)
      /\ Unsaved(p, Key(p))'
  BY <1>2, <1>3, <1>4 DEF Dooms, Kills, Unsaved, ToSet
<1>10. Key(p) \notin torn => /\ meta'[Key(p)].uid = w /\ files[w] = job[p].data
                             /\ \A q \in Procs \ {p} : ~ Dooms(q, w)
  BY <1>0, <1>1, <1>6 DEF FileInv, StoreInv, Names
<1>11. \A k \in Keys \ {Key(p)}, u \in Uids : Names(meta, k, u)' <=> Names(meta, k, u)
  BY <1>6 DEF Names
<1>12. DoomInv'
  BY <1>0, <1>3, <1>8, <1>9 DEF FileInv, DoomInv
<1>13. ASSUME NEW k \in Keys PROVE EntryInv(k)'
  <2>1. CASE k = Key(p)
    <3>1. SUFFICES ASSUME k \notin torn', NEW u \in Uids, Names(meta, k, u)'
                   PROVE  (\A q \in Procs : ~ Dooms(q, u)') /\ files'[u] = meta'[k].hash
      BY DEF EntryInv
    <3>2. u = w
      BY <3>1, <2>1, <1>7, <1>10 DEF Names
    <3> QED
      BY <3>1, <3>2, <2>1, <1>3, <1>6, <1>7, <1>8, <1>9, <1>10
  <2>2. CASE k # Key(p)
    <3>1. \A q \in Procs : Putting(q, k) => Putting(q, k)'
      BY <1>8, <2>2 DEF Putting
    <3> QED
      BY <1>0, <1>3, <1>6, <1>7, <1>8, <1>9, <1>11, <2>2, <3>1 DEF FileInv, EntryInv
  <2> QED
    BY <2>1, <2>2
<1>14. ASSUME NEW k \in Keys PROVE DiskInv(k)'
  <2>1. CASE k = Key(p)
    <3>1. Unsaved(p, k)'
      BY <1>4, <2>1 DEF Unsaved
    <3> QED
      BY <3>1 DEF DiskInv
  <2>2. CASE k # Key(p)
    <3>1. Leftover(k) => Leftover(k)'
      BY <1>3, <1>8, <1>9 DEF Leftover, Names
    <3>2. \A q \in Procs : Unsaved(q, k) => Unsaved(q, k)'
      BY <1>8, <1>9
    <3> QED
      BY <1>0, <1>3, <1>6, <1>7, <2>2, <3>1, <3>2 DEF FileInv, DiskInv
  <2> QED
    BY <2>1, <2>2
<1>15. StoreInv(p)'
  <2>1. Key(p) \notin torn /\ meta'[Key(p)] # None => Names(meta, Key(p), w)'
    BY <1>4, <1>10 DEF Names
  <2> QED
    BY <1>3, <1>4, <1>7, <1>8, <1>10, <2>1 DEF StoreInv
<1>16. ASSUME NEW q \in Procs \ {p} PROVE StoreInv(q)' /\ ReadInv(q)' /\ SnapInv(q)'
  <2>1. Storing(q) /\ Key(q) \notin torn' => Key(q) \in Keys \ {Key(p)}
    <3>1. Storing(q) => Key(q) \in Keys
      BY DEF S3Inv, Shape, Storing
    <3> QED
      BY <3>1, <1>5 DEF Holds
  <2>2. StoreInv(q)'
    <3>1. Storing(q) /\ Key(q) \notin torn' =>
            meta'[Key(q)] = meta[Key(q)] /\ \A u \in Uids : Names(meta, Key(q), u)' <=> Names(meta, Key(q), u)
      BY <1>6, <1>8, <2>1 DEF Names
    <3> QED
      BY <1>0, <1>3, <1>7, <1>8, <1>9, <3>1 DEF FileInv, StoreInv
  <2>3. ReadInv(q)'
    BY <1>0, <1>3, <1>7, <1>8 DEF FileInv, ReadInv
  <2>4. SnapInv(q)'
    BY <1>0, <1>5, <1>6, <1>8 DEF FileInv, SnapInv
  <2> QED
    BY <2>2, <2>3, <2>4
<1>17. ReadInv(p)' /\ SnapInv(p)'
  BY <1>3 DEF ReadInv, SnapInv
<1> QED
  BY <1>12, <1>13, <1>14, <1>15, <1>16, <1>17 DEF FileInv

\* After a crash the entries of the file have their data, but for stale keys
\* and those that were in use.
LEMMA CrashFiles ==
  ASSUME S3Inv, Crash
  PROVE  FileInv'
<1>0. S3Type /\ FileInv /\ \A q \in Procs : Shape(q)
  BY DEF S3Inv
<1>1. /\ torn' = torn \cup stale \cup {k \in Keys : \E q \in Procs : Holds(q, k)}
      /\ meta' = persisted /\ UNCHANGED <<persisted, files, uuids>>
  BY DEF Crash, diskVars
<1>2. \A q \in Procs : Ended(q)
  BY DEF Crash, OS!Crash, Ended, NoCall
<1>3. \A q \in Procs : Outside(q)' /\ Fresh(q)' /\ pc'[q] = "idle"
  BY <1>2, EndedFacts DEF Ended
<1>4. \A q \in Procs, u \in Uids : ~ Dooms(q, u)'
  BY <1>3, FreshDooms
<1>5. ASSUME NEW k \in Keys PROVE EntryInv(k)'
  <2>1. SUFFICES ASSUME k \notin torn', NEW u \in Uids, Names(persisted, k, u)
                 PROVE  files[u] = persisted[k].hash
    BY <1>1, <1>4 DEF EntryInv, Names
  <2>2. k \notin torn \cup stale /\ \A q \in Procs : ~ Holds(q, k)
    BY <1>1, <2>1
  <2>3. \A q \in Procs : ~ Unsaved(q, k) /\ ~ Putting(q, k)
    BY <1>0, <2>2 DEF Unsaved, Putting, Holds, Storing, Shape
  <2>4. persisted[k] = meta[k] \/ Leftover(k)
    BY <1>0, <2>2, <2>3 DEF FileInv, DiskInv
  <2>5. CASE persisted[k] = meta[k]
    BY <1>0, <2>1, <2>2, <2>3, <2>5 DEF FileInv, EntryInv, Names
  <2>6. CASE Leftover(k)
    BY <2>1, <2>6 DEF Leftover
  <2> QED
    BY <2>4, <2>5, <2>6
<1>6. \A k \in Keys : DiskInv(k)'
  BY <1>1 DEF DiskInv
<1>7. \A q \in Procs : StoreInv(q)' /\ ReadInv(q)' /\ SnapInv(q)'
  BY <1>3 DEF StoreInv, Storing, ReadInv, SnapInv
<1> QED
  BY <1>4, <1>5, <1>6, <1>7 DEF FileInv, DoomInv

LEMMA FileStep ==
  ASSUME S3Inv, [Next]_vars
  PROVE  FileInv'
<1>0. S3Type /\ LruInv /\ \A q \in Procs : Shape(q)
  BY DEF S3Inv
<1>1. ASSUME NEW p \in Procs, Step(p)
      PROVE  FileInv'
  <2>1. CASE ReadCached(p)
    BY <1>0, <2>1, ReadCachedEffect, ReadCachedFiles, OutsideFiles
  <2>2. CASE Forget(p)
    BY <2>2, EndingFiles, ForgetFiles
  <2>3. CASE Persist(p) \/ Rename(p) \/ Store(p) \/ Evict(p) \/ EvictFile(p) \/ WriteFile(p) \/ Put(p) \/ RemoveFile(p)
    BY <2>3, PersistFiles, RenameFiles, StoreFiles, EvictFiles, EvictFileFiles, WriteFileFiles, PutFiles,
       RemoveFileFiles
  <2>6. CASE MeasureRoom(p)
    BY <2>6, MeasureFiles
  <2>4. CASE \/ ReadFile(p) \/ FetchFails(p) \/ RemoteFails(p) \/ RenameFails(p) \/ StoreSkipped(p) \/ WriteFails(p)
    BY <2>4, EndingFiles
  <2>5. CASE \/ \E op \in {"get", "put", "remove"}, k \in Keys, want \in Versions \cup {None} : Call(p, op, k, want)
             \/ Flight(p) \/ Fetch(p) \/ Upload(p) \/ Delete(p)
    BY <2>5, OutsideFiles
  <2> QED
    BY <1>1, <2>1, <2>2, <2>3, <2>4, <2>5, <2>6 DEF Step
<1>2. CASE UNCHANGED vars
  <2>1. \A q \in Procs : Same(q)
    BY <1>2 DEF vars, sharedVars, Same
  <2>2. UNCHANGED <<meta, files, persisted, uuids, torn, stale>>
    BY <1>2 DEF vars, diskVars
  <2> QED
    BY <1>0, <2>1, <2>2, QuietFiles DEF S3Inv
<1> QED
  BY <1>1, <1>2, CrashFiles DEF Next

-----------------------------------------------------------------------------
(***************************************************************************)
(* The invariant.                                                          *)
(***************************************************************************)
LEMMA S3InvInit == Init => S3Inv
<1> SUFFICES ASSUME Init PROVE S3Inv
  OBVIOUS
<1> USE S3CacheAssumption
<1>1. PICK w \in Warm :
        /\ meta = [k \in Keys |-> IF k = w THEN [uid |-> 1, hash |-> remote[k]] ELSE None]
        /\ lru = IF w = None THEN << >> ELSE <<w>>
        /\ files = [u \in Uids |-> IF u = 1 /\ w # None THEN remote[w] ELSE None]
        /\ uuids = IF w = None THEN 0 ELSE 1
  BY DEF Init
<1>2. /\ remote \in Buckets /\ remote \in [Keys -> Versions \cup {None}]
      /\ written = [k \in Keys |-> {remote[k]} \ {None}] /\ live = [p \in Procs |-> {}] /\ torn = {} /\ stale = {}
      /\ persisted = meta
  BY DEF Init, OS!Init
<1>3. \A q \in Procs : pc[q] = "idle" /\ job[q] = NoJob /\ call[q] = NoCall
  BY DEF Init, OS!Init, NoCall
<1>4. w # None => w \in Keys /\ remote[w] \in Versions
  BY <1>2
<1>5. 1 \in Uids
  BY DEF Uids
<1>6. S3Type
  <2>1. pc \in [Procs -> Places] /\ job \in [Procs -> Jobs] /\ call \in [Procs -> Calls]
    BY NoJobType DEF Init, OS!Init, NoCall, Places
  <2>2. meta \in Metadata
    BY <1>1, <1>4, <1>5 DEF Metadata, Entries
  <2>3. files \in [Uids -> Versions \cup {None}] /\ uuids \in Nat
    BY <1>1, <1>4
  <2>4. written \in [Keys -> SUBSET Versions] /\ live \in [Procs -> SUBSET Versions]
    BY <1>2
  <2> QED
    BY <1>2, <2>1, <2>2, <2>3, <2>4 DEF S3Type, CallersType
<1>7. LruInv
  <2>1. CASE w = None
    BY <1>1, <2>1 DEF LruInv, NoDuplicates
  <2>2. CASE w # None
    <3>1. lru = <<w>> /\ meta[w] = [uid |-> 1, hash |-> remote[w]]
      BY <1>1, <1>4, <2>2
    <3>2. meta[w] \in Entries
      BY <3>1, <1>4, <1>5, <2>2 DEF Entries
    <3>3. meta[w] # None
      BY <3>2
    <3>4. DOMAIN lru = {1} /\ lru[1] = w /\ lru \in Seq(Keys)
      BY <3>1, <1>4, <2>2
    <3> QED
      BY <3>3, <3>4 DEF LruInv, NoDuplicates
  <2> QED
    BY <2>1, <2>2
<1>8. \A q \in Procs : Outside(q) /\ Fresh(q) /\ ~ Storing(q)
  BY <1>3 DEF Outside, Fresh, NoJob, Storing
<1>9. \A q \in Procs : Shape(q)
  BY <1>3, <1>8 DEF Shape, HasData, Fresh
<1>10. VersionInv
  <2>1. \A q \in Procs : Wants(q) /\ Brings(q)
    BY <1>3, <1>8 DEF Wants, Brings, HasData, NoCall, OS!NoCall
  <2> QED
    BY <1>2, <2>1 DEF VersionInv
<1>11. \A q \in Procs, k \in Keys, u \in Uids : ~ Names(job[q].snap, k, u) /\ job[q].uid # u
  BY <1>3 DEF NoJob, Names, Uids
<1>12. \A k \in Keys, u \in Uids : Names(meta, k, u) => k = w /\ u = 1 /\ w # None /\ meta[k].hash = remote[w]
  BY <1>1 DEF Names
<1>13. \A k \in Keys, u \in Uids : Claim(k, u) => Names(meta, k, u)
  BY <1>2, <1>11 DEF Claim
<1>14. UidInv
  <2>1. \A k \in Keys, u \in Uids : Claim(k, u) => u <= uuids
    BY <1>1, <1>12, <1>13
  <2>2. \A k \in Keys, u \in Uids : Claim(k, u) => files[u] \in written[k]
    BY <1>1, <1>2, <1>4, <1>12, <1>13
  <2>3. \A u \in Uids : u > uuids => files[u] = None
    BY <1>1 DEF Uids
  <2> QED
    BY <1>12, <1>13, <2>1, <2>2, <2>3 DEF UidInv
<1>15. FileInv
  <2>1. \A q \in Procs, u \in Uids : ~ Dooms(q, u)
    BY <1>8 DEF Fresh, Dooms, ToSet
  <2>2. \A k \in Keys : EntryInv(k)
    BY <1>1, <1>5, <1>12, <2>1 DEF EntryInv
  <2>3. \A k \in Keys : DiskInv(k)
    BY <1>2 DEF DiskInv
  <2>4. \A q \in Procs : StoreInv(q) /\ ReadInv(q) /\ SnapInv(q)
    BY <1>3, <1>8 DEF StoreInv, ReadInv, SnapInv
  <2> QED
    BY <2>1, <2>2, <2>3, <2>4 DEF FileInv, DoomInv
<1> QED
  BY <1>6, <1>7, <1>9, <1>10, <1>14, <1>15 DEF S3Inv

LEMMA S3InvNext ==
  ASSUME S3Inv, [Next]_vars
  PROVE  S3Inv'
<1>0. S3Type /\ LruInv /\ (\A q \in Procs : Shape(q)) /\ VersionInv /\ UidInv
  BY DEF S3Inv
<1>1. S3Type' /\ LruInv' /\ (\A q \in Procs : Shape(q)') /\ VersionInv'
  BY <1>0, TypeStep, LruStep, ShapeStep, VersionStep
<1>2. UidInv' /\ FileInv'
  BY <1>0, UidStep, FileStep
<1> QED
  BY <1>1, <1>2 DEF S3Inv

LEMMA S3Invariant == Spec => []S3Inv
<1>1. Init => S3Inv
  BY S3InvInit
<1>2. S3Inv /\ [Next]_vars => S3Inv'
  BY S3InvNext
<1> QED
  BY <1>1, <1>2, PTL DEF Spec

(***************************************************************************)
(* EntriesNameFiles: for every set of keys, versions and callers, an entry *)
(* that is not torn and that nobody is using names a file with the content *)
(* its hash promises, across evictions, removals, crashes and restarts:    *)
(* what the order of metadata and files in Remove, reclaimSpace and store  *)
(* is for.                                                                 *)
(***************************************************************************)
THEOREM EntriesNameFiles == Spec => []EntriesAreFiles
<1>1. S3Inv => EntriesAreFiles
  <2>1. SUFFICES ASSUME S3Inv, NEW k \in Tracked \ torn, \A q \in Procs : ~ Holds(q, k)
                 PROVE  files[meta[k].uid] = meta[k].hash
    BY DEF EntriesAreFiles
  <2>2. k \in Keys /\ meta[k] \in Entries
    BY <2>1 DEF Tracked, S3Inv, S3Type, Metadata
  <2>3. meta[k].uid \in Uids /\ meta[k] # None
    BY <2>1, <2>2 DEF Entries, Tracked
  <2>4. \A q \in Procs : ~ Putting(q, k)
    BY <2>1 DEF Putting, Holds, Storing
  <2> QED
    BY <2>1, <2>2, <2>3, <2>4 DEF S3Inv, FileInv, EntryInv, Names
<1> QED
  BY <1>1, S3Invariant, PTL

-----------------------------------------------------------------------------
(***************************************************************************)
(* The refinement.  The bucket, the calls and the answers are those of     *)
(* ObjectStore; every end of calls is a Return with a sound answer.        *)
(***************************************************************************)
LEMMA Returned ==
  ASSUME S3Inv, NEW ps \in SUBSET Procs, ps # {}, NEW a, Finish(ps, a), torn \subseteq torn',
         \A q \in ps : pc[q] # "idle" /\ (a = OS!Error \/ a \in OS!Sound(q))
  PROVE  OS!Next
<1>1. \A q \in ps : call[q] # OS!NoCall
  BY S3CacheAssumption DEF S3Inv, Shape, Key, OS!NoCall
<1>2. /\ answer' = [p \in Procs |-> IF p \in ps THEN a ELSE answer[p]]
      /\ call' = [p \in Procs |-> IF p \in ps THEN OS!NoCall ELSE call[p]]
      /\ live' = [p \in Procs |-> IF p \in ps THEN {} ELSE live[p]]
      /\ UNCHANGED <<remote, written>>
  BY DEF Finish, NoCall
<1>3. /\ \A p \in ps : answer'[p] \in OS!Sound(p) \cup {OS!Error}
      /\ \A p \in Procs \ ps : answer'[p] = answer[p]
      /\ answer' = [p \in Procs |-> answer'[p]]
  BY <1>2
<1>4. OS!Return(ps)
  BY <1>1, <1>2, <1>3 DEF OS!Return
<1> QED
  BY <1>4 DEF OS!Next

\* The answer of a call that stored or tried to.
LEMMA StoreEndsSound ==
  ASSUME S3Inv, NEW p \in Procs, StoreEnds(p), HasData(p), torn \subseteq torn'
  PROVE  OS!Next
<1>0. Shape(p) /\ Brings(p) /\ \A q \in Procs : Shape(q)
  BY DEF S3Inv, VersionInv
<1>1. pc[p] # "idle" /\ call[p].op \in {"get", "put"}
  BY <1>0 DEF HasData, Storing, Shape
<1>2. Flock(p) \in SUBSET Procs /\ p \in Flock(p) /\ \A q \in Flock(p) : pc[q] # "idle"
  BY <1>1 DEF Flock
<1>3. CASE call[p].op = "get"
  <2>1. Finish(Flock(p), OS!Got(job[p].data, job[p].data))
    BY <1>3 DEF StoreEnds
  <2>2. ASSUME NEW q \in Flock(p) PROVE OS!Got(job[p].data, job[p].data) \in OS!Sound(q)
    <3>1. q \in Procs /\ OS!Getting(q, Key(p))
      BY <1>0, <1>3 DEF Flock, OS!Getting, Key, Shape
    <3>2. job[p].data \in live[q]
      BY <1>0, <1>3, <3>1 DEF Brings
    <3> QED
      BY <3>1, <3>2 DEF OS!Sound, OS!Getting
  <2> QED
    BY <1>2, <2>1, <2>2, Returned
<1>4. CASE call[p].op = "put"
  <2>1. Finish(Flock(p), OS!Done(job[p].data)) /\ Flock(p) = {p}
    BY <1>4 DEF StoreEnds, Flock
  <2>2. job[p].data = call[p].want
    BY <1>0, <1>4 DEF Brings
  <2>3. OS!Done(job[p].data) \in OS!Sound(p)
    BY <1>4, <2>2 DEF OS!Sound
  <2> QED
    BY <1>2, <2>1, <2>3, Returned
<1> QED
  BY <1>1, <1>3, <1>4

LEMMA ReadFileSound ==
  ASSUME S3Inv, NEW p \in Procs, ReadFile(p)
  PROVE  OS!Next
<1>0. /\ Shape(p) /\ pc[p] = "readFile" /\ Key(p) \in Keys /\ call[p].op = "get" /\ job[p].uid \in Uids
      /\ UNCHANGED torn
  BY DEF S3Inv, ReadFile, Shape
<1>1. PICK u \in Uids : job[p].uid = u
  BY <1>0
<1> DEFINE a == IF files[u] = None THEN OS!Error ELSE OS!Got(files[u], call[p].want)
<1>2. Finish({p}, a)
  BY <1>1 DEF ReadFile
<1>3. CASE files[u] # None
  <2>1. files[u] \in written[Key(p)]
    BY <1>0, <1>1, <1>3 DEF S3Inv, UidInv, Claim
  <2>2. Key(p) \notin torn => files[u] = call[p].want
    BY <1>0, <1>1, <1>3 DEF S3Inv, FileInv, ReadInv
  <2>3. OS!Got(files[u], call[p].want) \in OS!Sound(p)
    <3>1. OS!Sound(p) = {OS!Got(v, v) : v \in live[p] \cup (written[Key(p)] \cap {call[p].want})}
                        \cup (IF Key(p) \in torn THEN {OS!Got(v, call[p].want) : v \in written[Key(p)]} ELSE {})
      BY <1>0 DEF OS!Sound, Key
    <3>2. CASE Key(p) \in torn
      BY <2>1, <3>1, <3>2
    <3>3. CASE Key(p) \notin torn
      BY <2>1, <2>2, <3>1, <3>3
    <3> QED
      BY <3>2, <3>3
  <2> QED
    BY <1>0, <1>2, <1>3, <2>3, Returned
<1>4. CASE files[u] = None
  BY <1>0, <1>2, <1>4, Returned
<1> QED
  BY <1>3, <1>4

LEMMA StoreStep ==
  ASSUME S3Inv, [Next]_vars
  PROVE  [OS!Next]_(OS!storeVars)
<1>0. S3Type /\ \A q \in Procs : Shape(q)
  BY DEF S3Inv
<1>1. ASSUME NEW p \in Procs, NEW op \in {"get", "put", "remove"}, NEW k \in Keys,
             NEW want \in Versions \cup {None}, Call(p, op, k, want)
      PROVE  OS!Next
  BY <1>1 DEF Call, OS!Next
<1>2. ASSUME NEW p \in Procs, Upload(p) \/ Delete(p) PROVE OS!Next
  BY <1>2 DEF Upload, Delete, OS!Next
<1>3. ASSUME NEW p \in Procs,
             \/ ReadCached(p) \/ Flight(p) \/ Fetch(p) \/ Persist(p) \/ Store(p) \/ MeasureRoom(p) \/ Evict(p)
             \/ WriteFile(p) \/ Put(p)
      PROVE  OS!Next
  <2>1. UNCHANGED sharedVars /\ torn \subseteq torn'
    BY <1>3 DEF ReadCached, Flight, Fetch, Persist, Store, MeasureRoom, Evict, WriteFile, Put, Tears
  <2> QED
    BY <2>1 DEF sharedVars, OS!Next, OS!Quiet
<1>4. ASSUME NEW p \in Procs, FetchFails(p) \/ RemoteFails(p) PROVE OS!Next
  <2>1. \E ps \in {{p}, Flock(p)} : Finish(ps, OS!Error)
    BY <1>4 DEF FetchFails, RemoteFails
  <2>2. UNCHANGED torn /\ pc[p] # "idle"
    BY <1>4 DEF FetchFails, RemoteFails
  <2>3. Flock(p) \in SUBSET Procs /\ p \in Flock(p) /\ \A q \in Flock(p) : pc[q] # "idle"
    BY <2>2 DEF Flock
  <2> QED
    BY <2>1, <2>2, <2>3, Returned
<1>5. ASSUME NEW p \in Procs, StoreSkipped(p) \/ WriteFails(p) PROVE OS!Next
  <2>1. StoreEnds(p) /\ HasData(p) /\ UNCHANGED torn
    BY <1>5 DEF StoreSkipped, WriteFails, HasData, Storing
  <2> QED
    BY <2>1, StoreEndsSound
<1>6. ASSUME NEW p \in Procs, EvictFile(p) PROVE OS!Next
  <2>1. CASE StoreEnds(p)
    <3>1. HasData(p) /\ UNCHANGED torn
      BY <1>6 DEF EvictFile, HasData, Storing
    <3> QED
      BY <2>1, <3>1, StoreEndsSound
  <2>2. CASE ~ StoreEnds(p)
    BY <1>6, <2>2 DEF EvictFile, sharedVars, OS!Next, OS!Quiet
  <2> QED
    BY <2>1, <2>2
<1>7. ASSUME NEW p \in Procs, Rename(p) \/ RenameFails(p) PROVE OS!Next
  <2>1. pc[p] = "rename" /\ UNCHANGED torn
    BY <1>7 DEF Rename, RenameFails
  <2>2. CASE StoreEnds(p) /\ job[p].then # "removeFile"
    <3>1. HasData(p)
      BY <2>1, <2>2 DEF HasData, Storing
    <3> QED
      BY <2>1, <2>2, <3>1, StoreEndsSound
  <2>3. CASE UNCHANGED sharedVars
    BY <2>1, <2>3 DEF sharedVars, OS!Next, OS!Quiet
  <2>4. CASE Finish({p}, OS!Error)
    BY <2>1, <2>4, Returned
  <2> QED
    BY <1>7, <2>2, <2>3, <2>4 DEF Rename, RenameFails
<1>8. ASSUME NEW p \in Procs, Forget(p) \/ RemoveFile(p) PROVE OS!Next
  <2>1. pc[p] # "idle" /\ call[p].op = "remove" /\ torn \subseteq torn'
    BY <1>0, <1>8 DEF Forget, RemoveFile, Tears, Shape
  <2>2. CASE Finish({p}, OS!Done(None))
    <3>1. OS!Done(None) \in OS!Sound(p)
      BY <2>1 DEF OS!Sound
    <3> QED
      BY <2>1, <2>2, <3>1, Returned
  <2>3. CASE UNCHANGED sharedVars
    BY <2>1, <2>3 DEF sharedVars, OS!Next, OS!Quiet
  <2> QED
    BY <1>8, <2>2, <2>3 DEF Forget, RemoveFile
<1>9. CASE Crash
  <2>1. torn \subseteq torn'
    BY <1>9 DEF Crash
  <2> QED
    BY <1>9, <2>1 DEF Crash, OS!Next
<1>10. CASE UNCHANGED vars
  BY <1>10 DEF vars, sharedVars, OS!storeVars
<1> QED
  BY <1>1, <1>2, <1>3, <1>4, <1>5, <1>6, <1>7, <1>8, <1>9, <1>10, ReadFileSound DEF Next, Step

(***************************************************************************)
(* CacheImplements: the cache in front of the bucket implements the object *)
(* store, for every set of keys, versions and callers: whatever            *)
(* interleaving of Get, Put and Remove, evictions, failures and crashes, a *)
(* call is answered as the store without a cache could answer it, but for  *)
(* the content of torn keys.                                               *)
(***************************************************************************)
THEOREM CacheImplements == Spec => ImplementsObjectStore
<1>1. Init => OS!Init
  BY DEF Init
<1>2. S3Inv /\ [Next]_vars => [OS!Next]_(OS!storeVars)
  BY StoreStep
<1> QED
  BY <1>1, <1>2, S3Invariant, PTL DEF Spec, ImplementsObjectStore, OS!Spec

-----------------------------------------------------------------------------
(***************************************************************************)
(* Sums.  SumFunction adds the values of a function in the order in which  *)
(* CHOOSE takes the elements of its domain, by a function on the subsets   *)
(* of the domain.  That function exists when the domain is finite, and     *)
(* what holds of the sums follows by taking a least counterexample.        *)
(***************************************************************************)
Chosen(s) == CHOOSE x \in s : TRUE
Sums(f, D, h) == h = [s \in SUBSET D |-> IF s = {} THEN 0 ELSE f[Chosen(s)] + h[s \ {Chosen(s)}]]
SumFn(f) == CHOOSE h : Sums(f, DOMAIN f, h)

LEMMA SumUnfold ==
  ASSUME NEW f PROVE SumFunction(f) = SumFn(f)[DOMAIN f]
BY DEF SumFunction, SumFunctionOnSet, FoldFunctionOnSet, MapThenFoldSet, SumFn, Sums, Chosen

\* Induction: a set of counterexamples has a least element.
LEMMA LeastNat ==
  ASSUME NEW T \in SUBSET Nat, T # {} PROVE \E n \in T : \A m \in T : n <= m
<1>1. IsWellFoundedOn(OpToRel(<, Nat), Nat)
  BY NatLessThanWellFounded
<1>2. PICK n \in T : \A m \in T : ~ (<<m, n>> \in OpToRel(<, Nat))
  BY <1>1, WFMin
<1>3. \A m \in T : ~ (m < n)
  BY <1>2 DEF OpToRel
<1> QED
  BY <1>3

Unfolds(f, h, s) == h[s] = IF s = {} THEN 0 ELSE f[Chosen(s)] + h[s \ {Chosen(s)}]

LEMMA ChosenIn == ASSUME NEW s, s # {} PROVE Chosen(s) \in s
BY DEF Chosen

\* By induction on the size of the sets: one step of the recursion from the
\* function for smaller sets.
LEMMA SumExists ==
  ASSUME NEW D, IsFiniteSet(D), NEW f, NEW n \in Nat
  PROVE  \E h : \A s \in SUBSET D : Cardinality(s) <= n => Unfolds(f, h, s)
<1> DEFINE Upto(m, h) == \A s \in SUBSET D : Cardinality(s) <= m => Unfolds(f, h, s)
           Bad == {m \in Nat : ~ \E h : Upto(m, h)}
<1>1. \A s \in SUBSET D : IsFiniteSet(s) /\ Cardinality(s) \in Nat
  BY FS_Subset, FS_CardinalityType
<1>2. SUFFICES ASSUME Bad # {} PROVE FALSE
  OBVIOUS
<1>3. PICK m \in Bad : \A i \in Bad : m <= i
  BY <1>2, LeastNat
<1>4. \A s \in SUBSET D : Cardinality(s) = 0 <=> s = {}
  BY <1>1, FS_EmptySet
<1>5. m # 0
  <2> DEFINE z == [s \in SUBSET D |-> 0]
  <2>1. \A s \in SUBSET D : Cardinality(s) <= 0 => Unfolds(f, z, s)
    BY <1>1, <1>4 DEF Unfolds
  <2> QED
    BY <2>1
<1>6. m - 1 \in Nat /\ m - 1 \notin Bad
  BY <1>3, <1>5
<1>7. PICK g : Upto(m - 1, g)
  BY <1>6
<1> DEFINE h == [s \in SUBSET D |-> IF s = {} THEN 0 ELSE f[Chosen(s)] + g[s \ {Chosen(s)}]]
<1>8. ASSUME NEW s \in SUBSET D, Cardinality(s) <= m PROVE Unfolds(f, h, s)
  <2>1. CASE s = {}
    BY <2>1 DEF Unfolds
  <2>2. CASE s # {}
    <3> DEFINE r == s \ {Chosen(s)}
    <3>1. Chosen(s) \in s
      BY <2>2, ChosenIn
    <3>2. r \in SUBSET D /\ Cardinality(r) = Cardinality(s) - 1
      BY <3>1, <1>1, FS_RemoveElement
    <3>3. Cardinality(r) <= m - 1
      BY <3>2, <1>8, <1>1
    <3>4. Unfolds(f, g, r)
      BY <3>2, <3>3, <1>7
    <3>5. h[r] = g[r]
      BY <3>2, <3>4 DEF Unfolds
    <3>6. h[s] = f[Chosen(s)] + g[r]
      BY <2>2
    <3> HIDE DEF h
    <3> QED
      BY <3>5, <3>6, <2>2 DEF Unfolds
  <2> QED
    BY <2>1, <2>2
<1> QED
  BY <1>3, <1>8

LEMMA SumDefined ==
  ASSUME NEW D, IsFiniteSet(D), NEW f, DOMAIN f = D
  PROVE  /\ \A s \in SUBSET D : Unfolds(f, SumFn(f), s)
         /\ SumFunction(f) = SumFn(f)[D]
<1>1. Cardinality(D) \in Nat /\ \A s \in SUBSET D : Cardinality(s) <= Cardinality(D)
  BY FS_CardinalityType, FS_Subset
<1>2. PICK g : \A s \in SUBSET D : Cardinality(s) <= Cardinality(D) => Unfolds(f, g, s)
  BY <1>1, SumExists
<1>3. \A s \in SUBSET D : Unfolds(f, g, s)
  BY <1>1, <1>2
<1> DEFINE h == [s \in SUBSET D |-> g[s]]
<1>4. \A s \in SUBSET D : h[s] = IF s = {} THEN 0 ELSE f[Chosen(s)] + h[s \ {Chosen(s)}]
  BY <1>3 DEF Unfolds
<1>5. Sums(f, D, h)
  BY <1>4 DEF Sums
<1>6. Sums(f, D, SumFn(f))
  BY <1>5 DEF SumFn
<1>7. \A s \in SUBSET D : Unfolds(f, SumFn(f), s)
  BY <1>6 DEF Sums, Unfolds
<1> QED
  BY <1>7, SumUnfold

\* A least set: what the recursion passes on is no counterexample.
LEMMA LeastSet ==
  ASSUME NEW D, IsFiniteSet(D), NEW T \in SUBSET (SUBSET D), T # {}
  PROVE  \E s \in T : s # {} => s \ {Chosen(s)} \in (SUBSET D) \ T
<1>1. IsWellFoundedOn(StrictSubsetOrdering(D), SUBSET D)
  BY FS_StrictSubsetOrderingWellFounded, FS_FiniteSubsetsOfFinite
<1>2. PICK s \in T : \A t \in T : ~ (<<t, s>> \in StrictSubsetOrdering(D))
  BY <1>1, WFMin
<1>3. ASSUME s # {} PROVE s \ {Chosen(s)} \notin T
  <2>1. Chosen(s) \in s
    BY <1>3, ChosenIn
  <2> QED
    BY <2>1, <1>2 DEF StrictSubsetOrdering
<1> QED
  BY <1>3

LEMMA SumNat ==
  ASSUME NEW D, IsFiniteSet(D), NEW f \in [D -> Nat]
  PROVE  \A s \in SUBSET D : SumFn(f)[s] \in Nat
<1> DEFINE Bad == {s \in SUBSET D : SumFn(f)[s] \notin Nat}
<1>1. SUFFICES ASSUME Bad # {} PROVE FALSE
  OBVIOUS
<1>2. PICK s \in Bad : s # {} => s \ {Chosen(s)} \in (SUBSET D) \ Bad
  BY <1>1, LeastSet
<1>3. Unfolds(f, SumFn(f), s)
  BY SumDefined
<1>4. s # {} => Chosen(s) \in D
  BY ChosenIn
<1> QED
  BY <1>2, <1>3, <1>4 DEF Unfolds

LEMMA SumGrows ==
  ASSUME NEW D, IsFiniteSet(D), NEW f \in [D -> Nat], NEW g \in [D -> Nat],
         \A d \in D : f[d] <= g[d]
  PROVE  SumFunction(f) <= SumFunction(g)
<1> DEFINE Bad == {s \in SUBSET D : ~ (SumFn(f)[s] <= SumFn(g)[s])}
<1>1. SUFFICES ASSUME Bad # {} PROVE FALSE
  BY SumDefined
<1>2. PICK s \in Bad : s # {} => s \ {Chosen(s)} \in (SUBSET D) \ Bad
  BY <1>1, LeastSet
<1>3. Unfolds(f, SumFn(f), s) /\ Unfolds(g, SumFn(g), s)
  BY SumDefined
<1>4. s # {} => Chosen(s) \in D
  BY ChosenIn
<1>5. \A t \in SUBSET D : SumFn(f)[t] \in Nat /\ SumFn(g)[t] \in Nat
  BY SumNat
<1> QED
  BY <1>2, <1>3, <1>4, <1>5 DEF Unfolds

\* Two functions that differ at one place.
LEMMA SumChanges ==
  ASSUME NEW D, IsFiniteSet(D), NEW f \in [D -> Nat], NEW g \in [D -> Nat], NEW k \in D,
         \A d \in D \ {k} : f[d] = g[d]
  PROVE  SumFunction(f) + g[k] = SumFunction(g) + f[k]
<1> DEFINE Good(s) == IF k \in s THEN SumFn(f)[s] + g[k] = SumFn(g)[s] + f[k]
                                 ELSE SumFn(f)[s] = SumFn(g)[s]
           Bad == {s \in SUBSET D : ~ Good(s)}
<1>1. SUFFICES ASSUME Bad # {} PROVE FALSE
  BY SumDefined
<1>2. PICK s \in Bad : s # {} => s \ {Chosen(s)} \in (SUBSET D) \ Bad
  BY <1>1, LeastSet
<1>3. Unfolds(f, SumFn(f), s) /\ Unfolds(g, SumFn(g), s)
  BY SumDefined
<1>4. s # {} => Chosen(s) \in s
  BY ChosenIn
<1>5. \A t \in SUBSET D : SumFn(f)[t] \in Nat /\ SumFn(g)[t] \in Nat
  BY SumNat
<1> DEFINE a == Chosen(s)
           r == s \ {a}
<1>6. CASE s = {}
  BY <1>6, <1>2, <1>3 DEF Unfolds
<1>7. CASE s # {}
  <2>1. a \in s /\ a \in D /\ r \in SUBSET D /\ Good(r)
    BY <1>7, <1>2, <1>4
  <2>2. SumFn(f)[s] = f[a] + SumFn(f)[r] /\ SumFn(g)[s] = g[a] + SumFn(g)[r]
    BY <1>7, <1>3 DEF Unfolds
  <2>3. /\ SumFn(f)[s] \in Nat /\ SumFn(f)[r] \in Nat /\ SumFn(g)[s] \in Nat /\ SumFn(g)[r] \in Nat
        /\ f[a] \in Nat /\ g[a] \in Nat /\ f[k] \in Nat /\ g[k] \in Nat
    BY <1>5, <2>1
  <2> HIDE DEF a
  <2>4. CASE a = k
    BY <2>1, <2>2, <2>3, <2>4, <1>2
  <2>5. CASE a # k
    BY <2>1, <2>2, <2>3, <2>5, <1>2
  <2> QED
    BY <2>4, <2>5
<1> QED
  BY <1>6, <1>7

LEMMA SumIsNat ==
  ASSUME NEW D, IsFiniteSet(D), NEW f \in [D -> Nat]
  PROVE  SumFunction(f) \in Nat
BY SumNat, SumDefined

LEMMA SumOfNothing ==
  ASSUME NEW D, IsFiniteSet(D), NEW f \in [D -> Nat], \A d \in D : f[d] = 0
  PROVE  SumFunction(f) = 0
<1> DEFINE Bad == {s \in SUBSET D : SumFn(f)[s] # 0}
<1>1. SUFFICES ASSUME Bad # {} PROVE FALSE
  BY SumDefined
<1>2. PICK s \in Bad : s # {} => s \ {Chosen(s)} \in (SUBSET D) \ Bad
  BY <1>1, LeastSet
<1>3. Unfolds(f, SumFn(f), s)
  BY SumDefined
<1>4. s # {} => Chosen(s) \in D
  BY ChosenIn
<1> QED
  BY <1>2, <1>3, <1>4 DEF Unfolds

-----------------------------------------------------------------------------
(***************************************************************************)
(* What fits the disk.  The inductive invariant behind WithinCapacity:     *)
(* OrderInv, every entry is a candidate for eviction, so an eviction that  *)
(* takes all leaves nothing; and, as long as stores have not been crowded, *)
(* the entries in memory, in the file and on the way to the file fit, one  *)
(* caller has measured the room, and what it is about to put fits beside   *)
(* the rest, or the eviction still to come takes everything.               *)
(***************************************************************************)
Bytes(m) == SumFunction(SizeIn(m))
Rest(m, k) == Bytes(m) - SizeIn(m)[k]

Listed(s, k) == \E i \in DOMAIN s : s[i] = k
OrderInv == \A k \in Keys : meta[k] # None => Listed(lru, k)

\* A caller that is to put its version.
Placing(p) == Measured(p) /\ job[p].then # "stored"
\* What a store needs beyond its entry, until it has measured the room.
NeedInv(p) ==
  pc[p] = "measure" =>
    Size[job[p].data] < Capacity /\ job[p].diff = Size[job[p].data] - SizeIn(meta)[Key(p)]
RoomInv(p) ==
  Placing(p) =>
    /\ Size[job[p].data] < Capacity
    /\ \/ Rest(meta, Key(p)) + Size[job[p].data] <= Capacity
       \/ pc[p] = "evict" /\ job[p].diff > 0
\* What is about to be written was not changed since it was collected.
CopyInv(p) ==
  pc[p] = "rename" =>
    /\ Bytes(job[p].snap) <= Capacity
    /\ \A k \in Keys : meta[k] # None /\ job[p].snap[k] # None /\ meta[k].uid = job[p].snap[k].uid
                         => meta[k] = job[p].snap[k]
Alone == \A p, q \in Procs : Measured(p) /\ Measured(q) => p = q

Roomy ==
  /\ Bytes(meta) <= Capacity /\ Bytes(persisted) <= Capacity
  /\ Alone
  /\ \A p \in Procs : NeedInv(p) /\ RoomInv(p) /\ CopyInv(p)

CapInv == OrderInv /\ metaSize \in Nat /\ (crowded \/ Roomy)

LEMMA SizesIn ==
  ASSUME NEW m \in Metadata
  PROVE  /\ SizeIn(m) \in [Keys -> Nat] /\ Bytes(m) \in Nat
         /\ \A k \in Keys : SizeIn(m)[k] = IF m[k] = None THEN 0 ELSE Size[m[k].hash]
<1>1. \A k \in Keys : m[k] # None => Size[m[k].hash] \in Nat
  BY S3CacheAssumption DEF Metadata, Entries
<1>2. SizeIn(m) \in [Keys -> Nat]
  BY <1>1 DEF SizeIn
<1>3. Bytes(m) \in Nat
  BY <1>2, SumIsNat, S3CacheAssumption DEF Bytes
<1> QED
  BY <1>2, <1>3 DEF SizeIn

\* Another entry for one key.
LEMMA OtherEntry ==
  ASSUME NEW m \in Metadata, NEW n \in Metadata, NEW k \in Keys, \A l \in Keys \ {k} : n[l] = m[l]
  PROVE  Rest(n, k) = Rest(m, k)
<1>1. /\ SizeIn(m) \in [Keys -> Nat] /\ Bytes(m) \in Nat /\ SizeIn(n) \in [Keys -> Nat] /\ Bytes(n) \in Nat
  BY SizesIn
<1>2. \A l \in Keys \ {k} : SizeIn(m)[l] = SizeIn(n)[l]
  BY SizesIn
<1>3. SumFunction(SizeIn(m)) + SizeIn(n)[k] = SumFunction(SizeIn(n)) + SizeIn(m)[k]
  BY <1>1, <1>2, SumChanges, S3CacheAssumption
<1>4. SizeIn(m)[k] \in Nat /\ SizeIn(n)[k] \in Nat
  BY <1>1
<1> QED
  BY <1>1, <1>3, <1>4 DEF Rest, Bytes

\* Entries that go make room, also beside any key.
LEMMA FewerEntries ==
  ASSUME NEW m \in Metadata, NEW n \in Metadata, \A l \in Keys : n[l] \in {m[l], None}
  PROVE  Bytes(n) <= Bytes(m) /\ \A k \in Keys : Rest(n, k) <= Rest(m, k)
<1>1. /\ SizeIn(m) \in [Keys -> Nat] /\ Bytes(m) \in Nat /\ SizeIn(n) \in [Keys -> Nat] /\ Bytes(n) \in Nat
  BY SizesIn
<1>2. \A l \in Keys : SizeIn(n)[l] <= SizeIn(m)[l]
  BY <1>1, SizesIn
<1>3. Bytes(n) <= Bytes(m)
  BY <1>1, <1>2, SumGrows, S3CacheAssumption DEF Bytes
<1>4. ASSUME NEW k \in Keys PROVE Rest(n, k) <= Rest(m, k)
  <2> DEFINE f == [SizeIn(n) EXCEPT ![k] = SizeIn(m)[k]]
  <2>1. f \in [Keys -> Nat] /\ f[k] = SizeIn(m)[k] /\ \A l \in Keys \ {k} : SizeIn(n)[l] = f[l]
    BY <1>1
  <2>2. \A l \in Keys : f[l] <= SizeIn(m)[l]
    BY <1>1, <1>2
  <2> HIDE DEF f
  <2>3. SumFunction(SizeIn(n)) + f[k] = SumFunction(f) + SizeIn(n)[k]
    BY <1>1, <2>1, SumChanges, S3CacheAssumption
  <2>4. SumFunction(f) <= SumFunction(SizeIn(m))
    BY <1>1, <2>1, <2>2, SumGrows, S3CacheAssumption
  <2>5. SumFunction(f) \in Nat /\ SizeIn(m)[k] \in Nat /\ SizeIn(n)[k] \in Nat
    BY <1>1, <2>1, SumIsNat, S3CacheAssumption
  <2> QED
    BY <1>1, <2>1, <2>3, <2>4, <2>5 DEF Rest, Bytes
<1> QED
  BY <1>3, <1>4

LEMMA NoEntries ==
  ASSUME NEW m \in Metadata, \A l \in Keys : m[l] = None
  PROVE  Bytes(m) = 0 /\ \A k \in Keys : Rest(m, k) = 0
<1>1. SizeIn(m) \in [Keys -> Nat] /\ \A k \in Keys : SizeIn(m)[k] = 0
  BY SizesIn
<1> QED
  BY <1>1, SumOfNothing, S3CacheAssumption DEF Bytes, Rest

\* The loop of reclaimSpace, which counts down: it takes everything or nothing.
LEMMA AllOrNothing ==
  ASSUME S3Type, LruInv, NEW n \in 0..Len(lru), NEW diff \in Int, Evicted(n, diff)
  PROVE  IF diff > 0 THEN n = Len(lru) ELSE n = 0
<1>0. Len(lru) \in Nat /\ DOMAIN lru = 1..Len(lru)
  BY DEF LruInv
<1>1. ASSUME NEW i \in 0..Len(lru) PROVE Freed(i) \in Int /\ Freed(i) <= 0
  <2> DEFINE f == [j \in 1..i |-> Size[meta[lru[j]].hash]]
  <2>1. \A j \in 1..i : Size[meta[lru[j]].hash] \in Nat
    <3>1. SUFFICES ASSUME NEW j \in 1..i PROVE Size[meta[lru[j]].hash] \in Nat
      OBVIOUS
    <3>2. j \in DOMAIN lru
      BY <1>0
    <3>3. meta[lru[j]] \in Entries
      BY <3>2, <1>0 DEF LruInv, S3Type, Metadata
    <3> QED
      BY <3>3, S3CacheAssumption DEF Entries
  <2>2. f \in [1..i -> Nat] /\ IsFiniteSet(1..i)
    BY <2>1, FS_Interval, <1>0
  <2>3. SumFunction(f) \in Nat
    BY <2>2, SumIsNat
  <2>4. Freed(i) = 0 - SumFunction(f)
    BY DEF Freed
  <2> HIDE DEF f
  <2> QED
    BY <2>3, <2>4
<1>2. Freed(0) = 0
  <2> DEFINE f == [j \in 1..0 |-> Size[meta[lru[j]].hash]]
  <2>0. 1..0 = {}
    OBVIOUS
  <2>1. 1..0 = {} /\ IsFiniteSet(1..0)
    BY <2>0, FS_EmptySet
  <2>2. f \in [1..0 -> Nat] /\ \A d \in 1..0 : f[d] = 0
    BY <2>1
  <2>3. SumFunction(f) = 0
    BY <2>1, <2>2, SumOfNothing
  <2>4. Freed(0) = 0 - SumFunction(f)
    BY DEF Freed
  <2> HIDE DEF f
  <2> QED
    BY <2>3, <2>4
<1>3. (n = Len(lru) \/ Freed(n) >= diff) /\ \A i \in 0..(n - 1) : Freed(i) < diff
  BY DEF Evicted
<1>4. CASE diff > 0
  <2>1. Freed(n) \in Int /\ Freed(n) <= 0
    BY <1>1
  <2> QED
    BY <1>3, <1>4, <2>1
<1>5. CASE ~ (diff > 0)
  <2>1. SUFFICES ASSUME n # 0 PROVE FALSE
    BY <1>5
  <2>2. 0 \in 0..(n - 1)
    BY <1>0, <2>1
  <2> QED
    BY <1>2, <1>3, <1>5, <2>2
<1> QED
  BY <1>4, <1>5

-----------------------------------------------------------------------------
(***************************************************************************)
(* Every entry is in the order of use.                                     *)
(***************************************************************************)
LEMMA WithoutKeeps ==
  ASSUME lru \in Seq(Keys), NEW k \in Keys, NEW l \in Keys \ {k}, Listed(lru, l)
  PROVE  Listed(Without(k), l)
<1>1. DOMAIN lru = 1..Len(lru) /\ Len(lru) \in Nat
  OBVIOUS
<1>2. CASE k \notin ToSet(lru)
  BY <1>2 DEF Without
<1>3. CASE k \in ToSet(lru)
  <2> DEFINE c == CHOOSE i \in DOMAIN lru : lru[i] = k
             t == RemoveAt(lru, c)
  <2>1. c \in 1..Len(lru) /\ lru[c] = k
    BY <1>1, <1>3 DEF ToSet
  <2>2. Without(k) = t
    BY <1>3 DEF Without
  <2> HIDE DEF c
  <2>3. /\ t \in Seq(Keys) /\ Len(t) = Len(lru) - 1
        /\ \A j \in 1..(Len(lru) - 1) : t[j] = IF j < c THEN lru[j] ELSE lru[j + 1]
    BY <2>1, RemovedAt
  <2> HIDE DEF t
  <2>4. DOMAIN t = 1..(Len(lru) - 1)
    BY <2>3
  <2>5. PICK i \in 1..Len(lru) : lru[i] = l
    BY <1>1 DEF Listed
  <2>6. i # c
    BY <2>1, <2>5
  <2>7. CASE i < c
    <3>1. i \in 1..(Len(lru) - 1)
      BY <2>1, <2>7, <1>1
    <3> QED
      BY <3>1, <2>2, <2>3, <2>4, <2>5, <2>7 DEF Listed
  <2>8. CASE ~ (i < c)
    <3>1. i - 1 \in 1..(Len(lru) - 1) /\ ~ (i - 1 < c) /\ (i - 1) + 1 = i
      BY <2>1, <2>6, <2>8, <1>1
    <3>2. t[i - 1] = l
      BY <3>1, <2>3, <2>5
    <3> QED
      BY <3>1, <3>2, <2>2, <2>4 DEF Listed
  <2> QED
    BY <2>7, <2>8
<1> QED
  BY <1>2, <1>3

LEMMA MostRecentKeeps ==
  ASSUME lru \in Seq(Keys), NoDuplicates(lru), NEW k \in Keys, NEW l \in Keys, l = k \/ Listed(lru, l)
  PROVE  Listed(MostRecent(k), l)
<1> DEFINE w == Without(k)
<1>1. w \in Seq(Keys) /\ (l # k => Listed(w, l))
  BY WithoutFacts, WithoutKeeps
<1>2. MostRecent(k) = Append(w, k)
  BY DEF MostRecent
<1> HIDE DEF w
<1>3. /\ DOMAIN Append(w, k) = 1..(Len(w) + 1) /\ DOMAIN w = 1..Len(w) /\ Len(w) \in Nat
      /\ Append(w, k)[Len(w) + 1] = k
      /\ \A i \in 1..Len(w) : Append(w, k)[i] = w[i]
  BY <1>1
<1>4. CASE l = k
  BY <1>2, <1>3, <1>4 DEF Listed
<1>5. CASE l # k
  <2>1. PICK i \in 1..Len(w) : w[i] = l
    BY <1>1, <1>3, <1>5 DEF Listed
  <2>2. i \in 1..(Len(w) + 1)
    BY <1>3
  <2> QED
    BY <1>2, <1>3, <2>1, <2>2 DEF Listed
<1> QED
  BY <1>4, <1>5

\* A restart lists every entry of the file.
LEMMA AllListed ==
  ASSUME NEW S, IsFiniteSet(S), NEW s \in SetToSeqs(S), NEW k \in S
  PROVE  Listed(s, k)
<1> DEFINE D == 1..Cardinality(S)
<1>1. Cardinality(S) \in Nat
  BY FS_CardinalityType
<1>2. s \in [D -> S] /\ \A i, j \in D : i # j => s[i] # s[j]
  BY DEF SetToSeqs
<1>3. Cardinality(D) = Cardinality(S)
  BY <1>1, FS_Interval
<1> HIDE DEF D
<1>4. s \in Injection(D, S)
  BY <1>2 DEF Injection, IsInjective
<1>5. s \in Surjection(D, S)
  BY <1>3, <1>4, FS_Injection
<1> QED
  BY <1>2, <1>5 DEF Surjection, Listed

LEMMA OrderStep ==
  ASSUME S3Type, LruInv, \A q \in Procs : Shape(q), OrderInv, [Next]_vars
  PROVE  OrderInv'
<1>0. lru \in Seq(Keys) /\ NoDuplicates(lru) /\ DOMAIN lru = 1..Len(lru) /\ Len(lru) \in Nat
  BY DEF LruInv
<1>1. ASSUME UNCHANGED <<lru, meta>> PROVE OrderInv'
  BY <1>1 DEF OrderInv, Listed
<1>2. ASSUME NEW p \in Procs, ReadFile(p) PROVE OrderInv'
  <2>1. CASE lru' = lru
    BY <2>1, <1>1, <1>2 DEF ReadFile
  <2>2. CASE lru' # lru
    <3>1. meta' = meta /\ lru' = MostRecent(Key(p)) /\ Key(p) \in Keys
      BY <2>2, <1>2 DEF ReadFile, Tracked
    <3>2. \A l \in Keys : meta[l] # None => Listed(MostRecent(Key(p)), l)
      BY <1>0, <3>1, MostRecentKeeps DEF OrderInv
    <3> QED
      BY <3>1, <3>2 DEF OrderInv, Listed
  <2> QED
    BY <2>1, <2>2
<1>3. ASSUME NEW p \in Procs, Forget(p) PROVE OrderInv'
  <2>1. CASE meta[Key(p)] = None
    BY <2>1, <1>1, <1>3 DEF Forget
  <2>2. CASE meta[Key(p)] # None
    <3>1. Key(p) \in Keys
      BY <1>3 DEF Forget, Shape
    <3>2. lru' = Without(Key(p)) /\ meta' = [meta EXCEPT ![Key(p)] = None]
      BY <1>3, <2>2 DEF Forget
    <3>3. meta'[Key(p)] = None /\ \A k \in Keys \ {Key(p)} : meta'[k] = meta[k]
      BY <3>1, <3>2 DEF S3Type, Metadata
    <3>4. \A l \in Keys \ {Key(p)} : meta[l] # None => Listed(Without(Key(p)), l)
      BY <1>0, <3>1, WithoutKeeps DEF OrderInv
    <3> QED
      BY <3>2, <3>3, <3>4 DEF OrderInv, Listed
  <2> QED
    BY <2>1, <2>2
<1>4. ASSUME NEW p \in Procs, Evict(p) PROVE OrderInv'
  <2>1. PICK n \in 0..Len(lru) :
          /\ meta' = [k \in Keys |-> IF k \in {lru[i] : i \in 1..n} THEN None ELSE meta[k]]
          /\ lru' = SubSeq(lru, n + 1, Len(lru))
    BY <1>4 DEF Evict
  <2>2. /\ lru' \in Seq(Keys) /\ Len(lru') = Len(lru) - n
        /\ \A i \in 1..(Len(lru) - n) : lru'[i] = lru[n + i]
    <3>1. lru' = SubSeq(lru, n + 1, Len(lru))
      BY <2>1
    <3>2. /\ SubSeq(lru, n + 1, Len(lru)) \in Seq(Keys) /\ Len(SubSeq(lru, n + 1, Len(lru))) = Len(lru) - n
          /\ \A i \in 1..(Len(lru) - n) : SubSeq(lru, n + 1, Len(lru))[i] = lru[n + i]
      BY <1>0, SuffixFacts
    <3> QED
      BY <3>1, <3>2, Zenon
  <2>3. SUFFICES ASSUME NEW k \in Keys, meta'[k] # None
                 PROVE  Listed(lru', k)
    BY DEF OrderInv, Listed
  <2>4. meta[k] # None /\ k \notin {lru[i] : i \in 1..n}
    BY <2>1, <2>3
  <2>5. PICK i \in 1..Len(lru) : lru[i] = k
    BY <2>4, <1>0 DEF OrderInv, Listed
  <2>6. i \notin 1..n
    BY <2>4, <2>5
  <2>7. i - n \in 1..(Len(lru) - n) /\ n + (i - n) = i
    BY <2>6, <1>0
  <2>8. DOMAIN lru' = 1..(Len(lru) - n)
    BY <2>2
  <2> QED
    BY <2>2, <2>5, <2>7, <2>8 DEF Listed
<1>5. ASSUME NEW p \in Procs, Put(p) PROVE OrderInv'
  <2>1. Key(p) \in Keys
    BY <1>5 DEF Put, Shape
  <2> DEFINE e == [uid |-> IF meta[Key(p)] = None THEN job[p].uid ELSE meta[Key(p)].uid, hash |-> job[p].data]
  <2>2. lru' = MostRecent(Key(p)) /\ meta' = [meta EXCEPT ![Key(p)] = e]
    BY <1>5 DEF Put
  <2> HIDE DEF e
  <2>3. \A k \in Keys \ {Key(p)} : meta'[k] = meta[k]
    BY <2>1, <2>2 DEF S3Type, Metadata
  <2>4. \A l \in Keys : l = Key(p) \/ meta[l] # None => Listed(MostRecent(Key(p)), l)
    BY <1>0, <2>1, MostRecentKeeps DEF OrderInv
  <2> QED
    BY <2>2, <2>3, <2>4 DEF OrderInv, Listed
<1>6. CASE Crash
  <2>1. lru' \in SetToSeqs(EntriesOf(persisted)) /\ meta' = persisted
    BY <1>6 DEF Crash
  <2>2. IsFiniteSet(EntriesOf(persisted))
    BY S3CacheAssumption, FS_Subset DEF EntriesOf
  <2>3. \A k \in EntriesOf(persisted) : Listed(lru', k)
    BY <2>1, <2>2, AllListed
  <2> QED
    BY <2>1, <2>3 DEF OrderInv, Listed, EntriesOf
<1>7. ASSUME NEW p \in Procs,
             \/ \E op \in {"get", "put", "remove"}, k \in Keys, want \in Versions \cup {None} : Call(p, op, k, want)
             \/ ReadCached(p) \/ Flight(p) \/ FetchFails(p) \/ Fetch(p) \/ Upload(p) \/ RemoteFails(p) \/ Delete(p)
             \/ RemoveFile(p) \/ Persist(p) \/ Rename(p) \/ RenameFails(p) \/ StoreSkipped(p) \/ Store(p)
             \/ MeasureRoom(p) \/ EvictFile(p) \/ WriteFile(p) \/ WriteFails(p)
      PROVE  OrderInv'
  BY <1>1, <1>7 DEF Call, ReadCached, Flight, FetchFails, Fetch, Upload, RemoteFails, Delete, RemoveFile, Persist,
     Rename, RenameFails, StoreSkipped, Store, MeasureRoom, EvictFile, WriteFile, WriteFails, cacheVars
<1>8. CASE UNCHANGED vars
  BY <1>1, <1>8 DEF vars
<1> QED
  BY <1>2, <1>3, <1>4, <1>5, <1>6, <1>7, <1>8 DEF Next, Step

-----------------------------------------------------------------------------
(***************************************************************************)
(* Steps that only take entries away, and leave the callers that store     *)
(* alone or end them.                                                      *)
(***************************************************************************)
Calm(q) ==
  /\ Measured(q)' => Measured(q)
  /\ pc'[q] = "measure" => pc[q] = "measure" /\ job'[q] = job[q] /\ call'[q] = call[q]
  /\ Placing(q)' => /\ Placing(q) /\ call'[q] = call[q] /\ job'[q].data = job[q].data
                    /\ pc[q] = "evict" => pc'[q] = "evict" /\ job'[q].diff = job[q].diff
  /\ pc'[q] = "rename" => pc[q] = "rename" /\ job'[q].snap = job[q].snap

LEMMA SameIsCalm ==
  ASSUME NEW q, Same(q) \/ Ended(q)
  PROVE  Calm(q)
BY DEF Same, Ended, Calm, Storing, Measured, Placing

\* A caller that is no nearer to the cache than before it stores.
LEMMA OutsideIsCalm ==
  ASSUME NEW q, pc'[q] \notin {"measure", "evict", "evictFiles", "write", "put", "persist", "rename"}
  PROVE  Calm(q)
BY DEF Calm, Storing, Measured, Placing

LEMMA CalmKeeps ==
  ASSUME S3Type, S3Type', NEW q \in Procs, Shape(q), Calm(q), NeedInv(q), RoomInv(q), CopyInv(q),
         \A k \in Keys : meta'[k] \in {meta[k], None}, pc[q] = "measure" => meta'[Key(q)] = meta[Key(q)]
  PROVE  NeedInv(q)' /\ RoomInv(q)' /\ CopyInv(q)'
<1>0. meta \in Metadata /\ meta' \in Metadata
  BY DEF S3Type
<1>1. \A k \in Keys : Rest(meta', k) <= Rest(meta, k)
  BY <1>0, FewerEntries
<1>2. RoomInv(q)'
  <2>1. SUFFICES ASSUME Placing(q)'
                 PROVE  /\ Size[job'[q].data] < Capacity
                        /\ \/ Rest(meta', call'[q].key) + Size[job'[q].data] <= Capacity
                           \/ pc'[q] = "evict" /\ job'[q].diff > 0
    BY DEF RoomInv, Key
  <2>2. Placing(q) /\ call'[q] = call[q] /\ job'[q].data = job[q].data
    BY <2>1 DEF Calm
  <2>3. Key(q) \in Keys /\ Size[job[q].data] \in Nat
    <3>1. pc[q] # "idle" /\ HasData(q)
      BY <2>2 DEF Placing, Measured, Storing, HasData
    <3>2. job[q].data \in Versions
      BY <3>1 DEF Shape, S3Type, CallersType, Jobs
    <3> QED
      BY <3>1, <3>2, S3CacheAssumption DEF Shape
  <2>4. CASE pc[q] = "evict" /\ job[q].diff > 0
    BY <2>1, <2>2, <2>4 DEF Calm, RoomInv
  <2>5. CASE Rest(meta, Key(q)) + Size[job[q].data] <= Capacity
    <3>1. Rest(meta', Key(q)) \in Int /\ Rest(meta, Key(q)) \in Int
      BY <1>0, <2>3, SizesIn DEF Rest
    <3>2. Rest(meta', Key(q)) + Size[job[q].data] <= Capacity
      BY <1>1, <2>3, <2>5, <3>1, S3CacheAssumption
    <3> QED
      BY <2>2, <3>2 DEF RoomInv, Key
  <2> QED
    BY <2>2, <2>4, <2>5 DEF RoomInv
<1>3. CopyInv(q)'
  BY DEF CopyInv, Calm
<1>4. NeedInv(q)'
  <2>1. SUFFICES ASSUME pc'[q] = "measure" PROVE NeedInv(q)'
    BY DEF NeedInv
  <2>2. pc[q] = "measure" /\ job'[q] = job[q] /\ Key(q)' = Key(q) /\ meta'[Key(q)] = meta[Key(q)]
    BY <2>1 DEF Calm, Key
  <2>3. SizeIn(meta')[Key(q)] = SizeIn(meta)[Key(q)]
    BY <1>0, <2>2, SizesIn DEF Shape
  <2> QED
    BY <2>2, <2>3 DEF NeedInv
<1> QED
  BY <1>2, <1>3, <1>4

LEMMA CalmStep ==
  ASSUME S3Type, S3Type', \A q \in Procs : Shape(q), Roomy, \A q \in Procs : Calm(q),
         \A k \in Keys : meta'[k] \in {meta[k], None}, Bytes(persisted') <= Capacity,
         \A q \in Procs : pc[q] = "measure" => meta'[Key(q)] = meta[Key(q)]
  PROVE  Roomy'
<1>1. meta \in Metadata /\ meta' \in Metadata
  BY DEF S3Type
<1>2. Bytes(meta') <= Capacity
  <2>1. Bytes(meta') <= Bytes(meta)
    BY <1>1, FewerEntries
  <2>2. Bytes(meta') \in Nat /\ Bytes(meta) \in Nat /\ Bytes(meta) <= Capacity /\ Capacity \in Nat
    BY <1>1, SizesIn, S3CacheAssumption DEF Roomy
  <2> QED
    BY <2>1, <2>2
<1>3. \A q \in Procs : NeedInv(q)' /\ RoomInv(q)' /\ CopyInv(q)'
  BY CalmKeeps DEF Roomy
<1>4. Alone'
  BY DEF Alone, Roomy, Calm
<1> QED
  BY <1>2, <1>3, <1>4 DEF Roomy

\* The need of a store is the difference to its entry.
LEMMA StoreRoom ==
  ASSUME S3Type, S3Type', \A q \in Procs : Shape(q), Roomy, NEW p \in Procs, Store(p)
  PROVE  Roomy'
<1> DEFINE d == Size[job[p].data]
           o == ResolveUID(p).old
<1>1. Others(p) /\ UNCHANGED call /\ pc'[p] = "measure"
  BY StoreEffect
<1>2. /\ UNCHANGED <<meta, persisted>> /\ d < Capacity /\ pc[p] = "store"
      /\ job' = [job EXCEPT ![p].uid = ResolveUID(p).uid, ![p].diff = d - o]
  BY DEF Store, diskVars
<1>3. job[p] \in Jobs /\ Key(p) \in Keys
  BY <1>2 DEF Shape, S3Type, CallersType
<1>4. o = SizeIn(meta)[Key(p)]
  BY <1>3, SizesIn DEF ResolveUID, S3Type
<1>5. job'[p].diff = d - o /\ job'[p].data = job[p].data
  BY <1>2, <1>3 DEF Jobs, S3Type, CallersType
<1> HIDE DEF o
<1>6. NeedInv(p)'
  BY <1>1, <1>2, <1>4, <1>5 DEF NeedInv, Key
<1>7. RoomInv(p)' /\ CopyInv(p)' /\ ~ Measured(p)'
  BY <1>1 DEF RoomInv, CopyInv, Placing, Measured
<1>8. ASSUME NEW q \in Procs \ {p}
      PROVE  NeedInv(q)' /\ RoomInv(q)' /\ CopyInv(q)' /\ (Measured(q)' => Measured(q))
  <2>1. Same(q) /\ Calm(q)
    BY <1>1, SameIsCalm DEF Others
  <2> QED
    BY <2>1, <1>2, CalmKeeps DEF Roomy, Calm
<1>9. Alone'
  BY <1>7, <1>8 DEF Alone, Roomy
<1>10. Bytes(meta') <= Capacity /\ Bytes(persisted') <= Capacity
  BY <1>2 DEF Roomy
<1> QED
  BY <1>6, <1>7, <1>8, <1>9, <1>10 DEF Roomy

\* The room is measured, or found to be too small.
LEMMA MeasuredRoom ==
  ASSUME S3Type, S3Type', \A q \in Procs : Shape(q), Roomy, metaSize \in Nat, ~ crowded',
         NEW p \in Procs, MeasureRoom(p)
  PROVE  Roomy'
<1> DEFINE d == Size[job[p].data]
           o == SizeIn(meta)[Key(p)]
<1>1. Others(p) /\ UNCHANGED <<call, job>> /\ pc'[p] \in {"evict", "write"}
  BY MeasureEffect
<1>2. /\ UNCHANGED <<meta, persisted>> /\ pc[p] = "measure"
      /\ \A q \in Procs \ {p} : ~ Measured(q)
      /\ Goto(p, IF TooFull(job[p].diff) THEN "evict" ELSE "write")
  BY DEF MeasureRoom, diskVars
<1>3. Key(p) \in Keys /\ job[p].data \in Versions
  <2>1. HasData(p) /\ pc[p] # "idle"
    BY <1>2 DEF HasData, Storing
  <2> QED
    BY <2>1 DEF Shape, S3Type, CallersType, Jobs
<1>4. meta \in Metadata /\ Bytes(meta) \in Nat /\ o \in Nat /\ d \in Nat
  BY <1>3, SizesIn, S3CacheAssumption DEF S3Type
<1>5. d < Capacity /\ job[p].diff = d - o
  BY <1>2 DEF Roomy, NeedInv
<1>6. pc'[p] = "evict" <=> TooFull(d - o)
  BY <1>2, <1>5 DEF Goto, S3Type, CallersType
<1>7. Rest(meta, Key(p)) + d = Bytes(meta) + (d - o)
  BY <1>4 DEF Rest
<1> HIDE DEF d, o
<1>8. RoomInv(p)'
  <2>1. Bytes(meta) <= Capacity /\ Capacity \in Nat
    BY S3CacheAssumption DEF Roomy
  <2>2. CASE TooFull(d - o)
    <3>1. Rest(meta, Key(p)) + d <= Capacity \/ d - o > 0
      BY <2>1, <1>4, <1>7
    <3> QED
      BY <3>1, <2>2, <1>1, <1>2, <1>5, <1>6 DEF RoomInv, Key, d
  <2>3. CASE ~ TooFull(d - o)
    <3>1. ~ ((Capacity - metaSize) - Bytes(meta) < d - o)
      BY <2>3 DEF TooFull, Room, CacheSize, Bytes
    <3>2. Rest(meta, Key(p)) + d <= Capacity
      BY <3>1, <2>1, <1>4, <1>7
    <3> QED
      BY <3>2, <1>1, <1>2, <1>5 DEF RoomInv, Key, d
  <2> QED
    BY <2>2, <2>3
<1>9. NeedInv(p)' /\ CopyInv(p)'
  BY <1>1 DEF NeedInv, CopyInv
<1>10. ASSUME NEW q \in Procs \ {p} PROVE NeedInv(q)' /\ RoomInv(q)' /\ CopyInv(q)' /\ ~ Measured(q)'
  <2>1. Same(q) /\ Calm(q)
    BY <1>1, SameIsCalm DEF Others
  <2>2. NeedInv(q)' /\ RoomInv(q)' /\ CopyInv(q)'
    BY <2>1, <1>2, CalmKeeps DEF Roomy
  <2> QED
    BY <2>1, <2>2, <1>2 DEF Calm
<1>11. Alone'
  BY <1>10 DEF Alone
<1>12. Bytes(meta') <= Capacity /\ Bytes(persisted') <= Capacity
  BY <1>2 DEF Roomy
<1> QED
  BY <1>8, <1>9, <1>10, <1>11, <1>12 DEF Roomy

LEMMA PersistRoom ==
  ASSUME S3Type, S3Type', \A q \in Procs : Shape(q), Roomy, NEW p \in Procs, Persist(p)
  PROVE  Roomy'
<1>1. Others(p) /\ UNCHANGED call /\ pc'[p] = "rename" /\ job'[p] = [job[p] EXCEPT !.snap = meta]
  BY PersistEffect
<1>2. UNCHANGED <<meta, persisted>> /\ pc[p] = "persist" /\ job[p] \in Jobs
  BY DEF Persist, diskVars, S3Type, CallersType
<1>3. job'[p].snap = meta /\ job'[p].then = job[p].then /\ job'[p].data = job[p].data
  BY <1>1, <1>2 DEF Jobs
<1>4. RoomInv(p)' /\ NeedInv(p)'
  BY <1>1, <1>2, <1>3 DEF Roomy, RoomInv, NeedInv, Placing, Measured, Storing, Key
<1>5. CopyInv(p)'
  BY <1>2, <1>3 DEF Roomy, CopyInv
<1>6. ASSUME NEW q \in Procs \ {p} PROVE NeedInv(q)' /\ RoomInv(q)' /\ CopyInv(q)'
  <2>1. Calm(q)
    BY <1>1, SameIsCalm DEF Others
  <2> QED
    BY <2>1, <1>2, CalmKeeps DEF Roomy
<1>7. \A q \in Procs : Measured(q)' => Measured(q)
  BY <1>1, <1>2, <1>3 DEF Others, Same, Storing, Measured
<1>8. Alone'
  BY <1>7 DEF Alone, Roomy
<1>9. Bytes(meta') <= Capacity /\ Bytes(persisted') <= Capacity
  BY <1>2 DEF Roomy
<1> QED
  BY <1>4, <1>5, <1>6, <1>8, <1>9 DEF Roomy

\* Everything goes, or nothing because the new version is no larger.
LEMMA EvictRoom ==
  ASSUME S3Type, S3Type', LruInv, \A q \in Procs : Shape(q), OrderInv, Roomy, ~ crowded', NEW p \in Procs, Evict(p)
  PROVE  Roomy'
<1>1. Others(p) /\ UNCHANGED sharedVars /\ pc'[p] = "persist"
  BY EvictEffect
<1>2. PICK n \in 0..Len(lru) :
        /\ pc[p] = "evict" /\ Evicted(n, job[p].diff)
        /\ meta' = [k \in Keys |-> IF k \in {lru[i] : i \in 1..n} THEN None ELSE meta[k]]
        /\ job' = [job EXCEPT ![p].drop = [i \in 1..n |-> meta[lru[i]].uid], ![p].then = "evictFiles"]
        /\ UNCHANGED persisted /\ ~ Misleads({lru[i] : i \in 1..n})
  BY DEF Evict, diskVars
<1>3. job[p] \in Jobs /\ job[p].diff \in Int /\ HasData(p) /\ pc[p] # "idle"
  BY <1>2 DEF S3Type, CallersType, Jobs, HasData, Storing
<1>4. job'[p].then = "evictFiles" /\ job'[p].data = job[p].data /\ UNCHANGED call
  BY <1>1, <1>2, <1>3 DEF Jobs, S3Type, CallersType, sharedVars
<1>5. Key(p) \in Keys /\ Size[job[p].data] \in Nat
  <2>1. job[p].data \in Versions
    BY <1>3 DEF Shape, Jobs
  <2> QED
    BY <1>3, <2>1, S3CacheAssumption DEF Shape
<1>6. /\ meta \in Metadata /\ meta' \in Metadata /\ Capacity \in Nat
      /\ Bytes(meta) <= Capacity /\ Bytes(persisted) <= Capacity
  BY S3CacheAssumption DEF S3Type, Roomy
<1>7. \A k \in Keys : meta'[k] \in {meta[k], None}
  BY <1>2
<1>8. Placing(p) /\ RoomInv(p)
  BY <1>2, <1>3 DEF Placing, Measured, Storing, Roomy, Shape
<1>9. Rest(meta', Key(p)) + Size[job[p].data] <= Capacity
  <2>1. CASE job[p].diff > 0
    <3>1. n = Len(lru)
      BY <1>2, <1>3, <2>1, AllOrNothing
    <3>2. \A k \in Keys : meta'[k] = None
      BY <1>2, <3>1 DEF OrderInv, Listed, LruInv
    <3>3. Rest(meta', Key(p)) = 0
      BY <1>5, <1>6, <3>2, NoEntries
    <3>4. Size[job[p].data] < Capacity
      BY <1>8 DEF RoomInv
    <3> QED
      BY <1>5, <1>6, <3>3, <3>4
  <2>2. CASE ~ (job[p].diff > 0)
    <3>1. Rest(meta, Key(p)) + Size[job[p].data] <= Capacity
      BY <1>8, <2>2 DEF RoomInv
    <3>2. Rest(meta', Key(p)) <= Rest(meta, Key(p))
      BY <1>5, <1>6, <1>7, FewerEntries
    <3>3. Rest(meta, Key(p)) \in Int /\ Rest(meta', Key(p)) \in Int
      BY <1>5, <1>6, SizesIn DEF Rest
    <3> QED
      BY <1>5, <1>6, <3>1, <3>2, <3>3
  <2> QED
    BY <2>1, <2>2
<1>10. NeedInv(p)' /\ RoomInv(p)' /\ CopyInv(p)'
  BY <1>1, <1>4, <1>8, <1>9 DEF NeedInv, RoomInv, CopyInv, Key
<1>11. ASSUME NEW q \in Procs \ {p}
       PROVE  NeedInv(q)' /\ RoomInv(q)' /\ CopyInv(q)' /\ (Measured(q)' => Measured(q))
  <2>1. Calm(q)
    BY <1>1, SameIsCalm DEF Others
  <2>2. pc[q] = "measure" => meta'[Key(q)] = meta[Key(q)]
    <3>1. pc[q] = "measure" => Key(q) \in Keys /\ Key(q) \notin {lru[i] : i \in 1..n}
      BY <1>2 DEF Misleads, Shape
    <3> QED
      BY <3>1, <1>2
  <2> QED
    BY <2>1, <2>2, <1>7, CalmKeeps DEF Roomy, Calm
<1>12. Alone'
  <2>1. Measured(p)
    BY <1>8 DEF Placing
  <2> QED
    BY <1>11, <2>1 DEF Alone, Roomy
<1>13. Bytes(meta') <= Capacity
  <2>1. Bytes(meta') <= Bytes(meta) /\ Bytes(meta) \in Nat /\ Bytes(meta') \in Nat
    BY <1>6, <1>7, FewerEntries, SizesIn
  <2> QED
    BY <1>6, <2>1
<1>14. Bytes(persisted') <= Capacity
  BY <1>2, <1>6
<1> QED
  BY <1>10, <1>11, <1>12, <1>13, <1>14 DEF Roomy

\* The room that was measured is still there: nobody else stored.
LEMMA PutRoom ==
  ASSUME S3Type, S3Type', \A q \in Procs : Shape(q), Roomy, ~ crowded', NEW p \in Procs, Put(p)
  PROVE  Roomy'
<1> DEFINE k == Key(p)
           e == [uid |-> IF meta[k] = None THEN job[p].uid ELSE meta[k].uid, hash |-> job[p].data]
<1>1. Others(p) /\ UNCHANGED call /\ pc'[p] = "persist" /\ job'[p] = [job[p] EXCEPT !.then = "stored"]
  BY PutEffect
<1>2. /\ pc[p] = "put" /\ UNCHANGED persisted /\ meta' = [meta EXCEPT ![k] = e]
      /\ \A q \in Procs \ {p} : pc[q] = "rename" => job[q].snap[k] = None
      /\ ~ Misleads({k})
  BY DEF Put, diskVars
<1>3. job[p] \in Jobs /\ HasData(p) /\ pc[p] # "idle" /\ Placing(p)
  BY <1>2 DEF S3Type, CallersType, HasData, Storing, Measured, Placing, Shape
<1>4. k \in Keys /\ job[p].data \in Versions /\ job[p].uid \in Uids
  BY <1>3 DEF Shape, Jobs, Placing, Measured
<1>5. meta \in Metadata /\ meta' \in Metadata /\ Capacity \in Nat
  BY S3CacheAssumption DEF S3Type
<1>6. e \in Entries /\ e # None /\ e.hash = job[p].data
  <2>1. e \in Entries
    BY <1>4, <1>5 DEF Entries, Metadata
  <2> QED
    BY <2>1, S3CacheAssumption
<1> HIDE DEF e, k
<1>7. meta'[k] = e /\ \A l \in Keys \ {k} : meta'[l] = meta[l]
  BY <1>2, <1>4, <1>5 DEF Metadata
<1>8. Bytes(meta') <= Capacity
  <2>1. Rest(meta', k) = Rest(meta, k)
    BY <1>4, <1>5, <1>7, OtherEntry
  <2>2. Rest(meta, k) + Size[job[p].data] <= Capacity
    BY <1>2, <1>3 DEF Roomy, RoomInv, k
  <2>3. SizeIn(meta')[k] = Size[job[p].data] /\ Size[job[p].data] \in Nat /\ Bytes(meta') \in Nat
    BY <1>4, <1>5, <1>6, <1>7, SizesIn, S3CacheAssumption
  <2>4. Rest(meta', k) = Bytes(meta') - Size[job[p].data]
    BY <2>3 DEF Rest
  <2> QED
    BY <2>1, <2>2, <2>3, <2>4, <1>5
<1>9. \A q \in Procs \ {p} : Same(q) /\ ~ Measured(q) /\ ~ Measured(q)'
  <2>1. SUFFICES ASSUME NEW q \in Procs \ {p} PROVE Same(q) /\ ~ Measured(q) /\ ~ Measured(q)'
    OBVIOUS
  <2>2. ~ Measured(q)
    BY <1>3 DEF Roomy, Alone, Placing
  <2>3. Same(q) /\ Calm(q)
    BY <1>1, SameIsCalm DEF Others
  <2> QED
    BY <2>2, <2>3 DEF Calm
<1>10. ASSUME NEW q \in Procs PROVE RoomInv(q)'
  <2>1. CASE q = p
    <3>1. job'[p].then = "stored"
      BY <1>1, <1>3 DEF Jobs
    <3> QED
      BY <2>1, <3>1 DEF RoomInv, Placing
  <2>2. CASE q # p
    BY <2>2, <1>9 DEF RoomInv, Placing
  <2> QED
    BY <2>1, <2>2
<1>11. ASSUME NEW q \in Procs PROVE CopyInv(q)'
  <2>1. CASE q = p
    BY <2>1, <1>1 DEF CopyInv
  <2>2. CASE q # p
    <3>1. Same(q) /\ CopyInv(q) /\ (pc[q] = "rename" => job[q].snap[k] = None)
      BY <2>2, <1>2, <1>9 DEF Roomy
    <3> QED
      BY <3>1, <1>7 DEF CopyInv, Same
  <2> QED
    BY <2>1, <2>2
<1>12. Alone'
  BY <1>9 DEF Alone
<1>13. Bytes(persisted') <= Capacity
  BY <1>2 DEF Roomy
<1>14. ASSUME NEW q \in Procs PROVE NeedInv(q)'
  <2>1. SUFFICES ASSUME pc'[q] = "measure" PROVE NeedInv(q)'
    BY DEF NeedInv
  <2>2. q # p /\ Same(q) /\ NeedInv(q)
    BY <2>1, <1>1, <1>9 DEF Roomy
  <2>3. pc[q] = "measure" /\ job'[q] = job[q] /\ Key(q)' = Key(q)
    BY <2>1, <2>2 DEF Same, Key
  <2>4. Key(q) \in Keys \ {k}
    BY <2>3, <1>2 DEF Shape, Misleads
  <2>5. SizeIn(meta')[Key(q)] = SizeIn(meta)[Key(q)]
    BY <2>4, <1>5, <1>7, SizesIn
  <2> QED
    BY <2>2, <2>3, <2>5 DEF NeedInv
<1> QED
  BY <1>8, <1>10, <1>11, <1>12, <1>13, <1>14 DEF Roomy

\* The file gets what was collected.
LEMMA RenameRoom ==
  ASSUME S3Type, S3Type', \A q \in Procs : Shape(q), Roomy, NEW p \in Procs, Rename(p)
  PROVE  Roomy'
<1>1. pc[p] = "rename" /\ UNCHANGED meta /\ job[p].snap \in Metadata /\ job[p] \in Jobs
  BY DEF Rename, S3Type, CallersType, Jobs
<1>2. CopyInv(p)
  BY DEF Roomy
<1>3. PICK newer \in SUBSET {k \in EntriesOf(job[p].snap) : meta[k] # None /\ meta[k] # job[p].snap[k]
                                                               /\ meta[k].uid = job[p].snap[k].uid} :
        persisted' = [k \in Keys |-> IF k \in newer THEN meta[k] ELSE job[p].snap[k]]
  BY DEF Rename
<1>4. \A k \in Keys : k \notin newer
  BY <1>1, <1>2 DEF CopyInv, EntriesOf
<1>5. persisted' = job[p].snap
  BY <1>1, <1>3, <1>4 DEF Metadata
<1>6. Bytes(persisted') <= Capacity
  BY <1>1, <1>2, <1>5 DEF CopyInv
<1>7. \A q \in Procs : Calm(q)
  <2>1. CASE job[p].then = "stored"
    <3>1. PICK ps, a : Finish(ps, a)
      BY <2>1 DEF Rename, StoreEnds
    <3> QED
      BY <3>1, Finished, SameIsCalm
  <2>2. CASE job[p].then # "stored"
    <3>1. /\ Others(p) /\ UNCHANGED sharedVars /\ pc'[p] = job[p].then
          /\ pc'[p] \in {"removeFile", "evictFiles"} /\ job'[p] = [job[p] EXCEPT !.snap = NoJob.snap]
      BY <2>2, RenameEffect
    <3>2. job'[p].data = job[p].data /\ job'[p].then = job[p].then /\ UNCHANGED call
      BY <1>1, <3>1 DEF Jobs, sharedVars
    <3>3. Calm(p)
      BY <1>1, <2>2, <3>1, <3>2 DEF Calm, Storing, Measured, Placing
    <3> QED
      BY <3>1, <3>3, SameIsCalm DEF Others
  <2> QED
    BY <2>1, <2>2
<1> QED
  BY <1>1, <1>6, <1>7, CalmStep

LEMMA RoomStep ==
  ASSUME S3Type, S3Type', LruInv, \A q \in Procs : Shape(q), OrderInv, metaSize \in Nat, Roomy,
         ~ crowded', [Next]_vars
  PROVE  Roomy'
<1>0. Bytes(persisted) <= Capacity
  BY DEF Roomy
<1>1. ASSUME UNCHANGED <<meta, persisted>>, NEW ps, NEW a, Finish(ps, a) PROVE Roomy'
  <2>1. \A q \in Procs : Calm(q)
    BY <1>1, Finished, SameIsCalm
  <2> QED
    BY <2>1, <1>0, <1>1, CalmStep
<1>2. ASSUME UNCHANGED <<meta, persisted>>, NEW p \in Procs, Others(p), Calm(p) PROVE Roomy'
  <2>1. \A q \in Procs : Calm(q)
    BY <1>2, SameIsCalm DEF Others
  <2> QED
    BY <2>1, <1>0, <1>2, CalmStep
<1>3. ASSUME NEW p \in Procs, NEW op \in {"get", "put", "remove"}, NEW k \in Keys,
             NEW want \in Versions \cup {None}, Call(p, op, k, want)
      PROVE  Roomy'
  <2>1. Others(p) /\ pc'[p] \in {"flight", "lookup", "upload", "delete"}
    BY <1>3, CallEffect
  <2>2. UNCHANGED <<meta, persisted>>
    BY <1>3 DEF Call, diskVars
  <2> QED
    BY <2>1, <2>2, <1>2, OutsideIsCalm
<1>4. ASSUME NEW p \in Procs, ReadCached(p) \/ Flight(p) \/ Fetch(p) \/ Upload(p) \/ Delete(p) PROVE Roomy'
  <2>1. Others(p) /\ pc'[p] \in {"flight", "readFile", "join", "fetch", "store", "forget"}
    BY <1>4, ReadCachedEffect, FlightEffect, FetchEffect, UploadEffect, DeleteEffect
  <2>2. UNCHANGED <<meta, persisted>>
    BY <1>4 DEF ReadCached, Flight, Fetch, Upload, Delete, cacheVars, diskVars
  <2> QED
    BY <2>1, <2>2, <1>2, OutsideIsCalm
<1>5. ASSUME NEW p \in Procs,
             \/ ReadFile(p) \/ FetchFails(p) \/ RemoteFails(p) \/ RemoveFile(p) \/ RenameFails(p)
             \/ StoreSkipped(p) \/ WriteFails(p)
      PROVE  Roomy'
  <2>1. UNCHANGED <<meta, persisted>>
    BY <1>5 DEF ReadFile, FetchFails, RemoteFails, RemoveFile, RenameFails, StoreSkipped, WriteFails, cacheVars,
       diskVars
  <2>2. PICK ps, a : Finish(ps, a)
    BY <1>5 DEF ReadFile, FetchFails, RemoteFails, RemoveFile, RenameFails, StoreSkipped, WriteFails, StoreEnds
  <2> QED
    BY <2>1, <2>2, <1>1
<1>6. ASSUME NEW p \in Procs, Forget(p) PROVE Roomy'
  <2>1. CASE meta[Key(p)] = None
    <3>1. Finish({p}, OS!Done(None)) /\ UNCHANGED <<meta, persisted>>
      BY <1>6, <2>1 DEF Forget, diskVars
    <3> QED
      BY <3>1, <1>1
  <2>2. CASE meta[Key(p)] # None
    <3>1. /\ Others(p) /\ pc'[p] = "persist" /\ meta' = [meta EXCEPT ![Key(p)] = None]
          /\ job'[p] = [job[p] EXCEPT !.uid = meta[Key(p)].uid, !.then = "removeFile"]
      BY <1>6, <2>2, ForgetEffect
    <3>2. job'[p].then = "removeFile"
      BY <3>1 DEF S3Type, CallersType, Jobs
    <3>3. Calm(p)
      BY <3>1, <3>2 DEF Calm, Storing, Measured, Placing
    <3>4. \A q \in Procs : Calm(q)
      BY <3>1, <3>3, SameIsCalm DEF Others
    <3>5. \A k \in Keys : meta'[k] \in {meta[k], None}
      BY <3>1 DEF S3Type, Metadata
    <3>6. UNCHANGED persisted /\ ~ Misleads({Key(p)})
      BY <1>6, <2>2 DEF Forget, diskVars
    <3>7. \A q \in Procs : pc[q] = "measure" => meta'[Key(q)] = meta[Key(q)]
      BY <3>1, <3>6 DEF Misleads, Shape, S3Type, Metadata
    <3> QED
      BY <3>4, <3>5, <3>6, <3>7, <1>0, CalmStep
  <2> QED
    BY <2>1, <2>2
<1>7. ASSUME NEW p \in Procs, EvictFile(p) PROVE Roomy'
  <2>1. UNCHANGED <<meta, persisted>> /\ pc[p] = "evictFiles" /\ job[p] \in Jobs
    BY <1>7 DEF EvictFile, S3Type, CallersType
  <2>2. CASE StoreEnds(p)
    BY <2>1, <2>2, <1>1 DEF StoreEnds
  <2>3. CASE ~ StoreEnds(p)
    <3>1. /\ Others(p) /\ UNCHANGED sharedVars /\ pc'[p] \in {"write", pc[p]}
          /\ UNCHANGED job \/ job'[p] = [job[p] EXCEPT !.drop = Tail(job[p].drop)]
      BY <1>7, <2>3, EvictFileEffect
    <3>2. job'[p].data = job[p].data /\ job'[p].then = job[p].then /\ UNCHANGED call
      BY <2>1, <3>1 DEF Jobs, sharedVars
    <3>3. Calm(p)
      BY <2>1, <3>1, <3>2 DEF Calm, Storing, Measured, Placing
    <3> QED
      BY <2>1, <3>1, <3>3, <1>2
  <2> QED
    BY <2>2, <2>3
<1>8. ASSUME NEW p \in Procs, WriteFile(p) PROVE Roomy'
  <2>1. Others(p) /\ UNCHANGED <<call, job>> /\ pc'[p] = "put"
    BY <1>8, WriteFileEffect
  <2>2. UNCHANGED <<meta, persisted>> /\ pc[p] = "write"
    BY <1>8 DEF WriteFile
  <2>3. Calm(p)
    BY <2>1, <2>2 DEF Calm, Storing, Measured, Placing
  <2> QED
    BY <2>1, <2>2, <2>3, <1>2
<1>9. CASE Crash
  <2>1. meta' = persisted /\ UNCHANGED persisted /\ \A q \in Procs : pc'[q] = "idle"
    BY <1>9 DEF Crash, diskVars
  <2>2. \A q \in Procs : ~ Measured(q)'
    BY <2>1 DEF Storing, Measured
  <2> QED
    BY <2>1, <2>2, <1>0 DEF Roomy, Alone, NeedInv, RoomInv, CopyInv, Placing
<1>10. CASE UNCHANGED vars
  <2>1. \A q \in Procs : Same(q)
    BY <1>10 DEF vars, Same, sharedVars
  <2>2. UNCHANGED <<meta, persisted>>
    BY <1>10 DEF vars, diskVars
  <2> QED
    BY <2>1, <2>2, <1>0, SameIsCalm, CalmStep
<1>11. ASSUME NEW p \in Procs, Persist(p) \/ Rename(p) \/ Store(p) \/ MeasureRoom(p) \/ Evict(p) \/ Put(p)
       PROVE  Roomy'
  BY <1>11, PersistRoom, RenameRoom, StoreRoom, MeasuredRoom, EvictRoom, PutRoom
<1> QED
  BY <1>3, <1>4, <1>5, <1>6, <1>7, <1>8, <1>9, <1>10, <1>11 DEF Next, Step

LEMMA CapInvInit == Init => CapInv
<1> SUFFICES ASSUME Init PROVE CapInv
  OBVIOUS
<1>0. S3Type /\ LruInv
  BY S3InvInit DEF S3Inv
<1>1. PICK w \in Warm :
        /\ meta = [k \in Keys |-> IF k = w THEN [uid |-> 1, hash |-> remote[k]] ELSE None]
        /\ lru = IF w = None THEN << >> ELSE <<w>>
  BY DEF Init
<1>2. remote \in Buckets /\ persisted = meta /\ metaSize = 0 /\ \A q \in Procs : pc[q] = "idle"
  BY DEF Init
<1>3. OrderInv
  <2>1. SUFFICES ASSUME NEW k \in Keys, meta[k] # None PROVE Listed(lru, k)
    BY DEF OrderInv
  <2>2. k = w /\ w # None
    BY <1>1, <2>1, S3CacheAssumption
  <2>3. lru = <<w>>
    BY <1>1, <2>2
  <2>4. 1 \in DOMAIN lru /\ lru[1] = k
    BY <2>2, <2>3
  <2> QED
    BY <2>4 DEF Listed
<1>4. meta \in Metadata
  BY <1>0 DEF S3Type
<1>5. Bytes(meta) <= Capacity
  <2>1. CASE w \notin Keys
    <3>1. \A k \in Keys : meta[k] = None
      BY <1>1, <2>1
    <3> QED
      BY <3>1, <1>4, NoEntries, S3CacheAssumption
  <2>2. CASE w \in Keys
    <3>1. Size[remote[w]] <= Capacity
      BY <1>2, <2>2, S3CacheAssumption
    <3> DEFINE n == [k \in Keys |-> None]
    <3>2. n \in Metadata /\ \A k \in Keys : n[k] = None
      BY DEF Metadata
    <3> HIDE DEF n
    <3>3. \A l \in Keys \ {w} : meta[l] = n[l]
      BY <1>1, <3>2
    <3>4. Rest(meta, w) = Rest(n, w)
      BY <1>4, <2>2, <3>2, <3>3, OtherEntry
    <3>5. Rest(n, w) = 0
      BY <2>2, <3>2, NoEntries
    <3>6. meta[w] = [uid |-> 1, hash |-> remote[w]] /\ meta[w] \in Entries \cup {None}
      BY <1>1, <1>4, <2>2 DEF Metadata
    <3>7. SizeIn(meta)[w] = Size[remote[w]] \/ SizeIn(meta)[w] = 0
      BY <3>6, <1>4, <2>2, SizesIn
    <3>8. Bytes(meta) \in Nat /\ SizeIn(meta)[w] \in Nat /\ Capacity \in Nat
      BY <1>4, <2>2, SizesIn, S3CacheAssumption
    <3> QED
      BY <3>1, <3>4, <3>5, <3>7, <3>8 DEF Rest
  <2> QED
    BY <2>1, <2>2
<1>6. \A q \in Procs : ~ Measured(q) /\ pc[q] \notin {"measure", "rename"}
  BY <1>2 DEF Storing, Measured
<1> QED
  BY <1>2, <1>3, <1>5, <1>6 DEF CapInv, Roomy, Alone, NeedInv, RoomInv, CopyInv, Placing

LEMMA CapInvNext ==
  ASSUME S3Inv, CapInv, [Next]_vars
  PROVE  CapInv'
<1>1. S3Type /\ LruInv /\ (\A q \in Procs : Shape(q)) /\ S3Type'
  BY S3InvNext DEF S3Inv
<1>2. OrderInv'
  BY <1>1, OrderStep DEF CapInv
<1>3. metaSize' \in Nat
  <2>1. ASSUME NEW p \in Procs, Persist(p) PROVE metaSize' \in Nat
    <3>1. metaSize' = EntrySize * Cardinality(Tracked)
      BY <2>1 DEF Persist
    <3>2. Cardinality(Tracked) \in Nat
      BY S3CacheAssumption, FS_Subset, FS_CardinalityType DEF Tracked
    <3>3. \A i, j \in Nat : i * j \in Nat
      OBVIOUS
    <3> QED
      BY <3>1, <3>2, <3>3, S3CacheAssumption
  <2>2. ASSUME NEW p \in Procs, Step(p), ~ Persist(p) PROVE metaSize' = metaSize
    BY <2>2, Zenon DEF Step, Call, ReadCached, ReadFile, Flight, FetchFails, Fetch, Upload, RemoteFails, Delete,
       Forget, RemoveFile, Rename, RenameFails, StoreSkipped, Store, MeasureRoom, Evict, EvictFile, WriteFile,
       WriteFails, Put, cacheVars
  <2>3. Crash => metaSize' = 0
    BY DEF Crash
  <2>4. UNCHANGED vars => metaSize' = metaSize
    BY DEF vars
  <2> QED
    BY <2>1, <2>2, <2>3, <2>4 DEF CapInv, Next
<1>4. crowded => crowded'
  <2>1. ASSUME NEW p \in Procs, Step(p) PROVE crowded => crowded'
    BY <2>1, Zenon DEF Step, Call, ReadCached, ReadFile, Flight, FetchFails, Fetch, Upload, RemoteFails, Delete,
       Forget, RemoveFile, Persist, Rename, RenameFails, StoreSkipped, Store, MeasureRoom, Evict, EvictFile,
       WriteFile, WriteFails, Put, cacheVars
  <2>2. Crash => crowded' = crowded
    BY DEF Crash
  <2>3. UNCHANGED vars => crowded' = crowded
    BY DEF vars
  <2> QED
    BY <2>1, <2>2, <2>3 DEF Next
<1>5. crowded' \/ Roomy'
  <2>1. SUFFICES ASSUME ~ crowded' PROVE Roomy'
    OBVIOUS
  <2> QED
    BY <1>1, <1>4, <2>1, RoomStep DEF CapInv
<1> QED
  BY <1>2, <1>3, <1>5 DEF CapInv

(***************************************************************************)
(* CacheFits: for every set of keys, versions and callers and every size   *)
(* of the disk, the entries fit the disk at all times, across evictions,   *)
(* replaced entries, removals, failures and restarts from the metadata     *)
(* file, unless a store measured the room while another was on its way,    *)
(* took its need from an entry that was gone or changed when it measured,  *)
(* or changed an entry that was being written out.                         *)
(***************************************************************************)
THEOREM CacheFits == Spec => []WithinCapacity
<1>1. Init => CapInv
  BY CapInvInit
<1>2. S3Inv /\ CapInv /\ [Next]_vars => CapInv'
  BY CapInvNext
<1>3. CapInv => WithinCapacity
  BY DEF CapInv, Roomy, WithinCapacity, CacheSize, Bytes
<1> QED
  BY <1>1, <1>2, <1>3, S3Invariant, PTL DEF Spec
=============================================================================
