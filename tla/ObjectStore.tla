---------------------------- MODULE ObjectStore -----------------------------
(***************************************************************************)
(* What lib/s3cache promises its callers, without the cache: an object     *)
(* store whose Get may be given the hash of the version the caller wants.  *)
(* The content of an object is a version and its ETag is the version's     *)
(* name, so an answer is sound when data and hash are the same version.    *)
(***************************************************************************)
CONSTANTS Keys, Versions, Procs, None

VARIABLES
  remote,  \* the bucket
  written, \* per key, the versions that were ever in the bucket
  call,    \* the call each caller has under way
  live,    \* versions a running Get may report: in the bucket since it began,
           \* or seen by a Get of the same key that overlaps it
  answer,  \* the answer to each caller's last call
  torn     \* keys whose cached copy is excused; see S3Cache

storeVars == <<remote, written, call, live, answer, torn>>

NoCall == [op |-> "none", key |-> None, want |-> None]
Error  == [ok |-> FALSE, data |-> None, hash |-> None]
Got(data, hash) == [ok |-> TRUE, data |-> data, hash |-> hash]
Done(hash) == [ok |-> TRUE, data |-> None, hash |-> hash]

Getting(q, k) == call[q].op = "get" /\ call[q].key = k

Init ==
  /\ remote \in [Keys -> Versions \cup {None}]
  /\ written = [k \in Keys |-> {remote[k]} \ {None}]
  /\ call = [p \in Procs |-> NoCall]
  /\ live = [p \in Procs |-> {}]
  /\ answer = [p \in Procs |-> Error]
  /\ torn = {}

\* want is the version expected by a Get, or the one a Put brings.
Call(p, op, k, want) ==
  /\ call[p] = NoCall
  /\ call' = [call EXCEPT ![p] = [op |-> op, key |-> k, want |-> want]]
  /\ live' = [live EXCEPT ![p] =
                IF op = "get" THEN ({remote[k]} \ {None})
                                   \cup UNION {live[q] : q \in {r \in Procs : Getting(r, k)}}
                              ELSE {}]
  /\ answer' = [answer EXCEPT ![p] = Error]
  /\ UNCHANGED <<remote, written>>

\* The bucket changes; running Gets of the key may report the new version.
Upload(p) ==
  /\ call[p].op = "put"
  /\ remote' = [remote EXCEPT ![call[p].key] = call[p].want]
  /\ written' = [written EXCEPT ![call[p].key] = @ \cup {call[p].want}]
  /\ live' = [q \in Procs |-> IF Getting(q, call[p].key) THEN live[q] \cup {call[p].want} ELSE live[q]]
  /\ UNCHANGED <<call, answer>>

Delete(p) ==
  /\ call[p].op = "remove"
  /\ remote' = [remote EXCEPT ![call[p].key] = None]
  /\ UNCHANGED <<written, call, live, answer>>

Sound(p) ==
  LET c == call[p]
  IN CASE c.op = "get" -> {Got(v, v) : v \in live[p] \cup (written[c.key] \cap {c.want})}
                          \cup (IF c.key \in torn THEN {Got(v, c.want) : v \in written[c.key]} ELSE {})
       [] c.op = "put" -> {Done(c.want)}
       [] OTHER        -> {Done(None)}

\* The callers in ps return: those of one flight together.
Return(ps) ==
  /\ ps # {} /\ \A p \in ps : call[p] # NoCall
  /\ \A p \in ps : answer'[p] \in Sound(p) \cup {Error}
  /\ \A p \in Procs \ ps : answer'[p] = answer[p]
  /\ answer' = [p \in Procs |-> answer'[p]]
  /\ call' = [p \in Procs |-> IF p \in ps THEN NoCall ELSE call[p]]
  /\ live' = [p \in Procs |-> IF p \in ps THEN {} ELSE live[p]]
  /\ UNCHANGED <<remote, written>>

Crash ==
  /\ call' = [p \in Procs |-> NoCall]
  /\ live' = [p \in Procs |-> {}]
  /\ UNCHANGED <<remote, written, answer>>

Quiet == UNCHANGED <<remote, written, call, live, answer>>

Next ==
  /\ torn \subseteq torn'
  /\ \/ \E p \in Procs, op \in {"get", "put", "remove"}, k \in Keys, want \in Versions \cup {None} :
          Call(p, op, k, want)
     \/ \E p \in Procs : Upload(p) \/ Delete(p)
     \/ \E ps \in SUBSET Procs : Return(ps)
     \/ Crash
     \/ Quiet

Spec == Init /\ [][Next]_storeVars
=============================================================================
