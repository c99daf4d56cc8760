---------------------------- MODULE BottinProofs ----------------------------
(* The directory of the LDAP server, for every directory, every number of  *)
(* concurrent handlers, every list of changes and every failure.           *)
EXTENDS Bottin, WellFoundedInduction, TLAPS

-----------------------------------------------------------------------------
(***************************************************************************)
(* Types.  What a Modify request computes is a recursive function of its   *)
(* changes; its type follows from a smallest counterexample.               *)
(***************************************************************************)
LEMMA Smallest ==
  ASSUME NEW T, T \subseteq Nat, T # {}
  PROVE  \E x \in T : \A y \in T : ~ (y < x)
  <1> DEFINE R == OpToRel(<, Nat)
  <1>1. IsWellFoundedOn(R, Nat)
    BY NatLessThanWellFounded
  <1>2. \A x, y \in Nat : y < x => <<y, x>> \in R
    BY DEF OpToRel
  <1> HIDE DEF R
  <1>3. \E x \in T : \A y \in T : ~ (<<y, x>> \in R)
    BY <1>1, WFMin
  <1>4. \A x \in T : x \in Nat
    OBVIOUS
  <1> QED
    BY ONLY <1>2, <1>3, <1>4

\* Induction up to n.
LEMMA UpTo ==
  ASSUME NEW n \in Nat, NEW P, 0 \in P, \A i \in 0..n : i \in P /\ i < n => i + 1 \in P
  PROVE  \A i \in 0..n : i \in P
  <1> DEFINE T == {i \in 0..n : i \notin P}
  <1>1. SUFFICES ASSUME T # {} PROVE FALSE
    OBVIOUS
  <1>2. T \subseteq Nat
    OBVIOUS
  <1>3. PICK x \in T : \A y \in T : ~ (y < x)
    BY <1>1, <1>2, Smallest
  <1>4. x \in 0..n /\ x \notin P /\ x # 0 /\ x - 1 \in 0..n /\ x - 1 < x /\ x - 1 < n /\ (x - 1) + 1 = x
    OBVIOUS
  <1>5. x - 1 \in P
    BY <1>3, <1>4
  <1> QED
    BY <1>4, <1>5

States == [attrs : Entry, changed : SUBSET Attr, adds : SUBSET DN, dels : SUBSET DN]
Start == [attrs |-> NoAttributes, changed |-> {}, adds |-> {}, dels |-> {}]

LEMMA EntryType ==
  ASSUME NEW e \in Entry
  PROVE  /\ e \in [Attr -> SUBSET Values] /\ e["member"] \subseteq DN /\ e["memberof"] \subseteq DN
         /\ \A a \in {"member", "memberof"}, vs \in SUBSET DN : [e EXCEPT ![a] = vs] \in Entry
         /\ \A a \in {"objectclass", "entryuuid", "userpassword"}, vs \in SUBSET Values : [e EXCEPT ![a] = vs] \in Entry
  BY DEF Entry, Attr, Values

LEMMA ApplyType ==
  ASSUME NEW prev \in Entry, NEW st \in States, NEW ch \in Change
  PROVE  ApplyChange(prev, st, ch) \in States
  <1> DEFINE a   == ch.attr
             old == IF a \in st.changed THEN st.attrs[a] ELSE prev[a]
             new == CASE ch.op = "add" -> old \cup ch.vals
                      [] ch.op = "delete" /\ ch.vals = {} -> {}
                      [] ch.op = "delete" -> old \ ch.vals
                      [] ch.op = "replace" -> ch.vals
  <1>1. a \in Attr /\ ch.op \in Operation /\ ch.vals \subseteq Values /\ (a = "member" => ch.vals \subseteq DN)
        /\ a \in {"member", "objectclass", "userpassword"}
    BY DEF Change, Attr, Values
  <1>2. st.attrs \in Entry /\ st.changed \in SUBSET Attr /\ st.adds \in SUBSET DN /\ st.dels \in SUBSET DN
    BY DEF States
  <1>3. old \subseteq Values /\ (a = "member" => old \subseteq DN)
    BY <1>1, <1>2, EntryType
  <1>4. new \subseteq old \cup ch.vals
    BY <1>1 DEF Operation
  <1> HIDE DEF new, old
  <1>5. new \subseteq Values /\ (a = "member" => new \subseteq DN)
    BY <1>1, <1>3, <1>4
  <1>6. [st.attrs EXCEPT ![a] = new] \in Entry
    BY <1>1, <1>2, <1>5, EntryType
  <1>7. ApplyChange(prev, st, ch) =
          [attrs |-> [st.attrs EXCEPT ![a] = new], changed |-> st.changed \cup {a},
           adds |-> st.adds \cup (IF a = "member" THEN new \ old ELSE {}),
           dels |-> st.dels \cup (IF a = "member" THEN old \ new ELSE {})]
    BY DEF ApplyChange, new, old
  <1>8. /\ st.changed \cup {a} \in SUBSET Attr
        /\ st.adds \cup (IF a = "member" THEN new \ old ELSE {}) \in SUBSET DN
        /\ st.dels \cup (IF a = "member" THEN old \ new ELSE {}) \in SUBSET DN
    BY <1>1, <1>2, <1>3, <1>5
  <1> QED
    BY <1>6, <1>7, <1>8 DEF States

\* The states after each change exist, and what every change preserves holds
\* of the last one.
LEMMA ModifiedIn ==
  ASSUME NEW prev, NEW changes \in ChangeLists, NEW S, Start \in S,
         \A st \in S, ch \in Change : ApplyChange(prev, st, ch) \in S
  PROVE  Modified(prev, changes) \in S
  <1> DEFINE n == Len(changes)
             After(f, i) == IF i = 0 THEN Start ELSE ApplyChange(prev, f[i - 1], changes[i])
  <1>1. n \in Nat /\ changes \in Seq(Change) /\ \A i \in 1..n : changes[i] \in Change
    BY ChangesAssumption
  <1>2. \E f : f = [i \in 0..n |-> After(f, i)]
    <2> DEFINE P == {k \in 0..n : \E f \in [0..n -> S] : \A i \in 0..k : f[i] = After(f, i)}
    <2>1. 0 \in P
      <3>1. PICK f \in [0..n -> S] : f = [i \in 0..n |-> Start]
        OBVIOUS
      <3>2. \A i \in 0..0 : f[i] = After(f, i)
        BY <1>1, <3>1
      <3> QED
        BY <1>1, <3>2
    <2>2. ASSUME NEW k \in 0..n, k \in P, k < n PROVE k + 1 \in P
      <3>1. PICK f \in [0..n -> S] : \A i \in 0..k : f[i] = After(f, i)
        BY <2>2
      <3> DEFINE g == [f EXCEPT ![k + 1] = ApplyChange(prev, f[k], changes[k + 1])]
      <3>2. k \in Nat /\ k + 1 \in 1..n /\ k + 1 \in 0..n /\ k + 1 # 0 /\ (k + 1) - 1 = k
        BY <1>1, <2>2
      <3>3. ApplyChange(prev, f[k], changes[k + 1]) \in S
        BY <1>1, <3>2
      <3>4. g \in [0..n -> S] /\ g[k + 1] = ApplyChange(prev, f[k], changes[k + 1])
            /\ \A i \in 0..k : g[i] = f[i]
        BY <3>2, <3>3
      <3> HIDE DEF g
      <3>5. \A i \in 0..k : g[i] = After(g, i)
        <4>1. \A i \in 0..k : i # 0 => i - 1 \in 0..k
          BY <3>2
        <4> QED
          BY <3>1, <3>4, <4>1
      <3>6. g[k + 1] = After(g, k + 1)
        BY <3>2, <3>4
      <3>7. \A i \in 0..(k + 1) : i \in 0..k \/ i = k + 1
        BY <3>2
      <3>8. \A i \in 0..(k + 1) : g[i] = After(g, i)
        BY <3>5, <3>6, <3>7
      <3> QED
        BY <3>2, <3>4, <3>8
    <2>3. n \in P
      <3> HIDE DEF P
      <3>1. \A i \in 0..n : i \in P
        BY <1>1, <2>1, <2>2, UpTo
      <3> QED
        BY <1>1, <3>1
    <2>4. PICK f \in [0..n -> S] : \A i \in 0..n : f[i] = After(f, i)
      BY <2>3
    <2>5. f = [i \in 0..n |-> After(f, i)]
      BY <2>4
    <2> QED
      BY <2>5
  <1>3. PICK f : f = [i \in 0..n |-> After(f, i)] /\ Modified(prev, changes) = f[n]
    BY <1>2 DEF Modified, Start
  <1>4. \A i \in 0..n : f[i] \in S
    <2> DEFINE P == {k \in 0..n : f[k] \in S}
    <2>1. 0 \in P
      BY <1>1, <1>3
    <2>2. ASSUME NEW k \in 0..n, k \in P, k < n PROVE k + 1 \in P
      <3>1. k \in Nat /\ k + 1 \in 1..n /\ k + 1 \in 0..n /\ k + 1 # 0 /\ (k + 1) - 1 = k
        BY <1>1, <2>2
      <3>2. f[k + 1] = ApplyChange(prev, f[k], changes[k + 1])
        BY <1>3, <3>1
      <3> QED
        BY <1>1, <2>2, <3>1, <3>2
    <2> HIDE DEF P
    <2>3. \A i \in 0..n : i \in P
      BY <1>1, <2>1, <2>2, UpTo
    <2> QED
      BY <2>3 DEF P
  <1> QED
    BY <1>1, <1>3, <1>4

LEMMA ModifiedType ==
  ASSUME NEW prev \in Entry, NEW changes \in ChangeLists
  PROVE  Modified(prev, changes) \in States
  <1>1. NoAttributes \in Entry
    BY DEF NoAttributes, Entry, Attr
  <1>2. Start \in States
    BY <1>1 DEF Start, States
  <1> QED
    BY <1>2, ApplyType, ModifiedIn

-----------------------------------------------------------------------------
(***************************************************************************)
(* The tree.  A request has to do with the entries it is about and with    *)
(* those it will write or has written; when no two requests overlap these  *)
(* are apart, so what the handler checked still holds when it commits.     *)
(***************************************************************************)
Span(r) == Footprint(r) \cup r.wrote

Apart == \A c, e \in Clients : c # e /\ req[c].busy /\ req[e].busy => Span(req[c]) \cap Span(req[e]) = {}

\* What a commit of r would do to the tree: an entry that is stored is there
\* or has its parent, one that is deleted has no children.
Promises(r) ==
  r.busy =>
    /\ r.dn \in r.wrote
    /\ \A x \in r.wrote :
         IF r.staged[x] # NoEntry
         THEN Exists(x) \/ (x = r.dn /\ x # Base /\ Exists(Parent[x]))
         ELSE x = r.dn /\ \A y \in DN \ {Base} : Parent[y] = x => ~ Exists(y)

TreeInv ==
  /\ BottinTypeOK
  /\ \A c \in Clients : req[c].jobs # {} => req[c].busy
  /\ "raced" \notin causes => Closed(view) /\ Apart /\ \A c \in Clients : Promises(req[c])

LEMMA TreeTypes ==
  ASSUME TreeInv, NEW c \in Clients
  PROVE  /\ req[c] \in Requests /\ req[c].dn \in DN /\ req[c].jobs \subseteq Job /\ req[c].wrote \subseteq DN
         /\ req[c].staged \in Directory /\ req[c].busy \in BOOLEAN
         /\ \A j \in req[c].jobs : j.at \in DN /\ j.who \in DN /\ j.attr \in {"member", "memberof"}
         /\ view \in Directory
  BY DEF TreeInv, BottinTypeOK, Requests, Job

\* A parent is not the entry itself.
LEMMA ParentDiffers ==
  ASSUME NEW d \in DN \ {Base}
  PROVE  Parent[d] \in DN /\ Parent[d] # d
  <1>1. Parent[d] \in DN /\ Depth[d] \in Nat /\ Depth[d] = Depth[Parent[d]] + 1
    BY NamesAssumption
  <1> QED
    BY <1>1

LEMMA IdleType == IdleReq \in Requests /\ IdleReq.jobs = {} /\ IdleReq.busy = FALSE
  BY NamesAssumption DEF IdleReq, Requests, NoChange, Directory

\* A request is accepted: unless it is recorded as raced, its entries are apart
\* from those of the others.
LEMMA TreeAccept ==
  ASSUME TreeInv, NEW c \in Clients, ~ req[c].busy, NEW d \in DN, NEW jobs \in SUBSET Job,
         NEW entry \in Entry \cup {NoEntry}, NEW cs \in SUBSET Causes, Accept(c, Started(d, jobs, entry), cs),
         IF entry # NoEntry
         THEN Exists(d) \/ (d # Base /\ Exists(Parent[d]))
         ELSE \A y \in DN \ {Base} : Parent[y] = d => ~ Exists(y)
  PROVE  TreeInv'
  <1> DEFINE r == Started(d, jobs, entry)
  <1>1. /\ r \in Requests /\ r.busy = TRUE /\ r.dn = d /\ r.jobs = jobs /\ r.wrote = {d} /\ r.staged[d] = entry
    <2>1. [NoChange EXCEPT ![d] = entry] \in Directory /\ [NoChange EXCEPT ![d] = entry][d] = entry
      BY DEF NoChange, Directory
    <2> QED
      BY <2>1 DEF Started, Requests
  <1>2. /\ req' = [req EXCEPT ![c] = r] /\ ops' = ops + 1 /\ UNCHANGED <<view, faults, restarts>>
        /\ causes' = causes \cup cs \cup (IF Overlaps(c, r) THEN {"raced"} ELSE {})
    BY DEF Accept
  <1> HIDE DEF r
  <1>3. req'[c] = r /\ (\A e \in Clients \ {c} : req'[e] = req[e]) /\ req' \in [Clients -> Requests]
    BY <1>1, <1>2 DEF TreeInv, BottinTypeOK
  <1>4. BottinTypeOK'
    <2>1. causes' \subseteq Causes
      BY <1>2 DEF TreeInv, BottinTypeOK, Causes
    <2> QED
      BY <1>2, <1>3, <2>1 DEF TreeInv, BottinTypeOK
  <1>5. \A e \in Clients : req'[e].jobs # {} => req'[e].busy
    BY <1>1, <1>2, <1>3 DEF TreeInv
  <1>6. ASSUME "raced" \notin causes'
        PROVE  Closed(view)' /\ Apart' /\ \A e \in Clients : Promises(req[e])'
    <2>1. ~ Overlaps(c, r) /\ "raced" \notin causes
      BY <1>2, <1>6
    <2>2. Closed(view)'
      BY <1>2, <2>1 DEF TreeInv, Closed
    <2>3. \A e \in Clients \ {c} : req[e].busy => Span(r) \cap Span(req[e]) = {}
      <3>1. Span(r) = Footprint(r)
        BY <1>1 DEF Span, Footprint
      <3> QED
        BY <2>1, <3>1 DEF Overlaps, Span
    <2>4. Apart'
      <3>1. SUFFICES ASSUME NEW a \in Clients, NEW e \in Clients, a # e, req'[a].busy, req'[e].busy
                     PROVE  Span(req'[a]) \cap Span(req'[e]) = {}
        BY DEF Apart, Span, Footprint
      <3>2. CASE a = c
        BY <1>3, <2>3, <3>1, <3>2
      <3>3. CASE e = c
        BY <1>3, <2>3, <3>1, <3>3
      <3>4. CASE a # c /\ e # c
        BY <1>3, <2>1, <3>1, <3>4 DEF TreeInv, Apart
      <3> QED
        BY <3>2, <3>3, <3>4
    <2>5. ASSUME NEW e \in Clients PROVE Promises(req[e])'
      <3>1. \A x : Exists(x)' <=> Exists(x)
        BY <1>2 DEF Exists
      <3>2. CASE e = c
        BY <1>1, <1>3, <3>1, <3>2 DEF Promises
      <3>3. CASE e # c
        <4>1. Promises(req[e])
          BY <2>1 DEF TreeInv
        <4> QED
          BY <1>3, <3>1, <3>3, <4>1 DEF Promises
      <3> QED
        BY <3>2, <3>3
    <2> QED
      BY <2>2, <2>4, <2>5
  <1> QED
    BY <1>4, <1>5, <1>6 DEF TreeInv

\* A request ends, or makes a call that leaves its entries among those it had;
\* the directory keeps its entries.
LEMMA TreeFrame ==
  ASSUME TreeInv, BottinTypeOK', causes \subseteq causes',
         \A d \in DN : Exists(d)' <=> Exists(d), NEW c \in Clients,
         \A e \in Clients \ {c} : req'[e] = req[e],
         req'[c].jobs # {} => req'[c].busy,
         req'[c].busy => req[c].busy /\ Span(req'[c]) \subseteq Span(req[c]),
         "raced" \notin causes /\ Promises(req[c]) => Promises(req[c])'
  PROVE  TreeInv'
  <1>1. \A e \in Clients : req'[e].jobs # {} => req'[e].busy
    BY DEF TreeInv
  <1>2. ASSUME "raced" \notin causes'
        PROVE  Closed(view)' /\ Apart' /\ \A e \in Clients : Promises(req[e])'
    <2>1. "raced" \notin causes
      BY <1>2
    <2>2. Closed(view)'
      BY <2>1, NamesAssumption DEF TreeInv, Closed, Exists
    <2>3. Apart'
      <3>1. SUFFICES ASSUME NEW a \in Clients, NEW e \in Clients, a # e, req'[a].busy, req'[e].busy
                     PROVE  Span(req'[a]) \cap Span(req'[e]) = {}
        BY DEF Apart, Span, Footprint
      <3>2. \A b \in Clients : req'[b].busy => req[b].busy /\ Span(req'[b]) \subseteq Span(req[b])
        OBVIOUS
      <3>3. Span(req[a]) \cap Span(req[e]) = {}
        BY <2>1, <3>1, <3>2 DEF TreeInv, Apart
      <3> QED
        BY <3>1, <3>2, <3>3
    <2>4. ASSUME NEW e \in Clients PROVE Promises(req[e])'
      <3>1. Promises(req[e])
        BY <2>1 DEF TreeInv
      <3>2. CASE e = c
        BY <2>1, <3>1, <3>2
      <3>3. CASE e # c
        <4>1. req'[e] = req[e] /\ req[e].wrote \subseteq DN /\ req[e].dn \in DN
          BY <3>3, TreeTypes
        <4>2. \A x \in DN \ {Base} : Parent[x] \in DN
          BY NamesAssumption
        <4> QED
          BY <3>1, <4>1, <4>2 DEF Promises
      <3> QED
        BY <3>2, <3>3
    <2> QED
      BY <2>2, <2>3, <2>4
  <1> QED
    BY <1>1, <1>2 DEF TreeInv

\* The request of a client ends without touching the tree.
LEMMA TreeEnds ==
  ASSUME TreeInv, NEW c \in Clients, req' = [req EXCEPT ![c] = IdleReq], UNCHANGED <<restarts, ops>>,
         {faults'} \subseteq Nat, view' \in Directory, \A d \in DN : Exists(d)' <=> Exists(d),
         causes \subseteq causes', causes' \subseteq Causes
  PROVE  TreeInv'
  <1>1. req'[c] = IdleReq /\ (\A e \in Clients \ {c} : req'[e] = req[e]) /\ req' \in [Clients -> Requests]
    BY IdleType DEF TreeInv, BottinTypeOK
  <1>2. BottinTypeOK'
    BY <1>1 DEF TreeInv, BottinTypeOK
  <1>3. Promises(req[c])'
    BY <1>1, IdleType DEF Promises
  <1> QED
    BY <1>1, <1>2, <1>3, IdleType, TreeFrame

\* membershipAdd and membershipRemove on an entry that is there.
LEMMA TreeCall ==
  ASSUME TreeInv, NEW c \in Clients, NEW j \in req[c].jobs, Exists(j.at)
  PROVE  /\ view[j.at] \in Entry
         /\ NewValues(j) \subseteq DN
         /\ [view[j.at] EXCEPT ![j.attr] = NewValues(j)] \in Entry
         /\ [view EXCEPT ![j.at] = [view[j.at] EXCEPT ![j.attr] = NewValues(j)]] \in Directory
         /\ \A d \in DN : [view EXCEPT ![j.at] = [view[j.at] EXCEPT ![j.attr] = NewValues(j)]][d] = NoEntry
                          <=> view[d] = NoEntry
  <1>1. j.at \in DN /\ j.who \in DN /\ j.attr \in {"member", "memberof"} /\ view \in Directory
    BY TreeTypes
  <1>2. view[j.at] \in Entry
    BY <1>1 DEF Directory, Exists
  <1>3. NewValues(j) \subseteq DN
    BY <1>1, <1>2, EntryType DEF NewValues
  <1> DEFINE entry == [view[j.at] EXCEPT ![j.attr] = NewValues(j)]
  <1>4. entry \in Entry
    BY <1>1, <1>2, <1>3, EntryType
  <1>5. entry # NoEntry
    BY <1>4, DirectoriesAssumption
  <1> HIDE DEF entry
  <1>6. [view EXCEPT ![j.at] = entry] \in Directory
    BY <1>1, <1>4 DEF Directory
  <1>7. \A d \in DN : [view EXCEPT ![j.at] = entry][d] = IF d = j.at THEN entry ELSE view[d]
    BY <1>1 DEF Directory
  <1>8. \A d \in DN : [view EXCEPT ![j.at] = entry][d] = NoEntry <=> view[d] = NoEntry
    BY <1>5, <1>7 DEF Exists
  <1> QED
    BY <1>2, <1>3, <1>4, <1>6, <1>8 DEF entry

LEMMA TreeAssign ==
  ASSUME TreeInv, NEW c \in Clients, NEW j \in req[c].jobs, Exists(j.at), Assign(c, j, NewValues(j)),
         UNCHANGED <<ops, faults, restarts, causes>>
  PROVE  TreeInv'
  <1> DEFINE entry == [view[j.at] EXCEPT ![j.attr] = NewValues(j)]
             r == Stage(req[c], j, entry)
  <1>1. entry \in Entry /\ view' = [view EXCEPT ![j.at] = entry] /\ view' \in Directory
        /\ \A d \in DN : view'[d] = NoEntry <=> view[d] = NoEntry
    BY TreeCall DEF Assign
  <1>2. entry # NoEntry
    BY <1>1, DirectoriesAssumption
  <1>3. req' = [req EXCEPT ![c] = r]
    BY DEF Assign
  <1> HIDE DEF entry
  <1>4. j.at \in DN /\ req[c] \in Requests
    BY TreeTypes
  <1>5. r.jobs = req[c].jobs \ {j} /\ r.wrote = req[c].wrote \cup {j.at} /\ r.dn = req[c].dn
        /\ r.busy = req[c].busy /\ r \in Requests
    <2>1. [req[c].staged EXCEPT ![j.at] = entry] \in Directory
      BY <1>1, <1>4 DEF Requests, Directory
    <2> QED
      BY <1>4, <2>1 DEF Stage, Requests
  <1>6. \A x \in DN : r.staged[x] = IF x = j.at THEN entry ELSE req[c].staged[x]
    BY <1>4 DEF Stage, Requests, Directory
  <1> HIDE DEF r
  <1>7. req'[c] = r /\ (\A e \in Clients \ {c} : req'[e] = req[e]) /\ req' \in [Clients -> Requests]
    BY <1>3, <1>5 DEF TreeInv, BottinTypeOK
  <1>8. BottinTypeOK'
    BY <1>1, <1>7 DEF TreeInv, BottinTypeOK
  <1>9. \A d \in DN : Exists(d)' <=> Exists(d)
    BY <1>1 DEF Exists
  <1>10. Span(r) \subseteq Span(req[c])
    BY <1>5 DEF Span, Footprint
  <1>11. ASSUME Promises(req[c]) PROVE Promises(req[c])'
    <2>1. r.wrote \subseteq DN /\ \A x \in DN \ {Base} : Parent[x] \in DN
      BY <1>5, NamesAssumption DEF Requests
    <2>2. SUFFICES ASSUME r.busy, NEW x \in r.wrote
                   PROVE  /\ r.dn \in r.wrote
                          /\ IF r.staged[x] # NoEntry
                             THEN Exists(x)' \/ (x = r.dn /\ x # Base /\ Exists(Parent[x])')
                             ELSE x = r.dn /\ \A y \in DN \ {Base} : Parent[y] = x => ~ Exists(y)'
      BY <1>5, <1>7 DEF Promises
    <2>3. r.dn \in r.wrote
      BY <1>5, <1>11, <2>2 DEF Promises
    <2>4. CASE x = j.at
      BY <1>2, <1>4, <1>6, <1>9, <2>3, <2>4
    <2>5. CASE x # j.at
      <3>1. x \in req[c].wrote /\ r.staged[x] = req[c].staged[x]
        BY <1>5, <1>6, <2>1, <2>5
      <3> QED
        BY <1>5, <1>9, <1>11, <2>1, <2>2, <2>3, <3>1 DEF Promises
    <2> QED
      BY <2>4, <2>5
  <1>12. req[c].busy
    BY DEF TreeInv
  <1> QED
    BY <1>5, <1>7, <1>8, <1>9, <1>10, <1>11, <1>12, TreeFrame

LEMMA TreeSkip ==
  ASSUME TreeInv, NEW c \in Clients, NEW j \in req[c].jobs, Skip(c, j),
         UNCHANGED <<ops, faults, restarts>>, causes \subseteq causes', causes' \subseteq Causes
  PROVE  TreeInv'
  <1> DEFINE r == [req[c] EXCEPT !.jobs = @ \ {j}]
  <1>1. req' = [req EXCEPT ![c] = r] /\ view' = view
    BY DEF Skip
  <1>2. r \in Requests /\ r.jobs = req[c].jobs \ {j} /\ r.wrote = req[c].wrote /\ r.dn = req[c].dn
        /\ r.busy = req[c].busy /\ r.staged = req[c].staged
    BY TreeTypes DEF Requests
  <1> HIDE DEF r
  <1>3. req'[c] = r /\ (\A e \in Clients \ {c} : req'[e] = req[e]) /\ req' \in [Clients -> Requests]
    BY <1>1, <1>2 DEF TreeInv, BottinTypeOK
  <1>4. BottinTypeOK'
    BY <1>1, <1>3 DEF TreeInv, BottinTypeOK
  <1>5. \A d : Exists(d)' <=> Exists(d)
    BY <1>1 DEF Exists
  <1>6. Span(r) \subseteq Span(req[c])
    BY <1>2 DEF Span, Footprint
  <1>7. Promises(req[c]) => Promises(req[c])'
    BY <1>2, <1>3, <1>5 DEF Promises
  <1>8. req[c].busy
    BY DEF TreeInv
  <1> QED
    BY <1>2, <1>3, <1>4, <1>5, <1>6, <1>7, <1>8, TreeFrame

\* A commit stores entries that are there or whose parents are, and deletes
\* one without children; the other requests are about other entries.
LEMMA TreeCommit == ASSUME TreeInv, NEW c \in Clients, Commit(c) PROVE TreeInv'
  <1> DEFINE r == req[c]
  <1>1. r \in Requests /\ r.busy /\ r.wrote \subseteq DN /\ r.staged \in Directory /\ r.dn \in DN
    BY TreeTypes DEF Commit
  <1>2. view' \in Directory
    BY <1>1, TreeTypes DEF Commit, Apply, Directory
  <1>3. \A d \in DN : Exists(d)' <=> (IF d \in r.wrote THEN r.staged[d] # NoEntry ELSE Exists(d))
    BY DEF Commit, Apply, Exists
  <1>5. req'[c] = IdleReq /\ (\A e \in Clients \ {c} : req'[e] = req[e]) /\ req' \in [Clients -> Requests]
    BY IdleType DEF Commit, TreeInv, BottinTypeOK
  <1>6. BottinTypeOK'
    BY <1>2, <1>5 DEF Commit, TreeInv, BottinTypeOK
  <1>7. \A e \in Clients : req'[e].jobs # {} => req'[e].busy
    BY <1>5, IdleType DEF TreeInv
  <1>8. ASSUME "raced" \notin causes'
        PROVE  Closed(view)' /\ Apart' /\ \A e \in Clients : Promises(req[e])'
    <2>1. "raced" \notin causes /\ Closed(view) /\ Apart /\ \A e \in Clients : Promises(req[e])
      BY <1>8 DEF Commit, TreeInv
    <2>2. /\ r.dn \in r.wrote
          /\ \A x \in r.wrote : IF r.staged[x] # NoEntry
                                THEN Exists(x) \/ (x = r.dn /\ x # Base /\ Exists(Parent[x]))
                                ELSE x = r.dn /\ \A y \in DN \ {Base} : Parent[y] = x => ~ Exists(y)
      BY <1>1, <2>1 DEF Promises
    <2> HIDE DEF r
    <2>3. ASSUME NEW d \in DN \ {Base}, Exists(d)' PROVE Exists(Parent[d])'
      <3>1. Parent[d] \in DN /\ Parent[d] # d
        BY ParentDiffers
      <3>2. Exists(d) \/ d = r.dn
        BY <1>3, <2>2, <2>3
      <3>3. Exists(Parent[d])
        BY <1>3, <2>1, <2>2, <2>3 DEF Closed, Exists
      <3>4. ASSUME Parent[d] \in r.wrote, r.staged[Parent[d]] = NoEntry PROVE FALSE
        BY <2>2, <3>1, <3>2, <3>4
      <3> QED
        BY <1>3, <3>1, <3>3, <3>4
    <2>4. Closed(view)'
      BY <2>3 DEF Closed, Exists
    <2>5. Apart'
      <3>1. SUFFICES ASSUME NEW a \in Clients, NEW e \in Clients, a # e, req'[a].busy, req'[e].busy
                     PROVE  Span(req'[a]) \cap Span(req'[e]) = {}
        BY DEF Apart, Span, Footprint
      <3>2. a # c /\ e # c
        BY <1>5, <3>1, IdleType
      <3> QED
        BY <1>5, <2>1, <3>1, <3>2 DEF Apart
    <2>6. ASSUME NEW e \in Clients PROVE Promises(req[e])'
      <3>1. CASE e = c
        BY <1>5, <3>1, IdleType DEF Promises
      <3>2. CASE e # c /\ req[e].busy
        <4> DEFINE q == req[e]
        <4>1. req'[e] = q /\ q.wrote \subseteq DN /\ q.dn \in DN
          BY <1>5, <3>2, TreeTypes
        <4>2. Span(q) \cap Span(r) = {}
          BY <1>1, <2>1, <3>2 DEF Apart, r
        <4>3. q.wrote \subseteq Span(q) /\ r.wrote \subseteq Span(r)
          BY DEF Span
        <4>4. (q.dn # Base => Parent[q.dn] \in Span(q)) /\ (r.dn # Base => Parent[r.dn] \in Span(r))
          BY DEF Span, Footprint
        <4>5. q.busy /\ Promises(q)
          BY <2>1, <3>2
        <4> HIDE DEF q
        <4>6. q.dn \in q.wrote
          BY <4>5 DEF Promises
        <4>7. ASSUME NEW x \in q.wrote, q.staged[x] # NoEntry
              PROVE  Exists(x)' \/ (x = q.dn /\ x # Base /\ Exists(Parent[x])')
          <5>1. Exists(x) \/ (x = q.dn /\ x # Base /\ Exists(Parent[x]))
            BY <4>5, <4>7 DEF Promises
          <5>2. x \in DN /\ x \notin r.wrote
            BY <4>1, <4>2, <4>3
          <5>3. CASE Exists(x)
            BY <1>3, <5>2, <5>3
          <5>4. CASE x = q.dn /\ x # Base /\ Exists(Parent[x])
            <6>1. Parent[x] \in DN /\ Parent[x] \notin r.wrote
              BY <4>2, <4>3, <4>4, <5>2, <5>4, NamesAssumption
            <6> QED
              BY <1>3, <5>4, <6>1
          <5> QED
            BY <5>1, <5>3, <5>4
        <4>8. ASSUME NEW x \in q.wrote, q.staged[x] = NoEntry
              PROVE  x = q.dn /\ \A y \in DN \ {Base} : Parent[y] = x => ~ Exists(y)'
          <5>1. x = q.dn /\ \A y \in DN \ {Base} : Parent[y] = x => ~ Exists(y)
            BY <4>5, <4>8 DEF Promises
          <5>2. ASSUME NEW y \in DN \ {Base}, Parent[y] = x, Exists(y)' PROVE FALSE
            <6>1. ~ Exists(y) /\ y \in r.wrote /\ r.staged[y] # NoEntry
              BY <1>3, <5>1, <5>2
            <6>2. y = r.dn
              BY <2>2, <6>1
            <6> QED
              BY <4>2, <4>3, <4>4, <5>2, <6>2
          <5> QED
            BY <5>1, <5>2
        <4> QED
          BY <4>1, <4>6, <4>7, <4>8 DEF Promises
      <3>3. CASE e # c /\ ~ req[e].busy
        BY <1>5, <3>3 DEF Promises
      <3> QED
        BY <3>1, <3>2, <3>3
    <2> QED
      BY <2>4, <2>5, <2>6
  <1> QED
    BY <1>6, <1>7, <1>8 DEF TreeInv

\* After a crash the base entry is there and no request is under way.
LEMMA TreeRestart == ASSUME TreeInv, Restart PROVE TreeInv'
  <1>1. BaseEntry \in Entry /\ BaseEntry # NoEntry
    <2>1. BaseEntry \in Entry
      BY DEF BaseEntry, NoAttributes, Entry, Attr, Values
    <2> QED
      BY <2>1, DirectoriesAssumption
  <1>2. Base \in DN /\ NoChange \in Directory
    BY NamesAssumption DEF NoChange, Directory
  <1>3. view' \in Directory /\ \A d \in DN : view'[d] = IF d = Base THEN BaseEntry ELSE NoEntry
    BY <1>1, <1>2 DEF Restart, Directory, NoChange
  <1>4. BottinTypeOK' /\ \A c \in Clients : req'[c] = IdleReq
    BY <1>3, IdleType DEF Restart, TreeInv, BottinTypeOK
  <1>5. \A c \in Clients : req'[c].jobs # {} => req'[c].busy
    BY <1>4, IdleType
  <1>6. Closed(view)'
    BY <1>3 DEF Closed
  <1>7. Apart' /\ \A c \in Clients : Promises(req[c])'
    BY <1>4, IdleType DEF Apart, Promises
  <1> QED
    BY <1>4, <1>5, <1>6, <1>7 DEF TreeInv

LEMMA TreeInit == ASSUME Init PROVE TreeInv
  <1>1. view \in Directory /\ Closed(view)
    BY DirectoriesAssumption DEF Init
  <1>2. req \in [Clients -> Requests] /\ \A c \in Clients : req[c] = IdleReq
    BY IdleType DEF Init
  <1>3. BottinTypeOK
    BY <1>1, <1>2 DEF Init, BottinTypeOK, Causes
  <1>4. Apart /\ \A c \in Clients : Promises(req[c])
    BY <1>1, <1>2, IdleType DEF Apart, Promises
  <1> QED
    BY <1>1, <1>2, <1>3, <1>4, IdleType DEF TreeInv

LEMMA JobTypes ==
  ASSUME NEW d \in DN, NEW ms \in SUBSET DN
  PROVE  /\ AddJobs(d, ms) \subseteq Job /\ RemoveJobs(d, ms) \subseteq Job
         /\ {[do |-> "remove", attr |-> "member", at |-> g, who |-> d, stage |-> 1] : g \in ms} \subseteq Job
  BY DEF AddJobs, RemoveJobs, Job

LEMMA TreeNext == TreeInv /\ [Next]_vars => TreeInv'
  <1> SUFFICES ASSUME TreeInv, [Next]_vars PROVE TreeInv'
    OBVIOUS
  <1>0. /\ NoEntry \notin Entry /\ view \in Directory /\ \A d \in DN : Exists(d) => view[d] \in Entry
        /\ \A d \in DN \ {Base} : Parent[d] \in DN
    BY DirectoriesAssumption, NamesAssumption DEF TreeInv, BottinTypeOK, Directory, Exists
  <1>1. CASE UNCHANGED vars
    BY <1>1 DEF vars, TreeInv, BottinTypeOK, Apart, Span, Footprint, Promises, Exists, Closed
  <1>2. CASE Restart
    BY <1>2, TreeRestart
  <1>3. ASSUME NEW c \in Clients, Handle(c) PROVE TreeInv'
    <2>1. ASSUME NEW d \in DN, NEW ms \in SUBSET DN, Add(c, d, ms) PROVE TreeInv'
      <3> DEFINE entry == [NoAttributes EXCEPT !["objectclass"] = {"top"}, !["entryuuid"] = {"id"}, !["member"] = ms]
      <3>1. entry \in Entry
        BY DEF NoAttributes, Entry, Attr, Values
      <3> HIDE DEF entry
      <3>2. Accept(c, Started(d, AddJobs(d, ms), entry), {}) /\ ~ req[c].busy /\ d # Base /\ Exists(Parent[d])
        BY <2>1 DEF Add, Ready, entry
      <3> QED
        BY <1>0, <3>1, <3>2, JobTypes, TreeAccept
    <2>2. ASSUME NEW d \in DN, Del(c, d) PROVE TreeInv'
      <3> DEFINE jobs == {[do |-> "remove", attr |-> "member", at |-> g, who |-> d, stage |-> 1]
                             : g \in view[d]["memberof"]} \cup RemoveJobs(d, view[d]["member"])
      <3>1. List(d) = {d} /\ ~ req[c].busy /\ Accept(c, Started(d, jobs, NoEntry), {})
        BY <2>2 DEF Del, Ready
      <3>2. Exists(d)
        BY <3>1 DEF List
      <3>3. jobs \subseteq Job
        BY <1>0, <3>2, EntryType, JobTypes
      <3> HIDE DEF jobs
      <3>4. ASSUME NEW y \in DN \ {Base}, Parent[y] = d, Exists(y) PROVE FALSE
        <4>1. y \in List(d)
          BY <3>4, NamesAssumption DEF List
        <4> QED
          BY <3>1, <3>4, <4>1, ParentDiffers
      <3> QED
        BY <3>1, <3>3, <3>4, TreeAccept
    <2>3. ASSUME NEW d \in DN, Extended(c, d) PROVE TreeInv'
      <3> DEFINE entry == [view[d] EXCEPT !["userpassword"] = {c}]
      <3>1. Exists(d) /\ ~ req[c].busy /\ Accept(c, Started(d, {}, entry), {})
        BY <2>3 DEF Extended, Ready
      <3>2. {c} \in SUBSET Values
        BY DEF Values
      <3>3. entry \in Entry
        BY <1>0, <3>1, <3>2, EntryType
      <3> HIDE DEF entry
      <3> QED
        BY <1>0, <3>1, <3>3, TreeAccept
    <2>4. ASSUME NEW d \in DN, NEW chs \in ChangeLists, Modify(c, d, chs) PROVE TreeInv'
      <3> DEFINE m == Modified(view[d], chs)
                 jobs == AddJobs(d, m.adds) \cup RemoveJobs(d, m.dels)
      <3>1. PICK cs \in SUBSET Causes : Exists(d) /\ ~ req[c].busy /\ Accept(c, Started(d, jobs, m.attrs), cs)
        BY <2>4 DEF Modify, Ready, Causes
      <3>2. m \in States
        BY <1>0, <3>1, ModifiedType
      <3> HIDE DEF m
      <3>3. m.attrs \in Entry /\ m.adds \in SUBSET DN /\ m.dels \in SUBSET DN
        BY <3>2 DEF States
      <3>4. jobs \subseteq Job
        BY <3>3, JobTypes
      <3> HIDE DEF jobs
      <3> QED
        BY <1>0, <3>1, <3>3, <3>4, TreeAccept
    <2>5. ASSUME NEW j \in req[c].jobs, membershipAdd(c, j) PROVE TreeInv'
      <3>1. Exists(j.at) /\ UNCHANGED <<ops, faults, restarts, causes>> /\ causes \subseteq Causes
        BY <2>5 DEF membershipAdd, TreeInv, BottinTypeOK
      <3>2. CASE Skip(c, j)
        BY <3>1, <3>2, TreeSkip
      <3>3. CASE Assign(c, j, NewValues(j))
        BY <3>1, <3>3, TreeAssign
      <3> QED
        BY <2>5, <3>2, <3>3 DEF membershipAdd
    <2>6. ASSUME NEW j \in req[c].jobs, membershipRemove(c, j) PROVE TreeInv'
      <3>1. Exists(j.at) /\ UNCHANGED <<ops, faults, restarts>> /\ causes \subseteq causes' /\ causes' \subseteq Causes
        BY <2>6 DEF membershipRemove, TreeInv, BottinTypeOK, Causes
      <3>2. CASE Skip(c, j)
        BY <3>1, <3>2, TreeSkip
      <3>3. CASE Assign(c, j, NewValues(j)) /\ UNCHANGED causes
        BY <3>1, <3>3, TreeAssign
      <3> QED
        BY <2>6, <3>2, <3>3 DEF membershipRemove
    <2>7. ASSUME NEW j \in req[c].jobs, MemberMissing(c, j) PROVE TreeInv'
      <3>1. /\ req' = [req EXCEPT ![c] = IdleReq] /\ UNCHANGED <<view, ops, faults, restarts>>
            /\ causes \subseteq causes' /\ causes' \subseteq Causes /\ faults \in Nat
        BY <2>7 DEF MemberMissing, Fails, TreeInv, BottinTypeOK, Causes
      <3> QED
        BY <1>0, <3>1, TreeEnds DEF Exists
    <2>9. CASE Commit(c)
      BY <2>9, TreeCommit
    <2>10. CASE CommitFails(c)
      <3>1. /\ req' = [req EXCEPT ![c] = IdleReq] /\ UNCHANGED <<view, ops, restarts>>
            /\ causes \subseteq causes' /\ causes' \subseteq Causes /\ faults' \in Nat
        BY <2>10 DEF CommitFails, Fails, TreeInv, BottinTypeOK, Causes
      <3> QED
        BY <1>0, <3>1, TreeEnds DEF Exists
    <2> QED
      BY <1>3, <2>1, <2>2, <2>3, <2>4, <2>5, <2>6, <2>7, <2>9, <2>10 DEF Handle
  <1> QED
    BY <1>1, <1>2, <1>3 DEF Next

\* Directory and requests keep their types: whatever a sequence of changes
\* does to an entry, member and memberOf name entries of the directory only,
\* and every membership call is made on one of its names.
THEOREM BottinTypes == Spec => []BottinTypeOK
  <1>1. TreeInv => BottinTypeOK
    BY DEF TreeInv
  <1> QED
    BY <1>1, TreeInit, TreeNext, PTL DEF Spec

\* No write operation, commit, failure or crash of the LDAP server leaves an
\* entry without its parent, as long as no two requests on common entries
\* overlap.
THEOREM TreeStaysClosed == Spec => []TreeClosedUnlessRaced
  <1>1. TreeInv => TreeClosedUnlessRaced
    BY DEF TreeInv, TreeClosedUnlessRaced
  <1> QED
    BY <1>1, TreeInit, TreeNext, PTL DEF Spec

-----------------------------------------------------------------------------
(***************************************************************************)
(* member and memberOf.  A request changes the lists of the other entries  *)
(* in the store one by one and its own entry when it commits, so in        *)
(* between they disagree; Explained says by how much.  dir stands for the  *)
(* directory and rq for the requests.                                      *)
(***************************************************************************)
Lists == {"member", "memberof"}
Other(a) == IF a = "member" THEN "memberof" ELSE "member"

Due(r, x, b) == \E j \in r.jobs : j.at = x /\ j.attr = b

\* The calls of r are about its entry, on others, one for each list, and do
\* what the entry it stores calls for.
Calls(r) ==
  /\ \A j \in r.jobs : j.who = r.dn /\ j.at # r.dn /\ (j.do = "add" <=> j.at \in Listed(r.staged, r.dn, Other(j.attr)))
  /\ \A j, k \in r.jobs : j.at = k.at /\ j.attr = k.attr => j = k

\* The entries r has written beside its own are those of the store.
Stores(dir, r) ==
  /\ \A a \in Lists : r.dn \notin Listed(r.staged, r.dn, a)
  /\ \A x \in r.wrote : x # r.dn => r.staged[x] = dir[x]
  /\ ~ r.touched => r.wrote = {r.dn}

\* The list of x follows the entry of r once the call on x is made, and until
\* then, or while r has assigned nothing, the entry in the store.
Follows(dir, r, x, a) ==
  LET old == x \in Listed(dir, r.dn, a)
      new == x \in Listed(r.staged, r.dn, a)
      now == r.dn \in Listed(dir, x, Other(a))
  IN  /\ Due(r, x, Other(a)) => (now <=> old)
      /\ ~ Due(r, x, Other(a)) => (now <=> new)
      /\ ~ Due(r, x, Other(a)) /\ x \notin r.wrote => (new <=> old)
      /\ ~ r.touched => (now <=> old)

Explained(dir, r) ==
  r.busy => Calls(r) /\ Stores(dir, r) /\ \A x \in DN \ {r.dn}, a \in Lists : Follows(dir, r, x, a)

\* Lists of entries that no request is about.
Settled(dir, rq) ==
  \A d, x \in DN, a \in Lists :
    \/ x \in Listed(dir, d, a) <=> d \in Listed(dir, x, Other(a))
    \/ \E c \in Clients : rq[c].busy /\ rq[c].dn \in {d, x}

Selfless(dir) == \A d \in DN, a \in Lists : d \notin Listed(dir, d, a)

InStep(dir, rq) ==
  /\ Selfless(dir) /\ Settled(dir, rq)
  /\ \A c \in Clients : Explained(dir, rq[c])

MirrorInv == TreeInv /\ (causes = {} => InStep(view, req))

LEMMA Others == \A a \in Lists : Other(a) \in Lists /\ Other(Other(a)) = a /\ Other(a) # a
  BY DEF Lists, Other

\* What a request under way says of a list.
LEMMA FollowsIs ==
  ASSUME NEW dir, NEW rq, InStep(dir, rq), NEW c \in Clients, rq[c].busy,
         NEW x \in DN, x # rq[c].dn, NEW a \in Lists
  PROVE  /\ Due(rq[c], x, Other(a)) =>
              (rq[c].dn \in Listed(dir, x, Other(a)) <=> x \in Listed(dir, rq[c].dn, a))
         /\ ~ Due(rq[c], x, Other(a)) =>
              (rq[c].dn \in Listed(dir, x, Other(a)) <=> x \in Listed(rq[c].staged, rq[c].dn, a))
         /\ ~ Due(rq[c], x, Other(a)) /\ x \notin rq[c].wrote =>
              (x \in Listed(rq[c].staged, rq[c].dn, a) <=> x \in Listed(dir, rq[c].dn, a))
         /\ ~ rq[c].touched => (rq[c].dn \in Listed(dir, x, Other(a)) <=> x \in Listed(dir, rq[c].dn, a))
  <1>1. Follows(dir, rq[c], x, a)
    BY DEF InStep, Explained
  <1> QED
    BY <1>1 DEF Follows

LEMMA InSpan ==
  ASSUME NEW r
  PROVE  r.dn \in Span(r) /\ r.wrote \subseteq Span(r) /\ \A x, b : Due(r, x, b) => x \in Span(r)
  BY DEF Span, Footprint, Due

\* The lists of an entry that no request has to do with are in step.
LEMMA PairsInStep ==
  ASSUME NEW dir, NEW rq, InStep(dir, rq), NEW d \in DN,
         \A e \in Clients : rq[e].busy => d \notin Span(rq[e]), NEW x \in DN, NEW a \in Lists
  PROVE  x \in Listed(dir, d, a) <=> d \in Listed(dir, x, Other(a))
  <1>1. SUFFICES ASSUME NEW e \in Clients, rq[e].busy, rq[e].dn \in {d, x}
                 PROVE  x \in Listed(dir, d, a) <=> d \in Listed(dir, x, Other(a))
    BY DEF InStep, Settled
  <1>2. rq[e].dn = x /\ d # x /\ ~ Due(rq[e], d, a) /\ d \notin rq[e].wrote
    BY <1>1, InSpan
  <1>3. Other(a) \in Lists /\ Other(Other(a)) = a
    BY Others
  <1> QED
    BY <1>1, <1>2, <1>3, FollowsIs

\* What an accepted request must be like.
Right(dir, d, jobs, entry) ==
  LET new(a) == IF entry = NoEntry THEN {} ELSE entry[a]
  IN  /\ \A j \in jobs : j.who = d /\ j.at # d /\ (j.do = "add" <=> j.at \in new(Other(j.attr)))
      /\ \A j, k \in jobs : j.at = k.at /\ j.attr = k.attr => j = k
      /\ \A a \in Lists : d \notin new(a)
      /\ \A x \in DN \ {d}, a \in Lists :
            (\E j \in jobs : j.at = x /\ j.attr = Other(a)) \/ (x \in new(a) <=> x \in Listed(dir, d, a))

LEMMA InStepAccept ==
  ASSUME NEW dir, NEW rq, InStep(dir, rq), rq = [e \in Clients |-> rq[e]],
         NEW c \in Clients, ~ rq[c].busy, NEW d \in DN, NEW jobs \in SUBSET Job, NEW entry \in Entry \cup {NoEntry},
         Right(dir, d, jobs, entry), \A e \in Clients : rq[e].busy => d \notin Span(rq[e])
  PROVE  InStep(dir, [rq EXCEPT ![c] = Started(d, jobs, entry)])
  <1> DEFINE r == Started(d, jobs, entry)
             new(a) == IF entry = NoEntry THEN {} ELSE entry[a]
  <1>1. /\ r.busy = TRUE /\ r.dn = d /\ r.jobs = jobs /\ r.wrote = {d} /\ r.touched = FALSE
        /\ \A a : Listed(r.staged, d, a) = new(a)
    BY DEF Started, NoChange, Listed
  <1> HIDE DEF r
  <1> DEFINE q == [rq EXCEPT ![c] = r]
  <1>2. q[c] = r /\ \A e \in Clients \ {c} : q[e] = rq[e]
    OBVIOUS
  <1> HIDE DEF q
  <1>3. \A e \in Clients : rq[e].busy => q[e] = rq[e]
    BY <1>2
  <1>4. Settled(dir, q)
    BY <1>3 DEF InStep, Settled
  <1>5. Calls(r)
    BY <1>1 DEF Calls, Right
  <1>6. Stores(dir, r)
    BY <1>1 DEF Stores, Right
  <1>7. ASSUME NEW x \in DN \ {d}, NEW a \in Lists PROVE Follows(dir, r, x, a)
    <2>1. d \in Listed(dir, x, Other(a)) <=> x \in Listed(dir, d, a)
      BY PairsInStep
    <2>2. Due(r, x, Other(a)) \/ (x \in new(a) <=> x \in Listed(dir, d, a))
      BY <1>1 DEF Due, Right
    <2> HIDE DEF new
    <2> QED
      BY <1>1, <2>1, <2>2 DEF Follows
  <1>8. \A e \in Clients : Explained(dir, q[e])
    BY <1>1, <1>2, <1>5, <1>6, <1>7 DEF InStep, Explained
  <1> QED
    BY <1>4, <1>8 DEF InStep, q, r

\* The request of c ends and has assigned nothing.
LEMMA InStepEnds ==
  ASSUME NEW dir, NEW rq, InStep(dir, rq), rq = [e \in Clients |-> rq[e]],
         NEW c \in Clients, ~ rq[c].touched
  PROVE  InStep(dir, [rq EXCEPT ![c] = IdleReq])
  <1> DEFINE q == [rq EXCEPT ![c] = IdleReq]
             r == rq[c]
  <1>1. q[c] = IdleReq /\ \A e \in Clients \ {c} : q[e] = rq[e]
    OBVIOUS
  <1> HIDE DEF q
  <1>2. ~ q[c].busy
    BY <1>1, IdleType
  <1>3. ASSUME r.busy, NEW y \in DN, NEW a \in Lists
        PROVE  y \in Listed(dir, r.dn, a) <=> r.dn \in Listed(dir, y, Other(a))
    <2>1. CASE y = r.dn
      BY <2>1, Others DEF InStep, Selfless
    <2>2. CASE y # r.dn
      BY <1>3, <2>2, FollowsIs
    <2> QED
      BY <2>1, <2>2
  <1>4. Settled(dir, q)
    <2>1. SUFFICES ASSUME NEW y \in DN, NEW z \in DN, NEW a \in Lists,
                          ~ (\E e \in Clients : q[e].busy /\ q[e].dn \in {y, z})
                   PROVE  z \in Listed(dir, y, a) <=> y \in Listed(dir, z, Other(a))
      BY DEF Settled
    <2>2. SUFFICES ASSUME NEW e \in Clients, rq[e].busy, rq[e].dn \in {y, z}
                   PROVE  z \in Listed(dir, y, a) <=> y \in Listed(dir, z, Other(a))
      BY DEF InStep, Settled
    <2>3. e = c
      BY <1>1, <2>1, <2>2
    <2>4. Other(a) \in Lists /\ Other(Other(a)) = a
      BY Others
    <2> QED
      BY <1>3, <2>2, <2>3, <2>4
  <1>6. \A e \in Clients : Explained(dir, q[e])
    BY <1>1, <1>2 DEF InStep, Explained
  <1> QED
    BY <1>4, <1>6 DEF InStep, q

\* What membershipAdd and membershipRemove leave in the list they assign.
Result(dir, j) == IF j.do = "add" THEN dir[j.at][j.attr] \cup {j.who} ELSE dir[j.at][j.attr] \ {j.who}

LEMMA InStepAssign ==
  ASSUME NEW dir \in Directory, NEW rq \in [Clients -> Requests], InStep(dir, rq),
         NEW c \in Clients, rq[c].busy, NEW j \in rq[c].jobs, dir[j.at] \in Entry,
         \A e \in Clients \ {c} : rq[e].busy => Span(rq[c]) \cap Span(rq[e]) = {},
         NEW entry, entry = [dir[j.at] EXCEPT ![j.attr] = Result(dir, j)]
  PROVE  InStep([dir EXCEPT ![j.at] = entry], [rq EXCEPT ![c] = Stage(rq[c], j, entry)])
  <1> DEFINE r == rq[c]
             d == r.dn
             s == Stage(r, j, entry)
             new == [dir EXCEPT ![j.at] = entry]
             q == [rq EXCEPT ![c] = s]
  <1>1. /\ r \in Requests /\ j \in Job /\ d \in DN /\ j.at \in DN /\ j.attr \in Lists /\ r.wrote \subseteq DN
        /\ r.staged \in Directory
    BY DEF Requests, Job, Lists
  <1>2. /\ Calls(r) /\ Stores(dir, r) /\ j.who = d /\ j.at # d
    BY DEF InStep, Explained, Calls
  <1>3. j.at \in Span(r) /\ d \in Span(r) /\ r.wrote \subseteq Span(r)
    BY InSpan DEF Due
  <1>4. NoEntry \notin Entry /\ entry # NoEntry
    <2>1. dir[j.at] \in [Attr -> SUBSET Values] /\ j.attr \in Attr
      BY <1>1 DEF Entry, Attr, Lists
    <2>2. Result(dir, j) \subseteq DN
      BY <1>1, EntryType DEF Result, Job, Lists
    <2>3. entry \in Entry
      BY <1>1, <2>2, EntryType DEF Lists
    <2> QED
      BY <2>3, DirectoriesAssumption
  <1>5. \A y \in DN : new[y] = IF y = j.at THEN entry ELSE dir[y]
    BY <1>1 DEF Directory
  <1>6. \A b \in Lists : entry[b] = IF b = j.attr THEN Result(dir, j) ELSE dir[j.at][b]
    BY <1>1 DEF Entry, Lists, Attr
  <1> HIDE DEF new
  <1>7. \A y \in DN, b \in Lists, z \in DN :
          (z # d \/ y # j.at \/ b # j.attr) => (z \in Listed(new, y, b) <=> z \in Listed(dir, y, b))
    <2>1. \A y \in DN, b \in Lists : y # j.at => Listed(new, y, b) = Listed(dir, y, b)
      BY ONLY <1>5 DEF Listed
    <2>2. \A b \in Lists : Listed(new, j.at, b) = entry[b] /\ Listed(dir, j.at, b) = dir[j.at][b]
      BY ONLY <1>1, <1>4, <1>5, dir[j.at] \in Entry DEF Listed
    <2>3. \A z : z # d => (z \in Result(dir, j) <=> z \in dir[j.at][j.attr])
      BY ONLY <1>2 DEF Result
    <2> QED
      BY ONLY <1>6, <2>1, <2>2, <2>3
  <1>8. d \in Listed(new, j.at, j.attr) <=> j.do = "add"
    <2>1. Listed(new, j.at, j.attr) = Result(dir, j)
      BY ONLY <1>1, <1>4, <1>5, <1>6 DEF Listed
    <2>2. d \in Result(dir, j) <=> j.do = "add"
      BY ONLY <1>2 DEF Result
    <2> QED
      BY ONLY <2>1, <2>2
  <1>9. /\ s.busy = r.busy /\ s.dn = d /\ s.jobs = r.jobs \ {j} /\ s.wrote = r.wrote \cup {j.at} /\ s.touched = TRUE
        /\ \A y \in DN : s.staged[y] = IF y = j.at THEN entry ELSE r.staged[y]
    BY <1>1 DEF Stage, Requests, Directory
  <1> HIDE DEF s
  <1>10. q[c] = s /\ \A e \in Clients \ {c} : q[e] = rq[e]
    OBVIOUS
  <1> HIDE DEF q
  <1>11. Selfless(new)
    BY <1>2, <1>7 DEF InStep, Selfless
  <1>12. Settled(new, q)
    <2>1. ASSUME NEW y \in DN, NEW z \in DN, NEW a \in Lists
          PROVE  \/ z \in Listed(new, y, a) <=> y \in Listed(new, z, Other(a))
                 \/ \E e \in Clients : q[e].busy /\ q[e].dn \in {y, z}
      <3>1. CASE d \in {y, z}
        BY <1>9, <1>10, <3>1
      <3>2. CASE d \notin {y, z}
        <4>1. \/ z \in Listed(dir, y, a) <=> y \in Listed(dir, z, Other(a))
              \/ \E e \in Clients : rq[e].busy /\ rq[e].dn \in {y, z}
          BY DEF InStep, Settled
        <4>2. /\ z \in Listed(new, y, a) <=> z \in Listed(dir, y, a)
              /\ y \in Listed(new, z, Other(a)) <=> y \in Listed(dir, z, Other(a))
          BY <1>7, <3>2, Others
        <4>3. (\E e \in Clients : rq[e].busy /\ rq[e].dn \in {y, z})
              => \E e \in Clients : q[e].busy /\ q[e].dn \in {y, z}
          BY <1>9, <1>10
        <4> QED
          BY <4>1, <4>2, <4>3
      <3> QED
        BY <3>1, <3>2
    <2> QED
      BY <2>1 DEF Settled
  <1>14. Calls(s) /\ Stores(new, s)
    <2>1. \A a : Listed(s.staged, d, a) = Listed(r.staged, d, a)
      BY <1>1, <1>2, <1>9 DEF Listed
    <2>2. Calls(s)
      BY <1>2, <1>9, <2>1 DEF Calls
    <2>3. \A x \in s.wrote : x # d => s.staged[x] = new[x]
      BY <1>1, <1>2, <1>5, <1>9 DEF Stores
    <2> QED
      BY <1>2, <1>9, <2>1, <2>2, <2>3 DEF Stores
  <1>15. ASSUME NEW x \in DN \ {d}, NEW a \in Lists PROVE Follows(new, s, x, a)
    <2>1. \A b : Listed(s.staged, d, b) = Listed(r.staged, d, b)
      BY <1>1, <1>2, <1>9 DEF Listed
    <2>2. x \in Listed(new, d, a) <=> x \in Listed(dir, d, a)
      BY <1>1, <1>2, <1>7
    <2>3. CASE x = j.at /\ Other(a) = j.attr
      <3>1. ~ Due(s, x, Other(a))
        BY <1>2, <1>9, <2>3 DEF Calls, Due
      <3>2. d \in Listed(new, x, Other(a)) <=> x \in Listed(s.staged, d, a)
        <4>1. Other(j.attr) = a
          BY <2>3, Others
        <4> QED
          BY <1>2, <1>8, <2>1, <2>3, <4>1 DEF Calls
      <3> QED
        BY <1>9, <2>3, <3>1, <3>2 DEF Follows
    <2>4. CASE ~ (x = j.at /\ Other(a) = j.attr)
      <3>1. Due(s, x, Other(a)) <=> Due(r, x, Other(a))
        BY <1>9, <2>4 DEF Due
      <3>2. d \in Listed(new, x, Other(a)) <=> d \in Listed(dir, x, Other(a))
        BY <1>1, <1>7, <2>4, Others
      <3> HIDE DEF d
      <3>3. /\ Due(r, x, Other(a)) => (d \in Listed(dir, x, Other(a)) <=> x \in Listed(dir, d, a))
            /\ ~ Due(r, x, Other(a)) => (d \in Listed(dir, x, Other(a)) <=> x \in Listed(r.staged, d, a))
            /\ ~ Due(r, x, Other(a)) /\ x \notin r.wrote => (x \in Listed(r.staged, d, a) <=> x \in Listed(dir, d, a))
        BY FollowsIs DEF d
      <3> QED
        BY <1>9, <2>1, <2>2, <3>1, <3>2, <3>3 DEF Follows
    <2> QED
      BY <2>3, <2>4
  <1>16. ASSUME NEW e \in Clients \ {c} PROVE Explained(new, rq[e])
    <2>1. SUFFICES ASSUME rq[e].busy PROVE Explained(new, rq[e])
      BY DEF Explained
    <2> DEFINE p == rq[e]
    <2>2. Calls(p) /\ Stores(dir, p) /\ p.dn \in DN /\ p.wrote \subseteq DN
      BY <2>1 DEF InStep, Explained, Requests
    <2>3. p.dn # j.at /\ p.dn # d /\ \A x \in p.wrote : x # j.at
      BY <1>3, <2>1, InSpan
    <2>4. Stores(new, p)
      BY <1>5, <2>2, <2>3 DEF Stores
    <2>5. ASSUME NEW x \in DN \ {p.dn}, NEW a \in Lists PROVE Follows(new, p, x, a)
      <3>1. Follows(dir, p, x, a)
        BY <2>1 DEF InStep, Explained
      <3>2. /\ x \in Listed(new, p.dn, a) <=> x \in Listed(dir, p.dn, a)
            /\ p.dn \in Listed(new, x, Other(a)) <=> p.dn \in Listed(dir, x, Other(a))
        BY <1>7, <2>2, <2>3, Others
      <3> QED
        BY <3>1, <3>2 DEF Follows
    <2> QED
      BY <2>2, <2>4, <2>5 DEF Explained
  <1>17. \A e \in Clients : Explained(new, q[e])
    BY <1>9, <1>10, <1>14, <1>15, <1>16 DEF Explained
  <1> QED
    BY <1>11, <1>12, <1>17 DEF InStep, new, q, s

\* A call that returns early leaves the list as it must be.
LEMMA InStepSkip ==
  ASSUME NEW dir, NEW rq \in [Clients -> Requests], InStep(dir, rq),
         NEW c \in Clients, rq[c].busy, NEW j \in rq[c].jobs,
         j.do = "add" <=> j.who \in Listed(dir, j.at, j.attr)
  PROVE  InStep(dir, [rq EXCEPT ![c].jobs = @ \ {j}])
  <1> DEFINE r == rq[c]
             d == r.dn
             s == [r EXCEPT !.jobs = @ \ {j}]
             q == [rq EXCEPT ![c] = s]
  <1>1. r \in Requests /\ j.at \in DN /\ j.attr \in Lists
    BY DEF Requests, Job, Lists
  <1>2. s.busy = r.busy /\ s.dn = d /\ s.jobs = r.jobs \ {j} /\ s.wrote = r.wrote /\ s.touched = r.touched
        /\ s.staged = r.staged
    BY <1>1 DEF Requests
  <1> HIDE DEF s
  <1>3. q[c] = s /\ \A e \in Clients \ {c} : q[e] = rq[e]
    OBVIOUS
  <1> HIDE DEF q
  <1>4. Calls(r) /\ Stores(dir, r) /\ j.who = d /\ j.at # d
    BY DEF InStep, Explained, Calls
  <1>5. \A e \in Clients : q[e].busy = rq[e].busy /\ q[e].dn = rq[e].dn /\ q[e].wrote = rq[e].wrote
    BY <1>2, <1>3
  <1>6. Settled(dir, q)
    BY <1>5 DEF InStep, Settled
  <1>7. Calls(s) /\ Stores(dir, s)
    BY <1>2, <1>4 DEF Calls, Stores
  <1>8. ASSUME NEW x \in DN \ {d}, NEW a \in Lists PROVE Follows(dir, s, x, a)
    <2>1. Follows(dir, r, x, a)
      BY DEF InStep, Explained
    <2>2. CASE x = j.at /\ Other(a) = j.attr
      <3>1. ~ Due(s, x, Other(a)) /\ Due(r, x, Other(a))
        BY <1>2, <1>4, <2>2 DEF Calls, Due
      <3>2. d \in Listed(dir, x, Other(a)) <=> x \in Listed(r.staged, d, a)
        <4>1. Other(j.attr) = a
          BY <2>2, Others
        <4> QED
          BY <1>4, <2>2, <4>1 DEF Calls
      <3> QED
        BY <1>2, <2>1, <3>1, <3>2 DEF Follows
    <2>3. CASE ~ (x = j.at /\ Other(a) = j.attr)
      <3>1. Due(s, x, Other(a)) <=> Due(r, x, Other(a))
        BY <1>2, <2>3 DEF Due
      <3> QED
        BY <1>2, <2>1, <3>1 DEF Follows
    <2> QED
      BY <2>2, <2>3
  <1>9. \A e \in Clients : Explained(dir, q[e])
    BY <1>2, <1>3, <1>7, <1>8 DEF InStep, Explained
  <1>10. InStep(dir, q)
    BY <1>6, <1>9 DEF InStep
  <1> QED
    BY <1>10 DEF q, s

LEMMA InStepCommit ==
  ASSUME NEW dir \in Directory, NEW rq \in [Clients -> Requests], InStep(dir, rq),
         NEW c \in Clients, rq[c].busy, rq[c].jobs = {}, rq[c].dn \in rq[c].wrote,
         \A e \in Clients \ {c} : rq[e].busy => Span(rq[c]) \cap Span(rq[e]) = {}
  PROVE  InStep(Apply(dir, rq[c]), [rq EXCEPT ![c] = IdleReq])
  <1> DEFINE r == rq[c]
             d == r.dn
             new == Apply(dir, r)
             q == [rq EXCEPT ![c] = IdleReq]
  <1>1. d \in DN /\ r.wrote \subseteq DN /\ Stores(dir, r)
    BY DEF Requests, InStep, Explained
  <1>2. new[d] = r.staged[d] /\ \A y \in DN : y # d => new[y] = dir[y]
    BY <1>1 DEF Apply, Stores
  <1>4. q[c] = IdleReq /\ ~ q[c].busy /\ \A e \in Clients \ {c} : q[e] = rq[e]
    BY IdleType
  <1> HIDE DEF new, q
  <1>5. /\ \A a : Listed(new, d, a) = Listed(r.staged, d, a)
        /\ \A y \in DN, a \in Lists : y # d => Listed(new, y, a) = Listed(dir, y, a)
    BY <1>2 DEF Listed
  <1>7. d \in Span(r) /\ r.wrote \subseteq Span(r)
    BY InSpan
  <1>8. ASSUME NEW x \in DN, x # d, NEW a \in Lists
        PROVE  /\ d \in Listed(dir, x, Other(a)) <=> x \in Listed(r.staged, d, a)
               /\ x \notin r.wrote => (x \in Listed(r.staged, d, a) <=> x \in Listed(dir, d, a))
    <2>1. ~ Due(r, x, Other(a))
      BY DEF Due
    <2> HIDE DEF r
    <2> QED
      BY <1>8, <2>1, FollowsIs DEF r
  <1>9. Selfless(new)
    BY <1>1, <1>5 DEF InStep, Selfless, Stores
  <1>10. ASSUME NEW y \in DN, NEW a \in Lists
         PROVE  y \in Listed(new, d, a) <=> d \in Listed(new, y, Other(a))
    <2>1. CASE y = d
      BY <1>1, <1>9, <2>1, Others DEF Selfless
    <2>2. CASE y # d
      BY <1>5, <1>8, <2>2, Others
    <2> QED
      BY <2>1, <2>2
  <1>11. Settled(new, q)
    <2>1. SUFFICES ASSUME NEW y \in DN, NEW z \in DN, NEW a \in Lists
                   PROVE  \/ z \in Listed(new, y, a) <=> y \in Listed(new, z, Other(a))
                          \/ \E e \in Clients : q[e].busy /\ q[e].dn \in {y, z}
      BY DEF Settled
    <2>2. Other(a) \in Lists /\ Other(Other(a)) = a
      BY Others
    <2>3. CASE y = d
      BY <1>10, <2>3
    <2>4. CASE z = d
      BY <1>10, <2>2, <2>4
    <2>5. CASE y # d /\ z # d
      <3>1. \/ z \in Listed(dir, y, a) <=> y \in Listed(dir, z, Other(a))
            \/ \E e \in Clients : rq[e].busy /\ rq[e].dn \in {y, z}
        BY DEF InStep, Settled
      <3>2. ASSUME NEW e \in Clients, rq[e].busy, rq[e].dn \in {y, z} PROVE q[e].busy /\ q[e].dn \in {y, z}
        BY <1>4, <2>5, <3>2
      <3> QED
        BY <1>5, <2>2, <2>5, <3>1, <3>2
    <2> QED
      BY <2>3, <2>4, <2>5
  <1>16. ASSUME NEW e \in Clients \ {c} PROVE Explained(new, rq[e])
    <2>1. SUFFICES ASSUME rq[e].busy PROVE Explained(new, rq[e])
      BY DEF Explained
    <2> DEFINE p == rq[e]
    <2>2. Calls(p) /\ Stores(dir, p) /\ p.dn \in DN /\ p.wrote \subseteq DN
      BY <2>1 DEF InStep, Explained, Requests
    <2>3. p.dn # d /\ p.dn \notin r.wrote /\ \A x \in p.wrote : x # d
      BY <1>7, <2>1, InSpan
    <2>4. Stores(new, p)
      BY <1>2, <2>2, <2>3 DEF Stores
    <2>5. ASSUME NEW x \in DN \ {p.dn}, NEW a \in Lists PROVE Follows(new, p, x, a)
      <3>1. Follows(dir, p, x, a)
        BY <2>1 DEF InStep, Explained
      <3>2. Listed(new, p.dn, a) = Listed(dir, p.dn, a)
        BY <1>5, <2>2, <2>3
      <3>3. p.dn \in Listed(new, x, Other(a)) <=> p.dn \in Listed(dir, x, Other(a))
        <4>1. CASE x = d
          BY <1>5, <1>8, <2>2, <2>3, <4>1, Others
        <4>2. CASE x # d
          BY <1>5, <4>2, Others
        <4> QED
          BY <4>1, <4>2
      <3> QED
        BY <3>1, <3>2, <3>3 DEF Follows
    <2> QED
      BY <2>2, <2>4, <2>5 DEF Explained
  <1>17. \A e \in Clients : Explained(new, q[e])
    BY <1>4, <1>16 DEF Explained
  <1> QED
    BY <1>9, <1>11, <1>17 DEF InStep, new, q

\* Without requests, a directory that is mirrored is all there is to say.
LEMMA InStepQuiet ==
  ASSUME NEW dir, Mirrored(dir), \A d \in DN : d \notin Listed(dir, d, "member"),
         NEW rq, \A c \in Clients : rq[c] = IdleReq
  PROVE  InStep(dir, rq)
  <1>1. Selfless(dir)
    BY DEF Mirrored, Selfless, Lists
  <1>2. \A d, x \in DN, a \in Lists : x \in Listed(dir, d, a) <=> d \in Listed(dir, x, Other(a))
    BY DEF Mirrored, Lists, Other
  <1> QED
    BY <1>1, <1>2, IdleType DEF InStep, Settled, Explained

\* What a sequence of changes has to do with the member list: it starts from
\* the old one, and the members that came and went account for the new one.
Tallied(prev) ==
  {st \in States :
     /\ "memberof" \notin st.changed /\ st.attrs["memberof"] = {}
     /\ "member" \notin st.changed => st.attrs["member"] = {} /\ st.adds = {} /\ st.dels = {}
     /\ "member" \in st.changed /\ st.adds \cap st.dels = {} =>
          st.attrs["member"] = (prev["member"] \ st.dels) \cup st.adds}

LEMMA ApplyTallied ==
  ASSUME NEW prev \in Entry, NEW st \in Tallied(prev), NEW ch \in Change
  PROVE  ApplyChange(prev, st, ch) \in Tallied(prev)
  <1> DEFINE a   == ch.attr
             old == IF a \in st.changed THEN st.attrs[a] ELSE prev[a]
             new == CASE ch.op = "add" -> old \cup ch.vals
                      [] ch.op = "delete" /\ ch.vals = {} -> {}
                      [] ch.op = "delete" -> old \ ch.vals
                      [] ch.op = "replace" -> ch.vals
             res == ApplyChange(prev, st, ch)
  <1>1. st \in States /\ st.attrs \in [Attr -> SUBSET Values] /\ a \in {"member", "objectclass", "userpassword"}
        /\ a \in Attr /\ "member" \in Attr /\ "memberof" \in Attr
    BY EntryType DEF Tallied, States, Change, Attr
  <1>2. res \in States
    BY <1>1, ApplyType
  <1>3. /\ res.attrs = [st.attrs EXCEPT ![a] = new] /\ res.changed = st.changed \cup {a}
        /\ res.adds = st.adds \cup (IF a = "member" THEN new \ old ELSE {})
        /\ res.dels = st.dels \cup (IF a = "member" THEN old \ new ELSE {})
    BY DEF ApplyChange
  <1>4. "memberof" \notin res.changed /\ res.attrs["memberof"] = {}
    BY <1>1, <1>3 DEF Tallied
  <1> HIDE DEF new, res
  <1>5. CASE a = "member"
    <2>1. res.attrs["member"] = new /\ "member" \in res.changed
      BY <1>1, <1>3, <1>5
    <2>2. ASSUME res.adds \cap res.dels = {} PROVE new = (prev["member"] \ res.dels) \cup res.adds
      <3>1. st.adds \cap st.dels = {}
        BY <1>3, <2>2
      <3>2. old = (prev["member"] \ st.dels) \cup st.adds
        BY <1>5, <3>1 DEF Tallied
      <3> HIDE DEF old
      <3> QED
        BY <1>3, <1>5, <2>2, <3>2
    <2> QED
      BY <1>2, <1>4, <2>1, <2>2 DEF Tallied, res
  <1>6. CASE a # "member"
    <2>1. /\ res.attrs["member"] = st.attrs["member"] /\ res.adds = st.adds /\ res.dels = st.dels
          /\ "member" \in res.changed <=> "member" \in st.changed
      BY <1>1, <1>3, <1>6
    <2> QED
      BY <1>2, <1>4, <2>1 DEF Tallied, res
  <1> QED
    BY <1>5, <1>6

LEMMA ModifiedTallied ==
  ASSUME NEW prev \in Entry, NEW changes \in ChangeLists
  PROVE  Modified(prev, changes) \in Tallied(prev)
  <1>1. NoAttributes \in Entry /\ NoAttributes["member"] = {} /\ NoAttributes["memberof"] = {}
    BY DEF NoAttributes, Entry, Attr
  <1>2. Start \in Tallied(prev)
    BY <1>1 DEF Start, States, Tallied
  <1> QED
    BY <1>2, ApplyTallied, ModifiedIn

LEMMA MirrorFrom ==
  ASSUME TreeInv', causes' = {} => InStep(view', req')
  PROVE  MirrorInv'
  BY DEF MirrorInv, InStep, Selfless, Settled, Mirrored, Explained, Calls, Stores, Follows, Due, Listed

\* The requests of other clients are about other entries.
LEMMA OthersApart ==
  ASSUME MirrorInv, causes = {}, NEW c \in Clients, req[c].busy
  PROVE  /\ \A e \in Clients \ {c} : req[e].busy => Span(req[c]) \cap Span(req[e]) = {}
         /\ req[c].dn \in req[c].wrote
  BY DEF MirrorInv, TreeInv, Apart, Promises

LEMMA MirrorAccept ==
  ASSUME MirrorInv, TreeInv', NEW c \in Clients, ~ req[c].busy, NEW d \in DN, NEW jobs \in SUBSET Job,
         NEW entry \in Entry \cup {NoEntry}, NEW cs \in SUBSET Causes, Accept(c, Started(d, jobs, entry), cs),
         causes = {} /\ cs = {} => Right(view, d, jobs, entry)
  PROVE  MirrorInv'
  <1> DEFINE r == Started(d, jobs, entry)
  <1>1. /\ req' = [req EXCEPT ![c] = r] /\ UNCHANGED view
        /\ causes' = causes \cup cs \cup (IF Overlaps(c, r) THEN {"raced"} ELSE {})
    BY DEF Accept
  <1>2. ASSUME causes' = {} PROVE InStep(view', req')
    <2>1. causes = {} /\ cs = {} /\ ~ Overlaps(c, r)
      BY <1>1, <1>2
    <2>2. InStep(view, req) /\ req = [e \in Clients |-> req[e]]
      BY <2>1 DEF MirrorInv, TreeInv, BottinTypeOK
    <2>3. d \in Footprint(r)
      BY DEF Footprint, Started
    <2>4. \A e \in Clients : req[e].busy => d \notin Span(req[e])
      BY <2>1, <2>3 DEF Overlaps, Span
    <2>5. InStep(view, [req EXCEPT ![c] = r])
      BY <2>1, <2>2, <2>4, InStepAccept
    <2> HIDE DEF r
    <2> QED
      BY <1>1, <2>5
  <1> QED
    BY <1>2, MirrorFrom

\* The handler of c returns an error.
LEMMA MirrorFails ==
  ASSUME MirrorInv, TreeInv', NEW c \in Clients, Fails(c), UNCHANGED view
  PROVE  MirrorInv'
  <1>1. ASSUME causes' = {} PROVE InStep(view', req')
    <2>1. causes = {} /\ ~ req[c].touched
      BY <1>1 DEF Fails
    <2>2. InStep(view, req) /\ req = [e \in Clients |-> req[e]]
      BY <2>1 DEF MirrorInv, TreeInv, BottinTypeOK
    <2>3. InStep(view, [req EXCEPT ![c] = IdleReq])
      BY <2>1, <2>2, InStepEnds
    <2> QED
      BY <2>3 DEF Fails
  <1> QED
    BY <1>1, MirrorFrom

LEMMA MirrorAssign ==
  ASSUME MirrorInv, TreeInv', NEW c \in Clients, NEW j \in req[c].jobs, Exists(j.at), Assign(c, j, NewValues(j)),
         causes \subseteq causes'
  PROVE  MirrorInv'
  <1> DEFINE entry == [view[j.at] EXCEPT ![j.attr] = NewValues(j)]
  <1>1. ASSUME causes' = {} PROVE InStep(view', req')
    <2>1. causes = {} /\ TreeInv
      BY <1>1 DEF MirrorInv
    <2>2. InStep(view, req) /\ view \in Directory /\ req \in [Clients -> Requests] /\ req[c].busy
      BY <2>1 DEF MirrorInv, TreeInv, BottinTypeOK
    <2>3. view[j.at] \in Entry
      BY <2>1, TreeCall
    <2>4. \A e \in Clients \ {c} : req[e].busy => Span(req[c]) \cap Span(req[e]) = {}
      BY <2>1, <2>2, OthersApart
    <2>5. entry = [view[j.at] EXCEPT ![j.attr] = Result(view, j)]
      BY DEF NewValues, Result
    <2>6. view' = [view EXCEPT ![j.at] = entry] /\ req' = [req EXCEPT ![c] = Stage(req[c], j, entry)]
      BY DEF Assign
    <2> HIDE DEF entry
    <2>7. InStep([view EXCEPT ![j.at] = entry], [req EXCEPT ![c] = Stage(req[c], j, entry)])
      BY <2>2, <2>3, <2>4, <2>5, InStepAssign
    <2> QED
      BY <2>6, <2>7
  <1> QED
    BY <1>1, MirrorFrom

LEMMA MirrorSkip ==
  ASSUME MirrorInv, TreeInv', NEW c \in Clients, NEW j \in req[c].jobs, Exists(j.at), Skip(c, j),
         causes \subseteq causes', causes' = {} => (j.do = "add" <=> j.who \in view[j.at][j.attr])
  PROVE  MirrorInv'
  <1>1. ASSUME causes' = {} PROVE InStep(view', req')
    <2>1. causes = {} /\ TreeInv /\ (j.do = "add" <=> j.who \in Listed(view, j.at, j.attr))
      BY <1>1 DEF MirrorInv, Listed, Exists
    <2>2. InStep(view, req) /\ req \in [Clients -> Requests] /\ req[c].busy
      BY <2>1 DEF MirrorInv, TreeInv, BottinTypeOK
    <2>3. InStep(view, [req EXCEPT ![c].jobs = @ \ {j}])
      BY <2>1, <2>2, InStepSkip
    <2> QED
      BY <2>3 DEF Skip
  <1> QED
    BY <1>1, MirrorFrom

LEMMA MirrorCommit ==
  ASSUME MirrorInv, TreeInv', NEW c \in Clients, Commit(c)
  PROVE  MirrorInv'
  <1>1. ASSUME causes' = {} PROVE InStep(view', req')
    <2>1. causes = {} /\ req[c].busy /\ req[c].jobs = {}
      BY <1>1 DEF Commit
    <2>2. InStep(view, req) /\ view \in Directory /\ req \in [Clients -> Requests]
      BY <2>1 DEF MirrorInv, TreeInv, BottinTypeOK
    <2>3. InStep(Apply(view, req[c]), [req EXCEPT ![c] = IdleReq])
      BY <2>1, <2>2, OthersApart, InStepCommit
    <2> QED
      BY <2>3 DEF Commit
  <1> QED
    BY <1>1, MirrorFrom

LEMMA MirrorRestart == ASSUME MirrorInv, TreeInv', Restart PROVE MirrorInv'
  <1>1. ASSUME causes' = {} PROVE InStep(view', req')
    <2>1. \A d \in DN : view'[d] = IF d = Base THEN BaseEntry ELSE NoEntry
      BY DEF Restart, NoChange
    <2>2. BaseEntry["member"] = {} /\ BaseEntry["memberof"] = {}
      BY DEF BaseEntry, NoAttributes, Attr
    <2>3. \A d \in DN, a \in Lists : Listed(view', d, a) = {}
      BY <2>1, <2>2 DEF Listed, Lists
    <2>4. Mirrored(view') /\ \A d \in DN : d \notin Listed(view', d, "member")
      BY <2>3 DEF Mirrored, Lists
    <2>5. \A c \in Clients : req'[c] = IdleReq
      BY DEF Restart
    <2> QED
      BY <2>4, <2>5, InStepQuiet
  <1> QED
    BY <1>1, MirrorFrom

LEMMA MirrorInit == ASSUME Init PROVE MirrorInv
  <1>1. Mirrored(view) /\ (\A d \in DN : d \notin Listed(view, d, "member"))
        /\ \A c \in Clients : req[c] = IdleReq
    BY DirectoriesAssumption DEF Init
  <1>2. InStep(view, req)
    BY <1>1, InStepQuiet
  <1> QED
    BY <1>1, <1>2, TreeInit DEF MirrorInv

\* The calls of one kind: one for each entry on the list.
OneEach(jobs, op, b, d, xs) ==
  /\ \A j \in jobs : j.do = op /\ j.attr = b /\ j.who = d /\ j.at \in xs
  /\ \A j, k \in jobs : j.at = k.at => j = k
  /\ \A x \in xs : \E j \in jobs : j.at = x

LEMMA JobsAre ==
  ASSUME NEW d, NEW xs
  PROVE  /\ OneEach(AddJobs(d, xs), "add", "memberof", d, xs)
         /\ OneEach(RemoveJobs(d, xs), "remove", "memberof", d, xs)
         /\ OneEach({[do |-> "remove", attr |-> "member", at |-> g, who |-> d, stage |-> 1] : g \in xs},
                    "remove", "member", d, xs)
  <1> DEFINE G == {[do |-> "remove", attr |-> "member", at |-> g, who |-> d, stage |-> 1] : g \in xs}
  <1>1. OneEach(AddJobs(d, xs), "add", "memberof", d, xs)
    <2> DEFINE call(x) == [do |-> "add", attr |-> "memberof", at |-> x, who |-> d, stage |-> 1]
    <2>1. (\A j \in AddJobs(d, xs) : \E x \in xs : j = call(x)) /\ \A x \in xs : call(x) \in AddJobs(d, xs)
      BY DEF AddJobs
    <2>2. \A x : call(x).do = "add" /\ call(x).attr = "memberof" /\ call(x).who = d /\ call(x).at = x
      OBVIOUS
    <2> HIDE DEF call
    <2> QED
      BY ONLY <2>1, <2>2 DEF OneEach
  <1>2. OneEach(RemoveJobs(d, xs), "remove", "memberof", d, xs)
    <2> DEFINE call(x) == [do |-> "remove", attr |-> "memberof", at |-> x, who |-> d, stage |-> 2]
    <2>1. (\A j \in RemoveJobs(d, xs) : \E x \in xs : j = call(x)) /\ \A x \in xs : call(x) \in RemoveJobs(d, xs)
      BY DEF RemoveJobs
    <2>2. \A x : call(x).do = "remove" /\ call(x).attr = "memberof" /\ call(x).who = d /\ call(x).at = x
      OBVIOUS
    <2> HIDE DEF call
    <2> QED
      BY ONLY <2>1, <2>2 DEF OneEach
  <1>3. OneEach(G, "remove", "member", d, xs)
    <2> DEFINE call(x) == [do |-> "remove", attr |-> "member", at |-> x, who |-> d, stage |-> 1]
    <2>1. (\A j \in G : \E x \in xs : j = call(x)) /\ \A x \in xs : call(x) \in G
      BY Zenon
    <2>2. \A x : call(x).do = "remove" /\ call(x).attr = "member" /\ call(x).who = d /\ call(x).at = x
      OBVIOUS
    <2> HIDE DEF call, G
    <2> QED
      BY ONLY <2>1, <2>2 DEF OneEach
  <1> QED
    BY <1>1, <1>2, <1>3

\* Each operation asks for the calls that its entry makes necessary.
LEMMA RightJobs ==
  ASSUME NEW dir, NEW d \in DN, NEW adds, NEW dels, NEW outs, NEW A, NEW D, NEW O, NEW entry,
         OneEach(A, "add", "memberof", d, adds), OneEach(D, "remove", "memberof", d, dels),
         OneEach(O, "remove", "member", d, outs), adds \cap dels = {},
         d \notin adds \cup dels \cup outs, \A a \in Lists : d \notin Listed(dir, d, a),
         (IF entry = NoEntry THEN {} ELSE entry["member"]) = (Listed(dir, d, "member") \ dels) \cup adds,
         (IF entry = NoEntry THEN {} ELSE entry["memberof"]) = Listed(dir, d, "memberof") \ outs
  PROVE  Right(dir, d, A \cup D \cup O, entry)
  <1> DEFINE jobs == A \cup D \cup O
             new(a) == IF entry = NoEntry THEN {} ELSE entry[a]
  <1>1. /\ new("member") = (Listed(dir, d, "member") \ dels) \cup adds /\ new("memberof") = Listed(dir, d, "memberof") \ outs
        /\ Other("member") = "memberof" /\ Other("memberof") = "member"
    BY DEF Other
  <1>2. ASSUME NEW j \in jobs PROVE j.who = d /\ j.at # d /\ (j.do = "add" <=> j.at \in new(Other(j.attr)))
    <2> HIDE DEF new
    <2>1. CASE j \in A
      BY <1>1, <2>1 DEF OneEach
    <2>2. CASE j \in D
      BY <1>1, <2>2 DEF OneEach
    <2>3. CASE j \in O
      BY <1>1, <2>3 DEF OneEach
    <2> QED
      BY <2>1, <2>2, <2>3
  <1>3. ASSUME NEW j \in jobs, NEW k \in jobs, j.at = k.at, j.attr = k.attr PROVE j = k
    BY <1>3 DEF OneEach
  <1>4. \A a \in Lists : d \notin new(a)
    BY <1>1 DEF Lists
  <1>5. ASSUME NEW x \in DN \ {d}, NEW a \in Lists
        PROVE  (\E j \in jobs : j.at = x /\ j.attr = Other(a)) \/ (x \in new(a) <=> x \in Listed(dir, d, a))
    <2>1. CASE a = "member"
      BY <1>1, <2>1 DEF OneEach
    <2>2. CASE a = "memberof"
      BY <1>1, <2>2 DEF OneEach
    <2> QED
      BY <2>1, <2>2 DEF Lists
  <1> QED
    BY <1>2, <1>3, <1>4, <1>5 DEF Right

LEMMA RightAdd ==
  ASSUME NEW d \in DN, NEW ms \in SUBSET DN, view[d] = NoEntry, d \notin ms,
         NEW entry \in Entry, entry["member"] = ms, entry["memberof"] = {}
  PROVE  Right(view, d, AddJobs(d, ms), entry)
  <1>1. entry # NoEntry /\ \A a : Listed(view, d, a) = {}
    BY DirectoriesAssumption DEF Listed
  <1>2. OneEach({}, "remove", "memberof", d, {}) /\ OneEach({}, "remove", "member", d, {})
    BY DEF OneEach
  <1>3. /\ (IF entry = NoEntry THEN {} ELSE entry["member"]) = (Listed(view, d, "member") \ {}) \cup ms
        /\ (IF entry = NoEntry THEN {} ELSE entry["memberof"]) = Listed(view, d, "memberof") \ {}
        /\ ms \cap {} = {} /\ d \notin ms \cup {} \cup {} /\ \A a \in Lists : d \notin Listed(view, d, a)
    BY <1>1
  <1>4. OneEach(AddJobs(d, ms), "add", "memberof", d, ms)
    BY JobsAre
  <1>5. Right(view, d, AddJobs(d, ms) \cup {} \cup {}, entry)
    BY ONLY d \in DN, <1>2, <1>3, <1>4, RightJobs
  <1> QED
    BY <1>5

LEMMA RightDel ==
  ASSUME NEW d \in DN, view[d] \in Entry, Selfless(view)
  PROVE  Right(view, d, {[do |-> "remove", attr |-> "member", at |-> g, who |-> d, stage |-> 1]
                            : g \in view[d]["memberof"]} \cup RemoveJobs(d, view[d]["member"]), NoEntry)
  <1> DEFINE O == {[do |-> "remove", attr |-> "member", at |-> g, who |-> d, stage |-> 1] : g \in view[d]["memberof"]}
             D == RemoveJobs(d, view[d]["member"])
  <1>1. /\ Listed(view, d, "member") = view[d]["member"] /\ Listed(view, d, "memberof") = view[d]["memberof"]
        /\ \A a \in Lists : d \notin Listed(view, d, a)
    BY DirectoriesAssumption DEF Listed, Selfless
  <1>2. d \notin view[d]["member"] /\ d \notin view[d]["memberof"]
    BY <1>1 DEF Lists
  <1>3. /\ OneEach(O, "remove", "member", d, view[d]["memberof"])
        /\ OneEach(D, "remove", "memberof", d, view[d]["member"]) /\ OneEach({}, "add", "memberof", d, {})
    <2>1. OneEach({}, "add", "memberof", d, {})
      BY DEF OneEach
    <2> QED
      BY <2>1, JobsAre
  <1> HIDE DEF O, D
  <1>4. Right(view, d, {} \cup D \cup O, NoEntry)
    <2> DEFINE mem == view[d]["member"]
               of == view[d]["memberof"]
    <2> HIDE DEF mem, of
    <2>1. /\ (IF NoEntry = NoEntry THEN {} ELSE NoEntry["member"]) = (Listed(view, d, "member") \ mem) \cup {}
          /\ (IF NoEntry = NoEntry THEN {} ELSE NoEntry["memberof"]) = Listed(view, d, "memberof") \ of
          /\ {} \cap mem = {} /\ d \notin {} \cup mem \cup of /\ \A a \in Lists : d \notin Listed(view, d, a)
      BY <1>1, <1>2 DEF mem, of
    <2>2. /\ OneEach(O, "remove", "member", d, of) /\ OneEach(D, "remove", "memberof", d, mem)
          /\ OneEach({}, "add", "memberof", d, {})
      BY <1>3 DEF mem, of
    <2> QED
      BY ONLY d \in DN, <2>1, <2>2, RightJobs
  <1>5. {} \cup D \cup O = O \cup D
    OBVIOUS
  <1>6. Right(view, d, O \cup D, NoEntry)
    BY <1>4, <1>5
  <1> QED
    BY <1>6 DEF O, D

LEMMA RightModify ==
  ASSUME NEW d \in DN, view[d] \in Entry, Selfless(view), NEW m \in Tallied(view[d]), m.adds \cap m.dels = {},
         d \notin m.adds \cup m.dels,
         \A a \in {"memberof", "member"} : a \in m.changed \/ view[d][a] = {}
  PROVE  Right(view, d, AddJobs(d, m.adds) \cup RemoveJobs(d, m.dels), m.attrs)
  <1>1. /\ Listed(view, d, "member") = view[d]["member"] /\ Listed(view, d, "memberof") = view[d]["memberof"]
        /\ \A a \in Lists : d \notin Listed(view, d, a)
    BY DirectoriesAssumption DEF Listed, Selfless
  <1>2. m.attrs # NoEntry
    BY DirectoriesAssumption DEF Tallied, States
  <1>3. m.attrs["memberof"] = {} /\ view[d]["memberof"] = {}
        /\ m.attrs["member"] = (view[d]["member"] \ m.dels) \cup m.adds
    BY DEF Tallied
  <1>4. OneEach({}, "remove", "member", d, {})
    BY DEF OneEach
  <1>5. Right(view, d, AddJobs(d, m.adds) \cup RemoveJobs(d, m.dels) \cup {}, m.attrs)
    <2> DEFINE adds == m.adds
               dels == m.dels
               entry == m.attrs
    <2> HIDE DEF adds, dels, entry
    <2>1. /\ (IF entry = NoEntry THEN {} ELSE entry["member"]) = (Listed(view, d, "member") \ dels) \cup adds
          /\ (IF entry = NoEntry THEN {} ELSE entry["memberof"]) = Listed(view, d, "memberof") \ {}
          /\ adds \cap dels = {} /\ d \notin adds \cup dels \cup {} /\ \A a \in Lists : d \notin Listed(view, d, a)
      BY <1>1, <1>2, <1>3 DEF adds, dels, entry
    <2>2. OneEach(AddJobs(d, adds), "add", "memberof", d, adds) /\ OneEach(RemoveJobs(d, dels), "remove", "memberof", d, dels)
      BY JobsAre
    <2>3. Right(view, d, AddJobs(d, adds) \cup RemoveJobs(d, dels) \cup {}, entry)
      BY ONLY d \in DN, <1>4, <2>1, <2>2, RightJobs
    <2> QED
      BY <2>3 DEF adds, dels, entry
  <1> QED
    BY <1>5

LEMMA MirrorNext == MirrorInv /\ [Next]_vars => MirrorInv'
  <1> SUFFICES ASSUME MirrorInv, [Next]_vars PROVE MirrorInv'
    OBVIOUS
  <1>0. /\ NoEntry \notin Entry /\ view \in Directory /\ (\A d \in DN : Exists(d) => view[d] \in Entry)
        /\ causes = {} => Selfless(view)
    BY DirectoriesAssumption DEF MirrorInv, InStep, TreeInv, BottinTypeOK, Directory, Exists
  <1>1. TreeInv'
    BY TreeNext DEF MirrorInv
  <1>2. CASE UNCHANGED vars
    BY <1>1, <1>2, MirrorFrom DEF vars, MirrorInv
  <1>3. CASE Restart
    BY <1>1, <1>3, MirrorRestart
  <1>4. ASSUME NEW c \in Clients, Handle(c) PROVE MirrorInv'
    <2>1. ASSUME NEW d \in DN, NEW ms \in SUBSET DN, Add(c, d, ms) PROVE MirrorInv'
      <3> DEFINE entry == [NoAttributes EXCEPT !["objectclass"] = {"top"}, !["entryuuid"] = {"id"}, !["member"] = ms]
      <3>1. entry \in Entry /\ entry["member"] = ms /\ entry["memberof"] = {}
        BY DEF NoAttributes, Entry, Attr, Values
      <3> HIDE DEF entry
      <3>2. Accept(c, Started(d, AddJobs(d, ms), entry), {}) /\ ~ req[c].busy /\ view[d] = NoEntry /\ d \notin ms
        BY <2>1 DEF Add, Ready, entry, Exists
      <3>3. Right(view, d, AddJobs(d, ms), entry)
        BY <3>1, <3>2, RightAdd
      <3> QED
        BY <1>1, <3>1, <3>2, <3>3, JobTypes, MirrorAccept
    <2>2. ASSUME NEW d \in DN, Del(c, d) PROVE MirrorInv'
      <3> DEFINE jobs == {[do |-> "remove", attr |-> "member", at |-> g, who |-> d, stage |-> 1]
                             : g \in view[d]["memberof"]} \cup RemoveJobs(d, view[d]["member"])
      <3>1. List(d) = {d} /\ ~ req[c].busy /\ Accept(c, Started(d, jobs, NoEntry), {})
        BY <2>2 DEF Del, Ready
      <3>2. view[d] \in Entry
        BY <1>0, <3>1 DEF List
      <3>3. jobs \in SUBSET Job
        BY <3>2, EntryType, JobTypes
      <3>4. causes = {} => Right(view, d, jobs, NoEntry)
        BY <1>0, <3>2, RightDel
      <3> HIDE DEF jobs
      <3> QED
        BY <1>1, <3>1, <3>3, <3>4, MirrorAccept
    <2>3. ASSUME NEW d \in DN, Extended(c, d) PROVE MirrorInv'
      <3> DEFINE entry == [view[d] EXCEPT !["userpassword"] = {c}]
      <3>1. Exists(d) /\ ~ req[c].busy /\ Accept(c, Started(d, {}, entry), {})
        BY <2>3 DEF Extended, Ready
      <3>2. entry \in Entry /\ \A a \in Lists : entry[a] = view[d][a]
        <4>1. {c} \in SUBSET Values
          BY DEF Values
        <4>2. view[d] \in [Attr -> SUBSET Values]
          BY <1>0, <3>1, EntryType
        <4> QED
          BY <1>0, <3>1, <4>1, <4>2, EntryType DEF Lists, Attr
      <3> HIDE DEF entry
      <3>3. ASSUME causes = {} PROVE Right(view, d, {}, entry)
        <4>1. entry # NoEntry /\ \A a \in Lists : Listed(view, d, a) = entry[a]
          BY <1>0, <3>1, <3>2 DEF Listed, Exists
        <4> QED
          BY <1>0, <3>3, <4>1 DEF Right, Selfless
      <3> QED
        BY <1>1, <3>1, <3>2, <3>3, MirrorAccept
    <2>4. ASSUME NEW d \in DN, NEW chs \in ChangeLists, Modify(c, d, chs) PROVE MirrorInv'
      <3> DEFINE m == Modified(view[d], chs)
                 jobs == AddJobs(d, m.adds) \cup RemoveJobs(d, m.dels)
                 lost == ({"memberof", "member"} \ m.changed) \cap {a \in Attr : view[d][a] # {}}
      <3>1. PICK cs \in SUBSET Causes :
               /\ Exists(d) /\ ~ req[c].busy /\ Accept(c, Started(d, jobs, m.attrs), cs)
               /\ cs = {} => lost = {} /\ m.adds \cap m.dels = {} /\ d \notin m.adds \cup m.dels
        BY <2>4 DEF Modify, Ready, Causes
      <3>2. view[d] \in Entry /\ m \in Tallied(view[d])
        BY <1>0, <3>1, ModifiedTallied
      <3> HIDE DEF m
      <3>3. m.attrs \in Entry /\ m.adds \in SUBSET DN /\ m.dels \in SUBSET DN
        BY <3>2 DEF Tallied, States
      <3>4. jobs \in SUBSET Job
        BY <3>3, JobTypes
      <3>5. ASSUME causes = {}, cs = {} PROVE Right(view, d, jobs, m.attrs)
        <4>1. \A a \in {"memberof", "member"} : a \in m.changed \/ view[d][a] = {}
          BY <3>1, <3>5 DEF Attr
        <4> QED
          BY <1>0, <3>1, <3>2, <3>5, <4>1, RightModify
      <3> HIDE DEF jobs
      <3> QED
        BY <1>1, <3>1, <3>3, <3>4, <3>5, MirrorAccept
    <2>5. ASSUME NEW j \in req[c].jobs, membershipAdd(c, j) PROVE MirrorInv'
      <3>1. Exists(j.at) /\ UNCHANGED causes /\ j.do = "add"
        BY <2>5 DEF membershipAdd
      <3>2. CASE ReturnsEarly(j)
        <4>1. Skip(c, j) /\ j.who \in view[j.at][j.attr]
          BY <2>5, <3>1, <3>2 DEF membershipAdd, ReturnsEarly
        <4> QED
          BY <1>1, <3>1, <4>1, MirrorSkip
      <3>3. CASE ~ ReturnsEarly(j)
        <4>1. Assign(c, j, NewValues(j))
          BY <2>5, <3>3 DEF membershipAdd
        <4> QED
          BY <1>1, <3>1, <4>1, MirrorAssign
      <3> QED
        BY <3>2, <3>3
    <2>6. ASSUME NEW j \in req[c].jobs, membershipRemove(c, j) PROVE MirrorInv'
      <3>1. Exists(j.at) /\ j.do = "remove" /\ causes \subseteq causes'
        BY <2>6 DEF membershipRemove
      <3>2. CASE ReturnsEarly(j)
        <4>1. Skip(c, j) /\ (causes' = {} => j.who \notin view[j.at][j.attr])
          BY <2>6, <3>2 DEF membershipRemove
        <4> QED
          BY <1>1, <3>1, <4>1, MirrorSkip
      <3>3. CASE ~ ReturnsEarly(j)
        <4>1. Assign(c, j, NewValues(j))
          BY <2>6, <3>3 DEF membershipRemove
        <4> QED
          BY <1>1, <3>1, <4>1, MirrorAssign
      <3> QED
        BY <3>2, <3>3
    <2>7. ASSUME NEW j \in req[c].jobs, MemberMissing(c, j) PROVE MirrorInv'
      BY <1>1, <2>7, MirrorFails DEF MemberMissing
    <2>9. CASE Commit(c)
      BY <1>1, <2>9, MirrorCommit
    <2>10. CASE CommitFails(c)
      BY <1>1, <2>10, MirrorFails DEF CommitFails
    <2> QED
      BY <1>4, <2>1, <2>2, <2>3, <2>4, <2>5, <2>6, <2>7, <2>9, <2>10 DEF Handle
  <1> QED
    BY <1>2, <1>3, <1>4 DEF Next

\* member and memberOf agree in the whole directory whenever no request is
\* under way: the handlers' one-by-one updates, their early returns, commits,
\* failures before the first assignment and crashes never put them out of step,
\* unless one of the six causes that the model records has occurred.
THEOREM MembershipsMirror == Spec => []MirrorUnlessCaused
  <1>1. MirrorInv => MirrorUnlessCaused
    <2> SUFFICES ASSUME MirrorInv, Quiet, causes = {} PROVE Mirrored(view)
      BY DEF MirrorUnlessCaused
    <2>1. \A d, x \in DN, a \in Lists : x \in Listed(view, d, a) <=> d \in Listed(view, x, Other(a))
      BY DEF MirrorInv, InStep, Settled, Quiet
    <2>2. "member" \in Lists /\ Other("member") = "memberof"
      BY DEF Lists, Other
    <2> QED
      BY <2>1, <2>2 DEF Mirrored
  <1> QED
    BY <1>1, MirrorInit, MirrorNext, PTL DEF Spec
=============================================================================
