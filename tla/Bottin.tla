------------------------------- MODULE Bottin -------------------------------
(***************************************************************************)
(* service/bottin: the write operations of the LDAP server on its store.   *)
(*                                                                         *)
(* A handler reads entries from the store, checks the request,             *)
(* opens a transaction, stores the entry it is about, keeps member and     *)
(* memberOf of the other entries in step one by one, and commits.  Reads   *)
(* return the stored Attributes map itself, and membershipAdd and          *)
(* membershipRemove assign to it, so other handlers see these changes      *)
(* before the commit, and whether or not it happens.                       *)
(*                                                                         *)
(* The store is the one in memory (store/mem.go): a tree of entries behind *)
(* a lock, which a commit changes at once and a crash empties.  The other  *)
(* store commits to its table first and then patches its cache; that is in *)
(* PgCache, without these handlers.                                        *)
(* Requests the ACL refuses change nothing and are left out.               *)
(***************************************************************************)
EXTENDS Naturals, Sequences, FiniteSets

CONSTANTS
    DN,          \* the distinguished names at or below the base DN
    Base,        \* baseDN
    Parent,      \* DN.Parent of every other name
    Depth,       \* DN.Level: the number of components of a name
    Starts,      \* <<p, q>>: q's prefix string starts with p's as a string
    Clients,     \* concurrent LDAP handlers
    Ops,         \* bound: the kinds of requests clients send
    Directories, \* bound: directories that earlier requests have built
    MaxOps,      \* bound: requests accepted
    ChangeLists, \* bound: the lists of changes Modify requests carry
    MaxFaults,   \* bound: commits that fail
    MaxRestarts, \* bound: crashes of the server
    NoEntry

ASSUME NamesAssumption ==
    /\ Base \in DN
    /\ Parent \in [DN \ {Base} -> DN]
    /\ Depth \in [DN -> Nat \ {0}]
    /\ \A d \in DN \ {Base} : Depth[d] = Depth[Parent[d]] + 1
    \* a name starts with itself and with its parent
    /\ \A d \in DN : <<d, d>> \in Starts
    /\ \A d \in DN \ {Base} : <<Parent[d], d>> \in Starts
    /\ Starts \subseteq DN \X DN

ASSUME BottinBounds ==
    /\ Ops \subseteq {"add", "del", "modify", "passwd"}
    /\ {MaxOps, MaxFaults, MaxRestarts} \subseteq Nat

VARIABLES
    view,      \* the entries of the store, which handlers read
    req,       \* the request each client has under way
    ops,       \* requests accepted so far
    faults,    \* commits that failed so far
    restarts,  \* crashes so far
    causes     \* history: what may have put member and memberOf out of step

vars == <<view, req, ops, faults, restarts, causes>>

----------------------------------------------------------------------------
(* Data *)

\* Attributes the operations treat differently: memberof and entryuuid are
\* managed by the server, the others by clients.  An absent attribute and an
\* empty one are the same to every reader.
Attr      == {"objectclass", "entryuuid", "member", "memberof", "userpassword"}
Values    == DN \cup Clients \cup {"top", "id"}
Entry     == {e \in [Attr -> SUBSET Values] : e["member"] \cup e["memberof"] \subseteq DN}
Directory == [DN -> Entry \cup {NoEntry}]

\* Every entry but the base has its parent.
Closed(dir) == \A d \in DN \ {Base} : dir[d] # NoEntry => dir[Parent[d]] # NoEntry

\* The names that an attribute of an entry lists.
Listed(dir, d, a) == IF dir[d] = NoEntry THEN {} ELSE dir[d][a]

\* member and memberOf say the same.
Mirrored(dir) == \A g, m \in DN : m \in Listed(dir, g, "member") <=> g \in Listed(dir, m, "memberof")

\* A behaviour starts with a directory in order, in which no group is its own
\* member.
ASSUME DirectoriesAssumption ==
    /\ NoEntry \notin Entry
    /\ \A dir \in Directories : /\ dir \in Directory /\ Closed(dir) /\ Mirrored(dir)
                                /\ \A d \in DN : d \notin Listed(dir, d, "member")

NoAttributes == [a \in Attr |-> {}]

\* One call of membershipAdd or membershipRemove that a handler has to make;
\* calls of stage 1 come before those of stage 2.
Job    == [do : {"add", "remove"}, attr : {"member", "memberof"}, at : DN, who : DN, stage : {1, 2}]

\* A request: the entry it is about, the calls it still has to make, the
\* changes its transaction holds (for each name in wrote the last one), and
\* whether it has assigned in the store.
NoChange == [d \in DN |-> NoEntry]
IdleReq  == [busy |-> FALSE, dn |-> Base, jobs |-> {}, wrote |-> {}, staged |-> NoChange,
             touched |-> FALSE]
Requests == [busy : BOOLEAN, dn : DN, jobs : SUBSET Job, wrote : SUBSET DN, staged : Directory,
             touched : BOOLEAN]

\* What can put the directory out of step; see the actions that record them.
Causes == {"modify", "rewrite", "self", "arity", "raced", "failed"}

\* The types of the directory and the requests under way; a membership
\* update always names an entry of the directory.
BottinTypeOK ==
    /\ view \in Directory
    /\ req \in [Clients -> Requests]
    /\ {ops, faults, restarts} \subseteq Nat
    /\ causes \subseteq Causes

Init ==
    /\ view \in Directories
    /\ req = [c \in Clients |-> IdleReq]
    /\ ops = 0 /\ faults = 0 /\ restarts = 0 /\ causes = {}

Exists(d) == view[d] # NoEntry

\* List with exact = false: AscendRange from the prefix string to the string
\* with the largest rune appended, which is every string that starts with it.
List(p) == {q \in DN : Exists(q) /\ <<p, q>> \in Starts}

----------------------------------------------------------------------------
(* Accepting a request: the handler up to tx.Store or tx.Delete *)

\* Entries a request reads or writes.
Footprint(r) == {r.dn} \cup {j.at : j \in r.jobs}
                \cup (IF r.dn = Base THEN {} ELSE {Parent[r.dn]})

Overlaps(c, r) ==
    \E e \in Clients \ {c} :
        req[e].busy /\ Footprint(r) \cap (Footprint(req[e]) \cup req[e].wrote) # {}

Ready(c, op) == op \in Ops /\ ~ req[c].busy /\ ops < MaxOps

\* Request r of client c passed its checks; cs are the causes it records.
Accept(c, r, cs) ==
    /\ req' = [req EXCEPT ![c] = r]
    /\ ops' = ops + 1
    /\ causes' = causes \cup cs \cup (IF Overlaps(c, r) THEN {"raced"} ELSE {})
    /\ UNCHANGED <<view, faults, restarts>>

Started(d, jobs, entry) ==
    [busy |-> TRUE, dn |-> d, jobs |-> jobs, wrote |-> {d},
     staged |-> [NoChange EXCEPT ![d] = entry], touched |-> FALSE]

\* Mutant of AddJobs: the attribute key is not in lower case.
AddJobsRawKey(d, ms) == {[do |-> "add", attr |-> "memberOf", at |-> m, who |-> d, stage |-> 1] : m \in ms}

\* The memberships that follow from group d gaining or losing members.
AddJobs(d, ms)    == {[do |-> "add", attr |-> "memberof", at |-> m, who |-> d, stage |-> 1] : m \in ms}
RemoveJobs(d, ms) == {[do |-> "remove", attr |-> "memberof", at |-> m, who |-> d, stage |-> 2] : m \in ms}

Add(c, d, members) ==
    /\ Ready(c, "add")
    /\ d # Base /\ ~ Exists(d) /\ Exists(Parent[d])
    /\ \A m \in members : Exists(m)
    /\ Accept(c, Started(d, AddJobs(d, members),
                         [NoAttributes EXCEPT !["objectclass"] = {"top"}, !["entryuuid"] = {"id"},
                                              !["member"] = members]), {})

\* Mutants of Del: members keep the group in memberOf; children are not
\* looked for.
DelKeepsMemberOf(c, d) ==
    /\ Ready(c, "del") /\ List(d) = {d}
    /\ Accept(c, Started(d, {[do |-> "remove", attr |-> "member", at |-> g, who |-> d, stage |-> 1]
                                : g \in view[d]["memberof"]}, NoEntry), {})

DelWithChildren(c, d) ==
    /\ Ready(c, "del") /\ Exists(d)
    /\ Accept(c, Started(d, RemoveJobs(d, view[d]["member"]), NoEntry), {})

\* Refused when List returns anything but the entry itself.
Del(c, d) ==
    /\ Ready(c, "del")
    /\ List(d) = {d}
    /\ Accept(c, Started(d, {[do |-> "remove", attr |-> "member", at |-> g, who |-> d, stage |-> 1]
                                : g \in view[d]["memberof"]}
                            \cup RemoveJobs(d, view[d]["member"]), NoEntry), {})

\* PasswordModify: the whole entry as read, with the new hash.
Extended(c, d) ==
    /\ Ready(c, "passwd")
    /\ d # Base /\ Exists(d)
    /\ Accept(c, Started(d, {}, [view[d] EXCEPT !["userpassword"] = {c}]), {})

\* A change of one attribute; what a client may write in each.
Operation == {"add", "delete", "replace"}
Change == [op : Operation, attr : {"member"}, vals : SUBSET DN]
          \cup [op : Operation, attr : {"objectclass"}, vals : SUBSET {"top"}]
          \cup [op : Operation, attr : {"userpassword"}, vals : SUBSET Clients]

ASSUME ChangesAssumption == ChangeLists \subseteq Seq(Change)

\* One change of a Modify request on what the earlier ones left: the attribute
\* starts from its old value, and members that come and go are collected.
ApplyChange(prev, st, ch) ==
    LET a   == ch.attr
        old == IF a \in st.changed THEN st.attrs[a] ELSE prev[a]
        new == CASE ch.op = "add" -> old \cup ch.vals
                 [] ch.op = "delete" /\ ch.vals = {} -> {}
                 [] ch.op = "delete" -> old \ ch.vals
                 [] ch.op = "replace" -> ch.vals
        mem == a = "member"
    IN  [attrs   |-> [st.attrs EXCEPT ![a] = new],
         changed |-> st.changed \cup {a},
         adds    |-> st.adds \cup (IF mem THEN new \ old ELSE {}),
         dels    |-> st.dels \cup (IF mem THEN old \ new ELSE {})]

Modified(prev, changes) ==
    LET after[n \in 0..Len(changes)] ==
            IF n = 0 THEN [attrs |-> NoAttributes, changed |-> {}, adds |-> {}, dels |-> {}]
            ELSE ApplyChange(prev, after[n - 1], changes[n])
    IN  after[Len(changes)]

\* The entry that is stored has the attributes the request changed, and none
\* of the others.
Modify(c, d, changes) ==
    LET m == Modified(view[d], changes)
        lost == ({"memberof", "member"} \ m.changed) \cap {a \in Attr : view[d][a] # {}}
    IN  /\ Ready(c, "modify")
        /\ Exists(d)
        /\ \A x \in m.adds : Exists(x)
        /\ "objectclass" \in m.changed => m.attrs["objectclass"] # {}
        /\ Accept(c, Started(d, AddJobs(d, m.adds) \cup RemoveJobs(d, m.dels), m.attrs),
                  (IF lost # {} THEN {"modify"} ELSE {})
                  \cup (IF m.adds \cap m.dels # {} THEN {"rewrite"} ELSE {})
                  \cup (IF d \in m.adds \cup m.dels THEN {"self"} ELSE {}))

----------------------------------------------------------------------------
(* membershipAdd and membershipRemove *)

Next1(c) == {j \in req[c].jobs : \A k \in req[c].jobs : j.stage <= k.stage}

\* Request r once the call j is made and its entry stored in the transaction.
Stage(r, j, entry) ==
    [r EXCEPT !.jobs = r.jobs \ {j}, !.wrote = r.wrote \cup {j.at},
              !.staged[j.at] = entry, !.touched = TRUE]

\* The attribute is assigned in the map of the store, and a clone of the entry joins
\* the transaction.
Assign(c, j, vals) ==
    LET entry == [view[j.at] EXCEPT ![j.attr] = vals]
    IN  /\ view' = [view EXCEPT ![j.at] = entry]
        /\ req' = [req EXCEPT ![c] = Stage(req[c], j, entry)]

Skip(c, j) ==
    /\ req' = [req EXCEPT ![c].jobs = @ \ {j}]
    /\ UNCHANGED view

\* The list after the call, and when the call returns early: a list that has
\* the name already, and for removals a new list as long as len(member), which
\* is the number of components of the name.
NewValues(j) ==
    IF j.do = "add" THEN view[j.at][j.attr] \cup {j.who} ELSE view[j.at][j.attr] \ {j.who}

ReturnsEarly(j) ==
    IF j.do = "add" THEN j.who \in view[j.at][j.attr] ELSE Cardinality(NewValues(j)) = Depth[j.at]

membershipAdd(c, j) ==
    /\ j \in Next1(c) /\ j.do = "add" /\ Exists(j.at)
    /\ IF ReturnsEarly(j) THEN Skip(c, j) ELSE Assign(c, j, NewValues(j))
    /\ UNCHANGED <<ops, faults, restarts, causes>>

membershipRemove(c, j) ==
    /\ j \in Next1(c) /\ j.do = "remove" /\ Exists(j.at)
    /\ IF ReturnsEarly(j)
       THEN /\ Skip(c, j)
            /\ causes' = IF j.who \in view[j.at][j.attr] THEN causes \cup {"arity"} ELSE causes
       ELSE Assign(c, j, NewValues(j)) /\ UNCHANGED causes
    /\ UNCHANGED <<ops, faults, restarts>>

\* The handler returns an error: its transaction is forgotten, what it
\* assigned in the store stays.
Fails(c) ==
    /\ req' = [req EXCEPT ![c] = IdleReq]
    /\ causes' = IF req[c].touched THEN causes \cup {"failed"} ELSE causes

\* getEntry finds no entry to update.
MemberMissing(c, j) ==
    /\ j \in Next1(c) /\ ~ Exists(j.at)
    /\ Fails(c)
    /\ UNCHANGED <<view, ops, faults, restarts>>

----------------------------------------------------------------------------
(* Commit *)

\* The directory after the changes of request r.
Apply(dir, r) == [d \in DN |-> IF d \in r.wrote THEN r.staged[d] ELSE dir[d]]

Commit(c) ==
    /\ req[c].busy /\ req[c].jobs = {}
    /\ view' = Apply(view, req[c])
    /\ req' = [req EXCEPT ![c] = IdleReq]
    /\ UNCHANGED <<ops, faults, restarts, causes>>

\* The request's context is done when Commit looks at it.
CommitFails(c) ==
    /\ req[c].busy /\ req[c].jobs = {}
    /\ faults < MaxFaults /\ faults' = faults + 1
    /\ Fails(c)
    /\ UNCHANGED <<view, ops, restarts>>

----------------------------------------------------------------------------
(* Run: the store starts empty, and the base entry is created *)

BaseEntry == [NoAttributes EXCEPT !["objectclass"] = {"top"}, !["entryuuid"] = {"id"}]

Restart ==
    /\ restarts < MaxRestarts /\ restarts' = restarts + 1
    /\ view' = [NoChange EXCEPT ![Base] = BaseEntry]
    /\ req' = [c \in Clients |-> IdleReq]
    /\ UNCHANGED <<ops, faults, causes>>

----------------------------------------------------------------------------

Handle(c) ==
    \/ \E d \in DN, ms \in SUBSET DN : Add(c, d, ms)
    \/ \E d \in DN : Del(c, d) \/ Extended(c, d)
    \/ \E d \in DN, chs \in ChangeLists : Modify(c, d, chs)
    \/ \E j \in req[c].jobs : membershipAdd(c, j) \/ membershipRemove(c, j)
                            \/ MemberMissing(c, j)
    \/ Commit(c) \/ CommitFails(c)

Next == Restart \/ \E c \in Clients : Handle(c)

Spec == Init /\ [][Next]_vars

----------------------------------------------------------------------------
(* Properties *)

Quiet == \A c \in Clients : ~ req[c].busy

\* When no request is under way, member and memberOf agree in the whole
\* directory, unless one of the recorded causes has occurred: a Modify that
\* dropped the attributes it did not mention, that both added and removed a
\* member, or that is about the group itself; a membershipRemove that returned
\* early; requests on common entries that overlapped; a handler that failed
\* after assigning.
MirrorUnlessCaused == Quiet /\ causes = {} => Mirrored(view)

\* Every entry but the base has its parent, when requests on common entries
\* do not overlap.
TreeClosedUnlessRaced == "raced" \notin causes => Closed(view)

=============================================================================
