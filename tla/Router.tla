------------------------------- MODULE Router -------------------------------
(***************************************************************************)
(* The way of a node from netd's view of the cluster to the kernel's       *)
(* routes: Cluster.Run (service/net/cluster.go) keeps the view in a map    *)
(* and publishes the map itself, not a copy; Router.Run                    *)
(* (service/net/router/router.go) wakes up on each message, derives the    *)
(* routes it wants from the map as it then is, and brings the kernel's     *)
(* routes there one netlink call at a time.                                *)
(*                                                                         *)
(* Two goroutines share the map without a lock.  A write that overlaps the *)
(* router's iteration ends the process (the runtime's check for concurrent *)
(* map access), or goes unnoticed and the iteration sees the old or the    *)
(* new value.                                                              *)
(*                                                                         *)
(* The device the routes go through is the WireGuard service's, which      *)
(* deletes it at the end of its own Run, without a word to the router.     *)
(***************************************************************************)
EXTENDS Naturals, FiniteSets

CONSTANTS
    Nodes,       \* names of the nodes
    LocalNode,   \* the node netd runs on
    Addrs,       \* internal addresses
    NoAddr,      \* the invalid address of a node without an InternalIP
    Cidrs,       \* the IPv4 pod CIDRs
    Absent,      \* a node that is not in the map
    Direct,      \* netip.IPv4Unspecified, the gateway of a direct route
    BufferSize,  \* messages a subscriber's channel holds (5 in lib/broker)
    MaxUpdates,  \* bound: updates and deletions per behaviour
    MaxFaults,   \* bound: calls that fail for outside reasons, here or in WireGuard
    MaxStarts    \* bound: starts of the process

ASSUME RouterAssumption ==
    /\ LocalNode \in Nodes
    /\ NoAddr \notin Addrs
    /\ Direct \notin Addrs
    /\ Addrs \cap Cidrs = {}
    /\ BufferSize \in Nat \ {0}
    /\ MaxUpdates \in Nat /\ MaxFaults \in Nat /\ MaxStarts \in Nat

VARIABLES
    state,       \* Cluster.state: node -> ClusterNode or Absent
    publishing,  \* Cluster.Run wrote the map and is about to publish it
    pending,     \* messages in the router's channel
    pc,          \* the router: idle, read, apply, cleanup, done; dead: no process
    view,        \* what the iteration over the map in progress sees
    want,        \* the routes derived from the last iteration
    routes,      \* Router.routes
    kernel,      \* the kernel's routes of the WireGuard device
    device,      \* the WireGuard device is there
    err,         \* the error Router.Run ends with
    ctx,         \* the context is cancelled
    shadowed,    \* history: routes whose RouteAdd met another route
    silent,      \* history: nodes deleted since the last iteration began
    updates, faults, starts

vars == <<state, publishing, pending, pc, view, want, routes, kernel, err,
          device, ctx, shadowed, silent, updates, faults, starts>>

cluster == <<state, publishing, pending, silent, updates>>
tables  == <<want, routes, kernel, shadowed>>
outside == <<ctx, device, starts>>

ClusterNode == [ip : Addrs \cup {NoAddr}, cidrs : SUBSET Cidrs]
Route == [target : Addrs \cup Cidrs, via : Addrs \cup {Direct}]

directRoute(a) == [target |-> a, via |-> Direct]
isDirect(r) == r.via = Direct

\* The remote nodes the routes are derived from.
Remote(m) == {n \in Nodes \ {LocalNode} : m[n] # Absent /\ m[n].ip # NoAddr}

\* A point-to-point route per node, and its CIDRs by way of its address.
Desired(m) ==
    {directRoute(m[n].ip) : n \in Remote(m)} \cup
    UNION {{[target |-> c, via |-> m[n].ip] : c \in m[n].cidrs} : n \in Remote(m)}

NoNodes == [n \in Nodes |-> Absent]

Init ==
    /\ state = NoNodes /\ publishing = FALSE /\ pending = 0
    /\ pc = "idle" /\ view = NoNodes /\ want = {} /\ routes = {} /\ kernel = {}
    /\ err = "none" /\ ctx = FALSE /\ device = TRUE
    /\ shadowed = {} /\ silent = {} /\ updates = 0 /\ faults = 0 /\ starts = 1

-----------------------------------------------------------------------------
(* Cluster.Run.  Updates of different nodes arrive in any order (a work     *)
(* queue delivers them), so the map may name a CIDR or address twice.       *)

\* The map's write of v at n against an iteration that is under way.
Overlap(n, v) ==
    \/ pc # "read" /\ UNCHANGED <<pc, view>>
    \/ pc = "read" /\ pc' = pc /\ view' \in {view, [view EXCEPT ![n] = v]}
    \/ pc = "read" /\ pc' = "dead" /\ view' = view

WriteNode(n, node) ==
    /\ pc # "dead" /\ ~publishing /\ updates < MaxUpdates
    /\ state' = [state EXCEPT ![n] = node]
    /\ publishing' = TRUE
    /\ updates' = updates + 1
    /\ Overlap(n, node)
    /\ UNCHANGED <<pending, silent, tables, err, faults, outside>>

\* Mutant: a subscriber's channel without a bound.
PublishUnbounded ==
    /\ pc # "dead" /\ publishing
    /\ publishing' = FALSE
    /\ pending' = pending + 1
    /\ UNCHANGED <<state, silent, updates, pc, view, tables, err, faults, outside>>

\* Mutant: a channel without a buffer, so that a busy subscriber misses messages.
PublishUnbuffered ==
    /\ pc # "dead" /\ publishing
    /\ publishing' = FALSE
    /\ pending' = IF pc = "idle" THEN 1 ELSE pending
    /\ UNCHANGED <<state, silent, updates, pc, view, tables, err, faults, outside>>

\* The broker drops the message when the router's channel is full.
Publish ==
    /\ pc # "dead" /\ publishing
    /\ publishing' = FALSE
    /\ pending' = IF pending < BufferSize THEN pending + 1 ELSE pending
    /\ UNCHANGED <<state, silent, updates, pc, view, tables, err, faults, outside>>

\* A deletion changes the map and publishes nothing.
DeleteNode(n) ==
    /\ pc # "dead" /\ ~publishing /\ updates < MaxUpdates /\ state[n] # Absent
    /\ state' = [state EXCEPT ![n] = Absent]
    /\ silent' = silent \cup {n}
    /\ updates' = updates + 1
    /\ Overlap(n, Absent)
    /\ UNCHANGED <<publishing, pending, tables, err, faults, outside>>

-----------------------------------------------------------------------------
(* Router.Run and configureRoutes.                                          *)

Receive ==
    /\ pc = "idle" /\ pending > 0
    /\ pending' = pending - 1
    /\ pc' = "read" /\ view' = state /\ silent' = {}
    /\ UNCHANGED <<state, publishing, updates, tables, err, faults, outside>>

DeriveRoutes ==
    /\ pc = "read"
    /\ pc' = "apply" /\ want' = Desired(view)
    /\ UNCHANGED <<cluster, view, routes, kernel, shadowed, err, faults, outside>>

toadd == want \ routes
stale == routes \ want

\* The kernel keeps one route per target; a gateway has to be reachable.
Exists(r) == \E k \in kernel : k.target = r.target
Reachable(r) == isDirect(r) \/ directRoute(r.via) \in kernel

\* Mutant: the order without the sort's two cases.
MayAddUnsorted(r) == r \in toadd

\* Sorted: direct routes come before the others.
MayAdd(r) == r \in toadd /\ (isDirect(r) \/ \A q \in toadd : ~isDirect(q))

\* The kernel checks the gateway first; EEXIST counts as success.
addRoute(r) ==
    /\ pc = "apply" /\ MayAdd(r) /\ device
    /\ IF Reachable(r)
       THEN /\ routes' = routes \cup {r}
            /\ kernel' = IF Exists(r) THEN kernel ELSE kernel \cup {r}
            /\ shadowed' = IF Exists(r) THEN shadowed \cup {r} ELSE shadowed
            /\ UNCHANGED <<pc, err>>
       ELSE /\ pc' = "cleanup" /\ err' = "unreachable"
            /\ UNCHANGED <<routes, kernel, shadowed>>
    /\ UNCHANGED <<cluster, view, want, faults, outside>>

\* RouteAdd for a device that is gone.
AddNoDevice(r) ==
    /\ pc = "apply" /\ MayAdd(r) /\ ~device
    /\ pc' = "cleanup" /\ err' = "nodevice"
    /\ UNCHANGED <<cluster, view, tables, faults, outside>>

\* The routes to delete: stale ones once all are added, all of them at the end.
MayDel(r) ==
    \/ pc = "apply" /\ toadd = {} /\ r \in stale
    \/ pc = "cleanup" /\ r \in routes

\* A first error is the one Run returns, and ends cleanupRoutes.
Fail(e) ==
    /\ err' = IF err = "none" THEN e ELSE err
    /\ pc' = IF pc = "apply" THEN "cleanup" ELSE "done"

delRoute(r) ==
    /\ MayDel(r) /\ r \in kernel
    /\ kernel' = kernel \ {r}
    /\ routes' = routes \ {r}
    /\ UNCHANGED <<cluster, pc, view, want, shadowed, err, faults, outside>>

DelMissing(r) ==
    /\ MayDel(r) /\ r \notin kernel
    /\ Fail("missing")
    /\ UNCHANGED <<cluster, view, tables, faults, outside>>

NetlinkFails ==
    /\ faults < MaxFaults
    /\ \E r \in toadd \cup routes : MayDel(r) \/ (pc = "apply" /\ MayAdd(r))
    /\ faults' = faults + 1
    /\ Fail("netlink")
    /\ UNCHANGED <<cluster, view, tables, outside>>

Configured ==
    /\ pc = "apply" /\ toadd = {} /\ stale = {}
    /\ pc' = "idle"
    /\ UNCHANGED <<cluster, view, tables, err, faults, outside>>

-----------------------------------------------------------------------------
(* The end of Router.Run and of the process.                                *)

Cancel ==
    /\ pc # "dead" /\ ~ctx
    /\ ctx' = TRUE
    /\ UNCHANGED <<cluster, pc, view, tables, err, faults, device, starts>>

\* The deferred deleteInterface of WireGuard's Run, when the context is
\* cancelled or configureWireguard failed: the kernel drops the device's routes.
DeleteDevice ==
    /\ pc # "dead" /\ device
    /\ \/ ctx /\ UNCHANGED faults
       \/ ~ctx /\ faults < MaxFaults /\ faults' = faults + 1
    /\ device' = FALSE /\ kernel' = {}
    /\ UNCHANGED <<cluster, pc, view, want, routes, shadowed, err, ctx, starts>>

\* Mutant: Run without the deferred cleanup.
LeaveLoopDirty ==
    /\ pc = "idle" /\ ctx
    /\ pc' = "done"
    /\ UNCHANGED <<cluster, view, tables, err, faults, outside>>

LeaveLoop ==
    /\ pc = "idle" /\ ctx
    /\ pc' = "cleanup"
    /\ UNCHANGED <<cluster, view, tables, err, faults, outside>>

CleanedUp ==
    /\ pc = "cleanup" /\ routes = {}
    /\ pc' = "done"
    /\ UNCHANGED <<cluster, view, tables, err, faults, outside>>

\* Run.Run returns when it is cancelled or a service returned an error, and
\* main with it, while the other services clean up.
Exit ==
    /\ ctx \/ (pc = "done" /\ err # "none") \/ ~device
    /\ pc # "dead"
    /\ pc' = "dead"
    /\ UNCHANGED <<cluster, view, tables, err, faults, outside>>

\* Mutant: the device of the previous process is used again.
RestartKeepsDevice ==
    /\ pc = "dead" /\ starts < MaxStarts
    /\ starts' = starts + 1
    /\ state' = NoNodes /\ publishing' = FALSE /\ pending' = 0 /\ silent' = {}
    /\ pc' = "idle" /\ view' = NoNodes /\ want' = {} /\ routes' = {}
    /\ shadowed' = {} /\ err' = "none" /\ ctx' = FALSE /\ device' = TRUE
    /\ UNCHANGED <<kernel, updates, faults>>

\* createInterface deletes the device of the previous process first, and the
\* kernel drops the routes of a device that is deleted.
Restart ==
    /\ pc = "dead" /\ starts < MaxStarts
    /\ starts' = starts + 1
    /\ kernel' = {}
    /\ state' = NoNodes /\ publishing' = FALSE /\ pending' = 0 /\ silent' = {}
    /\ pc' = "idle" /\ view' = NoNodes /\ want' = {} /\ routes' = {}
    /\ shadowed' = {} /\ err' = "none" /\ ctx' = FALSE /\ device' = TRUE
    /\ UNCHANGED <<updates, faults>>

RouterStep ==
    \/ Receive \/ DeriveRoutes \/ Configured \/ LeaveLoop \/ CleanedUp
    \/ NetlinkFails
    \/ \E r \in Route : addRoute(r) \/ AddNoDevice(r) \/ delRoute(r) \/ DelMissing(r)

ClusterStep ==
    \/ \E n \in Nodes : DeleteNode(n) \/ \E node \in ClusterNode : WriteNode(n, node)
    \/ Publish

Next == RouterStep \/ ClusterStep \/ Cancel \/ DeleteDevice \/ Exit \/ Restart

Spec == Init /\ [][Next]_vars

\* Goroutines that can run do; nothing is assumed of updates, signals and restarts.
FairSpec == Spec /\ WF_vars(RouterStep) /\ WF_vars(Publish)

-----------------------------------------------------------------------------
\* Types; nothing beyond the channel's capacity is buffered.
RouterTypeOK ==
    /\ state \in [Nodes -> ClusterNode \cup {Absent}]
    /\ view \in [Nodes -> ClusterNode \cup {Absent}]
    /\ publishing \in BOOLEAN /\ ctx \in BOOLEAN /\ device \in BOOLEAN
    /\ pending \in 0..BufferSize
    /\ pc \in {"idle", "read", "apply", "cleanup", "done", "dead"}
    /\ want \subseteq Route /\ routes \subseteq Route /\ kernel \subseteq Route
    /\ err \in {"none", "unreachable", "missing", "nodevice", "netlink"}
    /\ shadowed \subseteq Route /\ silent \subseteq Nodes
    /\ updates \in 0..MaxUpdates /\ faults \in 0..MaxFaults

\* What the kernel routes is known to Router.routes, so that it is removed when
\* stale and at the end (delRoute, cleanupRoutes); and a route the router
\* believes in is missing from the kernel only when its RouteAdd met another
\* route of the same target, an error addRoute takes for success, or when
\* WireGuard has deleted the device, and with it every route at once.
KernelTracked ==
    pc # "dead" => /\ kernel \subseteq routes
                   /\ device => routes \ kernel \subseteq shadowed
                   /\ ~device => kernel = {}

\* With the sort of configureRoutes no route is ever added before its gateway is
\* reachable, and a route is missing at its removal only after such a clash or
\* when WireGuard deleted the device before cleanupRoutes was done.
ErrorsExplained ==
    /\ err # "unreachable"
    /\ err = "missing" => shadowed # {} \/ ~device
    /\ err = "nodevice" => ~device

\* When the router has nothing left to do, its routes are those of the cluster's
\* map, also after messages were dropped or an iteration overlapped a write;
\* the exception is a node deleted since, which Cluster.Run does not publish.
CaughtUp ==
    (pc = "idle" /\ ~publishing /\ pending = 0 /\ silent = {}) =>
        routes = Desired(state)

\* A router that ended without an error left no route behind.
CleanExit == (pc = "done" /\ err = "none") => kernel = {}

\* Once the cluster rests the routes follow it for good, unless a deletion was
\* left unpublished or the router stopped.
EventuallyFollows ==
    <>[](pc \in {"cleanup", "done", "dead"} \/ silent # {} \/ routes = Desired(state))
=============================================================================
