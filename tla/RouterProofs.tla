---------------------------- MODULE RouterProofs ----------------------------
(***************************************************************************)
(* Proofs about Router for any nodes, addresses, CIDRs and buffer size.    *)
(*                                                                         *)
(* Tables relates the kernel's table to the router's: it needs that routes *)
(* are well formed, that direct routes never clash, and that the wanted    *)
(* routes contain their gateways.  Fresh follows the map from a write to   *)
(* the routes: while nothing is published, buffered or silently deleted,   *)
(* the iteration, and later the wanted routes, are those of the map.       *)
(***************************************************************************)
EXTENDS Router, TLAPS

\* A direct route leads to an address, any other one to a CIDR.
WellFormed(r) == IF isDirect(r) THEN r.target \in Addrs
                                ELSE r.target \in Cidrs /\ r.via \in Addrs

Shapes ==
    /\ \A r \in want \cup routes \cup kernel : WellFormed(r)
    /\ \A r \in want : ~isDirect(r) => directRoute(r.via) \in want

DirectNeverShadowed == \A r \in shadowed : ~isDirect(r)

Ended == (pc = "done" /\ err = "none") => routes = {}

Tables == Shapes /\ DirectNeverShadowed /\ KernelTracked /\ ErrorsExplained /\ Ended

Quiet == ~publishing /\ pending = 0 /\ silent = {}

Fresh ==
    /\ Quiet /\ pc = "read" => view = state
    /\ Quiet /\ pc \in {"apply", "idle"} => want = Desired(state)
    /\ pc = "idle" => routes = want

-----------------------------------------------------------------------------
\* The routes derived from a map are well formed and contain their gateways.
LEMMA DesiredShape ==
    ASSUME NEW m \in [Nodes -> ClusterNode \cup {Absent}]
    PROVE  /\ Desired(m) \subseteq Route
           /\ \A r \in Desired(m) : WellFormed(r)
           /\ \A r \in Desired(m) : ~isDirect(r) => directRoute(r.via) \in Desired(m)
<1>1. ASSUME NEW n \in Remote(m)
      PROVE  m[n].ip \in Addrs /\ m[n].cidrs \subseteq Cidrs
  BY DEF Remote, ClusterNode
<1>2. ASSUME NEW r \in Desired(m)
      PROVE  \E n \in Remote(m) :
                \/ r = directRoute(m[n].ip)
                \/ \E c \in m[n].cidrs : r = [target |-> c, via |-> m[n].ip]
  BY DEF Desired
<1>3. ASSUME NEW r \in Desired(m)
      PROVE  r \in Route /\ WellFormed(r)
                /\ (~isDirect(r) => directRoute(r.via) \in Desired(m))
  <2>1. PICK n \in Remote(m) :
                \/ r = directRoute(m[n].ip)
                \/ \E c \in m[n].cidrs : r = [target |-> c, via |-> m[n].ip]
    BY <1>2
  <2>2. m[n].ip \in Addrs /\ m[n].cidrs \subseteq Cidrs
    BY <1>1
  <2>3. directRoute(m[n].ip) \in Desired(m)
    BY DEF Desired
  <2>4. CASE r = directRoute(m[n].ip)
    BY <2>2, <2>4 DEF directRoute, Route, WellFormed, isDirect
  <2>5. CASE \E c \in m[n].cidrs : r = [target |-> c, via |-> m[n].ip]
    <3>1. PICK c \in m[n].cidrs : r = [target |-> c, via |-> m[n].ip]
      BY <2>5
    <3>2. r.via = m[n].ip /\ r.target = c /\ c \in Cidrs /\ r.via # Direct
      BY <3>1, <2>2, RouterAssumption
    <3>3. QED
      BY <3>1, <3>2, <2>2, <2>3 DEF Route, WellFormed, isDirect
  <2>6. QED
    BY <2>1, <2>4, <2>5
<1>4. QED
  BY <1>3

LEMMA RouterTypeInit == Init => RouterTypeOK
<1>1. NoNodes \in [Nodes -> ClusterNode \cup {Absent}]
  BY DEF NoNodes
<1>2. Init => publishing \in BOOLEAN /\ ctx \in BOOLEAN /\ device \in BOOLEAN
  BY Zenon DEF Init
<1>3. Init => /\ pending \in 0..BufferSize /\ updates \in 0..MaxUpdates /\ faults \in 0..MaxFaults
              /\ state = NoNodes /\ view = NoNodes
              /\ pc = "idle" /\ err = "none" /\ want = {} /\ routes = {} /\ kernel = {}
              /\ shadowed = {} /\ silent = {}
  BY RouterAssumption DEF Init
<1>4. QED
  BY <1>1, <1>2, <1>3 DEF RouterTypeOK

\* Every step keeps the types.
LEMMA RouterTypeStep == RouterTypeOK /\ [Next]_vars => RouterTypeOK'
<1> SUFFICES ASSUME RouterTypeOK, [Next]_vars PROVE RouterTypeOK'
  OBVIOUS
<1> USE RouterAssumption DEF RouterTypeOK
<1>1. ASSUME NEW n \in Nodes, NEW node \in ClusterNode, WriteNode(n, node) PROVE RouterTypeOK'
  BY <1>1 DEF WriteNode, Overlap, tables, outside
<1>2. CASE Publish
  <2>1. pending' \in 0..BufferSize
    <3>1. CASE pending < BufferSize
      BY <1>2, <3>1 DEF Publish
    <3>2. CASE ~(pending < BufferSize)
      BY <1>2, <3>2 DEF Publish
    <3>3. QED
      BY <3>1, <3>2
  <2>2. QED
    BY <1>2, <2>1 DEF Publish, tables, outside
<1>3. ASSUME NEW n \in Nodes, DeleteNode(n) PROVE RouterTypeOK'
  BY <1>3 DEF DeleteNode, Overlap, tables, outside
<1>4. CASE Receive
  BY <1>4 DEF Receive, tables, outside
<1>5. CASE DeriveRoutes
  BY <1>5, DesiredShape DEF DeriveRoutes, cluster, outside
<1>6. ASSUME NEW r \in Route, addRoute(r) PROVE RouterTypeOK'
  BY <1>6 DEF addRoute, cluster, outside
<1>6a. ASSUME NEW r \in Route, AddNoDevice(r) PROVE RouterTypeOK'
  BY <1>6a DEF AddNoDevice, cluster, tables, outside
<1>7. ASSUME NEW r \in Route, delRoute(r) PROVE RouterTypeOK'
  BY <1>7 DEF delRoute, cluster, outside
<1>8. ASSUME NEW r \in Route, DelMissing(r) PROVE RouterTypeOK'
  BY <1>8 DEF DelMissing, Fail, cluster, tables, outside
<1>9. CASE NetlinkFails
  BY <1>9 DEF NetlinkFails, Fail, cluster, tables, outside
<1>10. CASE Configured \/ LeaveLoop \/ CleanedUp \/ Exit
  BY <1>10 DEF Configured, LeaveLoop, CleanedUp, Exit, cluster, tables, outside
<1>11. CASE Cancel
  BY <1>11 DEF Cancel, cluster, tables
<1>11a. CASE DeleteDevice
  <2>1. device' \in BOOLEAN
    BY <1>11a, Zenon DEF DeleteDevice
  <2>2. kernel' = {} /\ faults' \in 0..MaxFaults /\ UNCHANGED <<cluster, pc, view, want, routes, shadowed, err, ctx>>
    BY <1>11a DEF DeleteDevice
  <2>3. QED
    BY <2>1, <2>2 DEF cluster
<1>12. CASE Restart
  <2>1. NoNodes \in [Nodes -> ClusterNode \cup {Absent}]
    BY DEF NoNodes
  <2>2. publishing' \in BOOLEAN /\ ctx' \in BOOLEAN /\ device' \in BOOLEAN
    BY <1>12, Zenon DEF Restart
  <2>3. /\ pending' = 0 /\ updates' = updates /\ faults' = faults
        /\ state' = NoNodes /\ view' = NoNodes
        /\ pc' = "idle" /\ err' = "none" /\ want' = {} /\ routes' = {} /\ kernel' = {}
        /\ shadowed' = {} /\ silent' = {}
    BY <1>12 DEF Restart
  <2>4. QED
    BY <2>1, <2>2, <2>3
<1>13. CASE UNCHANGED vars
  BY <1>13 DEF vars
<1>14. QED
  BY <1>1, <1>2, <1>3, <1>4, <1>5, <1>6, <1>6a, <1>7, <1>8, <1>9, <1>10, <1>11, <1>11a, <1>12, <1>13
  DEF Next, RouterStep, ClusterStep

\* Types of the router, for any constants; no more messages are buffered than the
\* subscriber's channel holds.
THEOREM RouterTypeCorrect == Spec => []RouterTypeOK
  BY RouterTypeInit, RouterTypeStep, PTL DEF Spec

-----------------------------------------------------------------------------
\* A direct route to be added meets no other route of the kernel.
LEMMA DirectIsNew ==
    ASSUME RouterTypeOK, Tables, pc # "dead", NEW r \in Route, MayAdd(r), isDirect(r)
    PROVE  ~Exists(r)
<1> SUFFICES ASSUME NEW k \in kernel, k.target = r.target PROVE FALSE
  BY DEF Exists
<1>1. WellFormed(k) /\ WellFormed(r) /\ k \in routes /\ k \in Route /\ r \notin routes
  BY DEF Tables, Shapes, KernelTracked, MayAdd, toadd, RouterTypeOK
<1>2. isDirect(k)
  BY <1>1, RouterAssumption DEF WellFormed
<1>3. k = r
  BY <1>1, <1>2 DEF isDirect, Route
<1>4. QED
  BY <1>1, <1>3

\* A route whose turn it is has a reachable gateway: direct routes come first.
LEMMA GatewayReachable ==
    ASSUME RouterTypeOK, Tables, pc # "dead", device, NEW r \in Route, MayAdd(r)
    PROVE  Reachable(r)
<1> SUFFICES ASSUME ~isDirect(r) PROVE directRoute(r.via) \in kernel
  BY DEF Reachable
<1>1. directRoute(r.via) \in want
  BY DEF Tables, Shapes, MayAdd, toadd
<1>2. isDirect(directRoute(r.via))
  BY DEF isDirect, directRoute
<1>3. directRoute(r.via) \in routes
  BY <1>1, <1>2 DEF MayAdd, toadd
<1>4. QED
  BY <1>2, <1>3 DEF Tables, KernelTracked, DirectNeverShadowed

LEMMA TablesInit == Init => Tables
  BY DEF Init, Tables, Shapes, DirectNeverShadowed, KernelTracked, ErrorsExplained, Ended

LEMMA TablesStep == RouterTypeOK /\ Tables /\ [Next]_vars => Tables'
<1> SUFFICES ASSUME RouterTypeOK, Tables, [Next]_vars PROVE Tables'
  OBVIOUS
<1> USE DEF Tables, Shapes, DirectNeverShadowed, KernelTracked, ErrorsExplained, Ended
<1>1. ASSUME NEW n \in Nodes, NEW node \in ClusterNode, WriteNode(n, node) PROVE Tables'
  BY <1>1 DEF WriteNode, Overlap, tables, outside
<1>2. CASE Publish
  BY <1>2 DEF Publish, tables, outside
<1>3. ASSUME NEW n \in Nodes, DeleteNode(n) PROVE Tables'
  BY <1>3 DEF DeleteNode, Overlap, tables, outside
<1>4. CASE Receive
  BY <1>4 DEF Receive, tables, outside
<1>5. CASE DeriveRoutes
  BY <1>5, DesiredShape DEF DeriveRoutes, cluster, outside, RouterTypeOK
<1>6. ASSUME NEW r \in Route, addRoute(r) PROVE Tables'
  <2>1. pc = "apply" /\ MayAdd(r) /\ Reachable(r) /\ r \in want /\ device /\ device' = device
    BY <1>6, GatewayReachable DEF addRoute, MayAdd, toadd, outside
  <2>2. WellFormed(r)
    BY <2>1
  <2>3. isDirect(r) => ~Exists(r)
    BY <2>1, DirectIsNew
  <2>4. CASE Exists(r)
    BY <1>6, <2>1, <2>2, <2>3, <2>4 DEF addRoute
  <2>5. CASE ~Exists(r)
    BY <1>6, <2>1, <2>2, <2>5 DEF addRoute
  <2>6. QED
    BY <2>4, <2>5
<1>6a. ASSUME NEW r \in Route, AddNoDevice(r) PROVE Tables'
  BY <1>6a DEF AddNoDevice, cluster, tables, outside
<1>7. ASSUME NEW r \in Route, delRoute(r) PROVE Tables'
  BY <1>7 DEF delRoute, MayDel, cluster, outside
<1>8. ASSUME NEW r \in Route, DelMissing(r) PROVE Tables'
  <2>1. r \in routes /\ r \notin kernel /\ pc # "dead"
    BY <1>8 DEF DelMissing, MayDel, stale
  <2>2. shadowed # {} \/ ~device
    BY <2>1
  <2>3. QED
    BY <1>8, <2>1, <2>2 DEF DelMissing, Fail, tables, outside
<1>9. CASE NetlinkFails
  BY <1>9 DEF NetlinkFails, MayDel, Fail, cluster, tables, outside
<1>10. CASE Configured \/ LeaveLoop \/ CleanedUp \/ Exit
  BY <1>10 DEF Configured, LeaveLoop, CleanedUp, Exit, cluster, tables, outside
<1>11. CASE Cancel
  BY <1>11 DEF Cancel, cluster, tables
<1>11a. CASE DeleteDevice
  BY <1>11a DEF DeleteDevice, cluster
<1>12. CASE Restart
  BY <1>12 DEF Restart
<1>13. CASE UNCHANGED vars
  BY <1>13 DEF vars
<1>14. QED
  BY <1>1, <1>2, <1>3, <1>4, <1>5, <1>6, <1>6a, <1>7, <1>8, <1>9, <1>10, <1>11, <1>11a, <1>12, <1>13
  DEF Next, RouterStep, ClusterStep

\* The kernel's routes are known to the router, and the router's are in the kernel
\* unless their RouteAdd met another route or WireGuard deleted the device.
THEOREM KernelIsTracked == Spec => []KernelTracked
  BY RouterTypeInit, RouterTypeStep, TablesInit, TablesStep, PTL DEF Spec, Tables

\* No route is added before its gateway, and no route is missing at its removal
\* unless an earlier RouteAdd met another route or WireGuard deleted the device.
THEOREM ErrorsAreExplained == Spec => []ErrorsExplained
  BY RouterTypeInit, RouterTypeStep, TablesInit, TablesStep, PTL DEF Spec, Tables

\* A router that ends without an error removed every route it added.
THEOREM RouterCleansUp == Spec => []CleanExit
<1>1. Tables => CleanExit
  BY DEF Tables, Ended, KernelTracked, CleanExit
<1>2. QED
  BY <1>1, RouterTypeInit, RouterTypeStep, TablesInit, TablesStep, PTL DEF Spec

-----------------------------------------------------------------------------
LEMMA FreshInit == Init => Fresh
<1>1. Desired(NoNodes) = {}
  BY DEF Desired, Remote, NoNodes
<1>2. QED
  BY <1>1 DEF Init, Fresh

LEMMA FreshStep == RouterTypeOK /\ Fresh /\ [Next]_vars => Fresh'
<1> SUFFICES ASSUME RouterTypeOK, Fresh, [Next]_vars PROVE Fresh'
  OBVIOUS
<1> USE DEF Fresh, Quiet
<1>1. ASSUME NEW n \in Nodes, NEW node \in ClusterNode, WriteNode(n, node) PROVE Fresh'
  BY <1>1 DEF WriteNode, Overlap, tables, outside
<1>2. CASE Publish
  <2>1. pending' # 0
    BY <1>2, RouterAssumption DEF Publish, RouterTypeOK
  <2>2. QED
    BY <1>2, <2>1 DEF Publish, tables
<1>3. ASSUME NEW n \in Nodes, DeleteNode(n) PROVE Fresh'
  BY <1>3 DEF DeleteNode, Overlap, tables
<1>4. CASE Receive
  BY <1>4 DEF Receive, tables
<1>5. CASE DeriveRoutes
  BY <1>5 DEF DeriveRoutes, cluster
<1>6. ASSUME NEW r \in Route, addRoute(r) PROVE Fresh'
  BY <1>6 DEF addRoute, cluster
<1>6a. ASSUME NEW r \in Route, AddNoDevice(r) PROVE Fresh'
  BY <1>6a DEF AddNoDevice, cluster, tables
<1>7. ASSUME NEW r \in Route, delRoute(r) PROVE Fresh'
  BY <1>7 DEF delRoute, MayDel, cluster
<1>8. ASSUME NEW r \in Route, DelMissing(r) PROVE Fresh'
  BY <1>8 DEF DelMissing, MayDel, Fail, cluster, tables
<1>9. CASE NetlinkFails
  BY <1>9 DEF NetlinkFails, MayDel, Fail, cluster, tables
<1>10. CASE Configured
  BY <1>10 DEF Configured, toadd, stale, cluster, tables
<1>11. CASE LeaveLoop \/ CleanedUp \/ Exit
  BY <1>11 DEF LeaveLoop, CleanedUp, Exit, cluster, tables
<1>12. CASE Cancel
  BY <1>12 DEF Cancel, cluster, tables
<1>12a. CASE DeleteDevice
  BY <1>12a DEF DeleteDevice, cluster
<1>13. CASE Restart
  <2>1. Desired(NoNodes) = {}
    BY DEF Desired, Remote, NoNodes
  <2>2. QED
    BY <1>13, <2>1 DEF Restart
<1>14. CASE UNCHANGED vars
  BY <1>14 DEF vars
<1>15. QED
  BY <1>1, <1>2, <1>3, <1>4, <1>5, <1>6, <1>6a, <1>7, <1>8, <1>9, <1>10, <1>11, <1>12, <1>12a, <1>13, <1>14
  DEF Next, RouterStep, ClusterStep

\* An idle router with nothing published, buffered or silently deleted has exactly
\* the routes of the cluster's map, however many messages were dropped.
THEOREM RouterCatchesUp == Spec => []CaughtUp
<1>1. Fresh => CaughtUp
  BY DEF Fresh, Quiet, CaughtUp
<1>2. QED
  BY <1>1, RouterTypeInit, RouterTypeStep, FreshInit, FreshStep, PTL DEF Spec
=============================================================================
