-------------------------------- MODULE Netd --------------------------------
(***************************************************************************)
(* netd: the controller publishes the nodes of the cluster on a broker,    *)
(* Local and Cluster take them up and publish on brokers of their own, and *)
(* an agent, WireGuard or CNI, configures the kernel from what both tell   *)
(* it.  The agents share nothing but what they listen to, so a behaviour   *)
(* has one of them; Router, a third, has its module.                       *)
(*                                                                         *)
(* Cluster publishes its map, not a copy, so its message is only a reason  *)
(* to look at the map; the other messages carry what they say and are gone *)
(* when a full channel drops them.  Local and Cluster publish in the step  *)
(* that takes a message, as their brokers take every message at once.  A   *)
(* node is its key (NoKey also stands for a missing endpoint) and the list *)
(* of its CIDRs, each an address with a mask.                              *)
(***************************************************************************)
EXTENDS Naturals, Sequences, FiniteSets

CONSTANTS
  Nodes, LocalNode,
  Keys,        \* the keys of other nodes
  Cidrs,
  Address,     \* the address of each CIDR, whatever its mask
  InitialNodes,\* the nodes there may be at first
  NodeValues,  \* the values Kubernetes gives to each node later
  Absent,      \* no such node
  Unparsable,  \* a node that net.handle rejects
  NoKey,
  BufferSize,  \* messages a channel of a broker holds (5 in lib/broker)
  MaxChanges,  \* bound: changes made by others in Kubernetes
  MaxFaults,   \* bound: failing calls and crashes
  MaxStarts    \* bound: starts of the process

OwnKeys == 1..MaxStarts   \* the keys this node generates, in order
Node == [key : Keys \cup {NoKey} \cup OwnKeys, cidrs : Seq(Cidrs)]

\* Nobody else has a key of this node to give.
Foreign(v) == v \in {Absent, Unparsable} \/ (v \in Node /\ v.key \notin OwnKeys)

ASSUME NetdAssumption ==
  /\ LocalNode \in Nodes
  /\ Absent \notin Node /\ Unparsable \notin Node /\ Absent # Unparsable
  /\ \A f \in InitialNodes : f \in [Nodes -> Node \cup {Absent, Unparsable}]
                             /\ \A n \in Nodes : Foreign(f[n])
  /\ \A n \in Nodes : \A v \in NodeValues[n] : Foreign(v)
  /\ BufferSize \in Nat \ {0}
  /\ {MaxChanges, MaxFaults, MaxStarts} \subseteq Nat
  /\ NoKey \notin Nat

VARIABLES
  component,   \* the agent: "wireguard" or "cni"
  proc,        \* "dead", "building", "up"
  agent,       \* the agent's Run: "running", "breaking" with an error, "ended", "failed"
  ctx,         \* the context of the services is cancelled
  closed,      \* the brokers have ended and closed their channels
  api,         \* the nodes in Kubernetes
  dirty,       \* names in the work queue of the controller
  inbox,       \* channels of Local and Cluster
  port,        \* Local.port is known
  annotating,  \* Local.Run is about to write its key
  nodes,       \* Cluster.state
  localInbox,  \* the agent's channel of Local: is the port known
  clusterInbox,\* the agent's channel of Cluster: messages
  hasLocal,    \* the LocalEvent the agent has: "none", "noport", "port"
  hasMap,      \* the agent has the map; otherwise nil
  peers,       \* Wireguard.peers, Absent before the first configuration
  device,      \* the WireGuard device: its address and its peers
  cni,         \* CNI: the configuration written and the rules added
  bridge,      \* addresses of the bridge, by their CIDR
  file,        \* the CNI configuration file
  iptables,    \* CIDRs that have rules
  key,
  keyFile,     \* the key that can be read from the key file, or NoKey
  givenUp,     \* history: keys of a file that could not be read once
  lost,        \* history: nodes whose last event a channel dropped
  silent,      \* history: deletions since the agent last looked at the map
  renumbered,  \* history: the CIDRs of the local node changed under CNI
  unclean,     \* history: a process ended before CNI cleaned up
  changes, faults, starts

wireguardVars == <<peers, device>>
cniVars == <<cni, bridge, file, iptables, renumbered>>
agentVars == <<agent, hasLocal, hasMap, wireguardVars, cniVars>>
keyVars == <<key, keyFile, givenUp>>
localVars == <<port, annotating, keyVars>>
procVars == <<component, proc, ctx, closed, unclean>>
counters == <<changes, faults, starts>>
vars == <<procVars, api, dirty, inbox, localVars, nodes, localInbox, clusterInbox, agentVars, lost,
          silent, counters>>

NoNodes == [n \in Nodes |-> Absent]
Subscribers == {"local", "cluster", "agent"}
NoDevice == [ip |-> FALSE, peers |-> {}]
NoConfig == [written |-> Absent, rules |-> {}]
Known(n) == api[n] \notin {Absent, Unparsable}

Init ==
  /\ component \in {"wireguard", "cni"}
  /\ proc = "dead" /\ agent = "running" /\ ctx = FALSE /\ closed = FALSE
  /\ api \in InitialNodes
  /\ dirty = {} /\ inbox = [s \in {"local", "cluster"} |-> << >>]
  /\ port = FALSE /\ annotating = FALSE /\ key = NoKey /\ keyFile = NoKey /\ givenUp = {}
  /\ nodes = NoNodes /\ localInbox = << >> /\ clusterInbox = 0
  /\ hasLocal = "none" /\ hasMap = FALSE
  /\ peers = Absent /\ device = NoDevice /\ cni = NoConfig /\ bridge = {} /\ file = Absent /\ iptables = {}
  /\ lost = [s \in Subscribers |-> {}] /\ silent = FALSE /\ renumbered = FALSE /\ unclean = FALSE
  /\ changes = 0 /\ faults = 0 /\ starts = 0

Fault == faults < MaxFaults /\ faults' = faults + 1 /\ UNCHANGED <<changes, starts>>
Up == proc = "up" /\ ~ ctx

-----------------------------------------------------------------------------
(***************************************************************************)
(* Start and end of the process.  NewLocal generates and stores a key when *)
(* it cannot get one from the file, be it missing, unreadable or not a     *)
(* key.                                                                    *)
(***************************************************************************)
NewLocal ==
  /\ proc = "dead" /\ starts < MaxStarts
  /\ starts' = starts + 1 /\ proc' = "building" /\ UNCHANGED changes
  /\ \/ keyFile # NoKey /\ key' = keyFile /\ UNCHANGED <<givenUp, faults>>
     \/ keyFile = NoKey /\ key' = starts + 1 /\ UNCHANGED <<givenUp, faults>>
     \/ /\ keyFile # NoKey /\ key' = starts + 1
        /\ givenUp' = givenUp \cup {keyFile}
        /\ faults < MaxFaults /\ faults' = faults + 1
  /\ UNCHANGED <<component, ctx, closed, unclean, api, dirty, inbox, port, annotating, keyFile, nodes,
                 localInbox, clusterInbox, agentVars, lost, silent>>

\* A write that fails or is cut off may have emptied the file before.
StoreKey ==
  /\ proc = "building" /\ keyFile # key
  /\ \/ keyFile' = key /\ UNCHANGED <<proc, counters>>
     \/ proc' = "dead" /\ Fault /\ keyFile' \in {keyFile, NoKey}
  /\ UNCHANGED <<component, ctx, closed, unclean, api, dirty, inbox, port, annotating, key, givenUp, nodes,
                 localInbox, clusterInbox, agentVars, lost, silent>>

\* The WireGuard device is replaced, a bridge that is found is kept.  The
\* agent subscribes first; then comes the first event of Local, without a
\* port; the controller is last and lists the nodes.
Started ==
  /\ proc' = "up"
  /\ device' = IF component = "wireguard" THEN NoDevice ELSE device
  /\ localInbox' = <<FALSE>>
  /\ dirty' = {n \in Nodes : api[n] # Absent}
  /\ UNCHANGED <<component, ctx, closed, unclean, api, inbox, localVars, nodes, clusterInbox, agent,
                 hasLocal, hasMap, peers, cniVars, lost, silent, counters>>

\* Mutant: a key that was generated is not stored.
RunUnstored == proc = "building" /\ Started

Run == proc = "building" /\ keyFile = key /\ Started

\* What ends with the process.
Dies ==
  /\ proc' = "dead" /\ agent' = "running" /\ ctx' = FALSE /\ closed' = FALSE
  /\ dirty' = {} /\ inbox' = [s \in {"local", "cluster"} |-> << >>]
  /\ port' = FALSE /\ annotating' = FALSE /\ nodes' = NoNodes
  /\ localInbox' = << >> /\ clusterInbox' = 0 /\ hasLocal' = "none" /\ hasMap' = FALSE
  /\ peers' = Absent /\ cni' = NoConfig
  /\ lost' = [s \in Subscribers |-> {}] /\ silent' = FALSE /\ renumbered' = FALSE
  /\ unclean' = (unclean \/ iptables # {})
  /\ UNCHANGED <<component, api, keyVars, device, bridge, file, iptables>>

Crash == proc # "dead" /\ Fault /\ Dies

\* A signal.  Net, Local and Cluster end; what they might still do is left out.
Cancel ==
  /\ Up /\ ctx' = TRUE
  /\ UNCHANGED <<component, proc, closed, unclean, api, dirty, inbox, localVars, nodes, localInbox,
                 clusterInbox, agentVars, lost, silent, counters>>

BrokersEnd ==
  /\ proc = "up" /\ ctx /\ ~ closed
  /\ closed' = TRUE
  /\ UNCHANGED <<component, proc, ctx, unclean, api, dirty, inbox, localVars, nodes, localInbox,
                 clusterInbox, agentVars, lost, silent, counters>>

\* main does not wait for the services: it ends after a signal or an error,
\* whatever they are doing.
Exit == proc = "up" /\ (ctx \/ agent = "failed") /\ Dies /\ UNCHANGED counters

-----------------------------------------------------------------------------
(***************************************************************************)
(* Kubernetes and Net.  The controller calls handle with the node as it    *)
(* then is; a node that cannot be parsed is given up after some retries.   *)
(* A message that finds a channel full is dropped for it.                  *)
(***************************************************************************)
Delivered(ch, msg) == IF Len(ch) < BufferSize THEN Append(ch, msg) ELSE ch

\* Before the first start the nodes are anything already.
Change(n, v) ==
  /\ changes < MaxChanges /\ api[n] # v /\ (Up \/ (proc = "dead" /\ starts > 0))
  /\ changes' = changes + 1
  /\ api' = [api EXCEPT ![n] = v]
  /\ dirty' = IF Up THEN dirty \cup {n} ELSE dirty
  /\ UNCHANGED <<procVars, inbox, localVars, nodes, localInbox, clusterInbox, agentVars, lost, silent,
                 faults, starts>>

PublishEvent(n) ==
  /\ inbox' = [s \in DOMAIN inbox |-> Delivered(inbox[s], [name |-> n, node |-> api[n]])]
  /\ lost' = [s \in Subscribers |->
                IF s = "agent" THEN lost[s]
                ELSE IF Len(inbox[s]) < BufferSize THEN lost[s] \ {n} ELSE lost[s] \cup {n}]

handle(n) ==
  /\ Up /\ n \in dirty
  /\ dirty' = dirty \ {n}
  /\ IF api[n] = Unparsable THEN UNCHANGED <<inbox, lost>> ELSE PublishEvent(n)
  /\ UNCHANGED <<procVars, api, localVars, nodes, localInbox, clusterInbox, agentVars, silent, counters>>

-----------------------------------------------------------------------------
(***************************************************************************)
(* Local.  An update of the local node with its key is passed on.          *)
(***************************************************************************)
PublishLocal ==
  /\ localInbox' = Delivered(localInbox, TRUE)
  /\ lost' = [lost EXCEPT !["agent"] = IF Len(localInbox) < BufferSize THEN {} ELSE {LocalNode}]

LocalReceive ==
  LET event == Head(inbox["local"])
      mine == event.name = LocalNode /\ event.node # Absent
  IN /\ Up /\ ~ annotating /\ inbox["local"] # << >>
     /\ inbox' = [inbox EXCEPT !["local"] = Tail(@)]
     /\ port' = (port \/ mine)
     /\ IF mine /\ event.node.key = key THEN PublishLocal ELSE UNCHANGED <<localInbox, lost>>
     /\ annotating' = (mine /\ event.node.key # key)
     /\ UNCHANGED <<procVars, api, dirty, keyVars, nodes, clusterInbox, agentVars, silent, counters>>

Annotated(parsable) ==
  /\ Up /\ annotating /\ api[LocalNode] # Absent
  /\ api' = IF parsable THEN [api EXCEPT ![LocalNode].key = key] ELSE api
  /\ dirty' = IF api' # api THEN dirty \cup {LocalNode} ELSE dirty
  /\ annotating' = FALSE
  /\ PublishLocal
  /\ UNCHANGED <<procVars, inbox, port, keyVars, nodes, clusterInbox, agentVars, silent, counters>>

\* Mutant: the key is only written to a node that has none.
AnnotateNodeOnce == Annotated(Known(LocalNode) /\ api[LocalNode].key = NoKey)

\* Conflicts are retried; a key that is there already makes no event, and what
\* cannot be parsed stays so.
AnnotateNode == Annotated(Known(LocalNode))

\* Local.Run returns the error, which ends the other services.
AnnotateFails ==
  /\ Up /\ annotating
  /\ \/ Fault
     \/ api[LocalNode] = Absent /\ UNCHANGED counters
  /\ ctx' = TRUE
  /\ UNCHANGED <<component, proc, closed, unclean, api, dirty, inbox, localVars, nodes, localInbox,
                 clusterInbox, agentVars, lost, silent>>

-----------------------------------------------------------------------------
(***************************************************************************)
(* Cluster.  An update is published, a deletion is not.                    *)
(***************************************************************************)
ClusterReceive ==
  LET event == Head(inbox["cluster"])
      deleted == event.node = Absent
  IN /\ Up /\ inbox["cluster"] # << >>
     /\ inbox' = [inbox EXCEPT !["cluster"] = Tail(@)]
     /\ nodes' = [nodes EXCEPT ![event.name] = event.node]
     /\ clusterInbox' = IF ~ deleted /\ clusterInbox < BufferSize THEN clusterInbox + 1 ELSE clusterInbox
     /\ silent' = (silent \/ (deleted /\ nodes[event.name] # Absent))
     /\ UNCHANGED <<procVars, api, dirty, localVars, localInbox, agentVars, lost, counters>>

-----------------------------------------------------------------------------
(***************************************************************************)
(* The agent.  A closed channel yields the zero value: no map, no node, no *)
(* port.                                                                   *)
(***************************************************************************)
outsideAgent == <<procVars, api, dirty, inbox, localVars, nodes, lost>>

ReceivesLocal ==
  \/ /\ localInbox # << >>
     /\ localInbox' = Tail(localInbox)
     /\ hasLocal' = IF Head(localInbox) THEN "port" ELSE "noport"
     /\ UNCHANGED <<clusterInbox, hasMap>>
  \/ /\ localInbox = << >> /\ closed
     /\ hasLocal' = "none"
     /\ UNCHANGED <<localInbox, clusterInbox, hasMap>>

\* Mutant: a map that comes before the port is not kept.
ReceivesClusterLater ==
  /\ clusterInbox > 0
  /\ clusterInbox' = clusterInbox - 1
  /\ hasMap' = (hasMap \/ hasLocal = "port")
  /\ UNCHANGED <<localInbox, hasLocal>>

ReceivesCluster ==
  \/ /\ clusterInbox > 0
     /\ clusterInbox' = clusterInbox - 1
     /\ hasMap' = TRUE
     /\ UNCHANGED <<localInbox, hasLocal>>
  \/ /\ clusterInbox = 0 /\ closed
     /\ hasMap' = FALSE
     /\ UNCHANGED <<localInbox, clusterInbox, hasLocal>>

Receives(c) == component = c /\ proc = "up" /\ agent = "running" /\ (ReceivesLocal \/ ReceivesCluster)

\* The loop is left because of the context or an error.
Leaves(c) == component = c /\ proc = "up" /\ (agent = "breaking" \/ (agent = "running" /\ ctx))
CleanedUp == agent' = IF agent = "breaking" THEN "failed" ELSE "ended"

Peers(m) ==
  {[key |-> m[n].key, cidrs |-> m[n].cidrs] :
     n \in {r \in Nodes \ {LocalNode} : m[r] # Absent /\ m[r].key # NoKey}}

\* What comparePeerConfig sees of the peers: keys and addresses, not masks.
Masked(ps) == {[key |-> p.key, ips |-> [i \in DOMAIN p.cidrs |-> Address[p.cidrs[i]]]] : p \in ps}

\* Peers with the same key come in any order.
Twins(ps) == \E p, q \in ps : p # q /\ p.key = q.key
Same(new) == peers # Absent /\ Masked(peers) = Masked(new)
Differs(new) == ~ (Same(new) /\ ~ Twins(peers) /\ ~ Twins(new))

\* Peers that look the same need no call, and keep the masks they had; a call
\* that fails ends Run.
configureWireguard ==
  LET new == Peers(IF hasMap' THEN nodes ELSE NoNodes)
      ip == device.ip \/ (hasMap' /\ nodes[LocalNode] # Absent)
  IN \/ /\ hasLocal' # "port"
        /\ UNCHANGED <<peers, device, agent, silent, counters>>
     \/ /\ hasLocal' = "port"
        /\ \/ Same(new) /\ device' = [device EXCEPT !.ip = ip] /\ UNCHANGED peers
           \/ Differs(new) /\ peers' = new /\ device' = [ip |-> ip, peers |-> new]
        /\ silent' = FALSE
        /\ UNCHANGED <<agent, counters>>
     \/ /\ hasLocal' = "port" /\ Fault
        /\ \/ ip # device.ip /\ UNCHANGED <<peers, device>>
           \/ Differs(new) /\ peers' = new /\ device' = [device EXCEPT !.ip = ip]
        /\ agent' = "breaking" /\ silent' = FALSE

Wireguard ==
  /\ Receives("wireguard") /\ configureWireguard
  /\ UNCHANGED <<outsideAgent, cniVars>>

WireguardCleanup ==
  /\ Leaves("wireguard")
  /\ \/ device' = NoDevice /\ CleanedUp /\ UNCHANGED counters
     \/ Fault /\ agent' = "failed" /\ UNCHANGED device
  /\ UNCHANGED <<outsideAgent, localInbox, clusterInbox, hasLocal, hasMap, peers, cniVars, silent>>

ToSet(list) == {list[i] : i \in DOMAIN list}
Prefixes(list) == {SubSeq(list, 1, i) : i \in 0..(Len(list) - 1)}

\* addCNIIP returns at the first address the bridge already has.
Addressed(list) ==
  {list[i] : i \in {j \in DOMAIN list : \A k \in 1..j : \A c \in bridge : Address[c] # Address[list[k]]}}

\* The rules of CIDRs that are no longer the node's are forgotten.
configureCNI ==
  LET list == nodes[LocalNode].cidrs
      ready == hasLocal' # "none" /\ hasMap' /\ nodes[LocalNode] # Absent
  IN \/ /\ ~ ready
        /\ UNCHANGED <<cniVars, agent, counters>>
     \/ /\ ready
        /\ bridge' = bridge \cup Addressed(list)
        /\ file' = list
        /\ iptables' = iptables \cup ToSet(list)
        /\ cni' = [written |-> list, rules |-> ToSet(list)]
        /\ renumbered' = (renumbered \/ ~ (cni.rules \subseteq ToSet(list)))
        /\ UNCHANGED <<agent, counters>>
     \/ /\ ready /\ Fault /\ agent' = "breaking"
        /\ \/ UNCHANGED <<cni, bridge, file, iptables>>
           \/ bridge' = bridge \cup Addressed(list) /\ UNCHANGED <<cni, file, iptables>>
           \/ /\ bridge' = bridge \cup Addressed(list) /\ file' = list
              /\ cni' = [cni EXCEPT !.written = list]
              /\ \E done \in Prefixes(list) : iptables' = iptables \cup ToSet(done)
        /\ UNCHANGED renumbered

CNI ==
  /\ Receives("cni") /\ configureCNI
  /\ UNCHANGED <<outsideAgent, wireguardVars, silent>>

\* The file, the bridge and the rules, each also when one before it failed.
Removed(rules) ==
  /\ Leaves("cni")
  /\ \/ /\ bridge' = {}
        /\ file' = IF cni.written # Absent THEN Absent ELSE file
        /\ iptables' = iptables \ rules
        /\ CleanedUp /\ UNCHANGED counters
     \/ /\ Fault /\ agent' = "failed"
        /\ bridge' \in {{}, bridge} /\ file' \in {Absent, file}
        /\ iptables' \in {iptables \ r : r \in SUBSET rules}
  /\ UNCHANGED <<outsideAgent, localInbox, clusterInbox, hasLocal, hasMap, wireguardVars, cni,
                 renumbered, silent>>

\* Mutant: the rules are left.
CNICleanupFile == Removed({})

CNICleanup == Removed(cni.rules)

-----------------------------------------------------------------------------
Process == NewLocal \/ StoreKey \/ Run \/ Crash \/ Cancel \/ BrokersEnd \/ Exit
Kubernetes == \E n \in Nodes : handle(n) \/ \E v \in NodeValues[n] : Change(n, v)
Local == LocalReceive \/ AnnotateNode \/ AnnotateFails
Agent == Wireguard \/ WireguardCleanup \/ CNI \/ CNICleanup

Next == Process \/ Kubernetes \/ Local \/ ClusterReceive \/ Agent

Spec == Init /\ [][Next]_vars

-----------------------------------------------------------------------------
Quiet ==
  /\ Up /\ agent = "running" /\ dirty = {} /\ \A s \in DOMAIN inbox : inbox[s] = << >>
  /\ ~ annotating /\ localInbox = << >> /\ clusterInbox = 0

(***************************************************************************)
(* AgentsFollow: once netd has nothing left to do, the map is what         *)
(* Kubernetes says, the kernel is configured from it, and the annotation   *)
(* of the local node is its public key, whatever the order in which nodes, *)
(* port and key became known, and although writing the key makes the next  *)
(* update.  The exceptions are what a full channel dropped, a deletion,    *)
(* which Cluster.Run does not publish, and the masks of a peer's CIDRs,    *)
(* which configureWireguard does not compare.                              *)
(***************************************************************************)
AgentsFollow ==
  Quiet =>
    /\ \A n \in Nodes \ lost["cluster"] : api[n] # Unparsable => nodes[n] = api[n]
    /\ LocalNode \notin lost["local"] /\ Known(LocalNode) => api[LocalNode].key = key
    /\ component = "wireguard" /\ port /\ lost["agent"] = {} /\ ~ silent =>
         Masked(device.peers) = Masked(Peers(nodes))
    /\ component = "cni" /\ nodes[LocalNode] # Absent =>
         /\ file = nodes[LocalNode].cidrs
         /\ ToSet(nodes[LocalNode].cidrs) \subseteq iptables

(***************************************************************************)
(* KeyDurable: a key of this node that is known to the cluster survives    *)
(* its process: the next one finds it in the file, unless reading the file *)
(* failed once while it held that key (getKey, storeKey).                  *)
(***************************************************************************)
KeyDurable ==
  Known(LocalNode) /\ api[LocalNode].key \in OwnKeys =>
    api[LocalNode].key = keyFile \/ api[LocalNode].key \in givenUp

(***************************************************************************)
(* RulesRemoved: CNI.Run leaves no rule behind when it ends without an     *)
(* error, unless the CIDRs of the node changed, whose old rules it         *)
(* forgets, or an earlier process was cut off.                             *)
(***************************************************************************)
RulesRemoved ==
  component = "cni" /\ agent = "ended" /\ ~ renumbered /\ ~ unclean => iptables = {}
=============================================================================
