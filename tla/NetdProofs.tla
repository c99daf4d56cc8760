----------------------------- MODULE NetdProofs -----------------------------
(***************************************************************************)
(* Proofs about Netd: the agents follow Kubernetes (AgentsFollow), the key *)
(* of the node survives its process (KeyDurable), and CNI removes its      *)
(* rules (RulesRemoved), for any nodes, channels of any size and any       *)
(* number of changes, faults and starts.                                   *)
(***************************************************************************)
EXTENDS Netd, SequenceTheorems, TLAPS

-----------------------------------------------------------------------------
(***************************************************************************)
(* The inductive invariant.  The last event of a node in a channel is the  *)
(* one that will count.                                                    *)
(***************************************************************************)
Event == [name : Nodes, node : Node \cup {Absent}]

LastIs(q, n, v) == \E i \in DOMAIN q : q[i] = [name |-> n, node |-> v]
                                       /\ \A j \in DOMAIN q : j > i => q[j].name # n
NoneOf(q, n) == \A i \in DOMAIN q : q[i].name # n

NetdType ==
  /\ api \in [Nodes -> Node \cup {Absent, Unparsable}]
  /\ nodes \in [Nodes -> Node \cup {Absent}]
  /\ inbox \in [{"local", "cluster"} -> Seq(Event)]
  /\ lost \in [Subscribers -> SUBSET Nodes]
  /\ localInbox \in Seq(BOOLEAN)
  /\ clusterInbox \in Nat /\ starts \in Nat
  /\ key \in OwnKeys \cup {NoKey} /\ keyFile \in OwnKeys \cup {NoKey}

\* What a process starts with, and how it ends.
Pristine ==
  /\ proc # "up" => /\ nodes = NoNodes /\ inbox = [s \in {"local", "cluster"} |-> << >>]
                    /\ localInbox = << >> /\ clusterInbox = 0
                    /\ hasLocal = "none" /\ ~ hasMap /\ ~ port /\ ~ annotating
                    /\ ~ ctx /\ peers = Absent
  /\ closed => ctx

\* The key is stored before the process is up, in place of none or of one
\* that was given up.
KeyStored ==
  /\ proc = "up" => key = keyFile
  /\ proc = "building" => keyFile \in {NoKey, key} \cup givenUp

\* CNI remembers the rules it added, as long as its node is not renumbered.
RulesKnown ==
  component = "cni" /\ agent = "running" /\ ~ renumbered /\ ~ unclean => iptables \subseteq cni.rules

\* The map of Cluster is behind Kubernetes only by what is under way.
MapAt(n) ==
  \/ n \in dirty \cup lost["cluster"] \/ api[n] = Unparsable
  \/ LastIs(inbox["cluster"], n, api[n])
  \/ NoneOf(inbox["cluster"], n) /\ nodes[n] = api[n]
MapFollows == Up => \A n \in Nodes : MapAt(n)

\* So is the annotation behind the key.
KeyFollows ==
  Up /\ Known(LocalNode) /\ LocalNode \notin dirty \cup lost["local"] =>
    LastIs(inbox["local"], LocalNode, api[LocalNode]) \/ annotating \/ api[LocalNode].key = key

\* The port that Local found reaches the agent.
PortFollows ==
  Up /\ port /\ ~ annotating /\ lost["agent"] = {} =>
    IF localInbox = << >> THEN hasLocal = "port" ELSE localInbox[Len(localInbox)]

AgentKnows ==
  /\ Up => localInbox # << >> \/ hasLocal # "none"
  /\ Up /\ ~ hasMap /\ clusterInbox = 0 => nodes = NoNodes

\* Run remembers the peers it gave to the device.
PeersKnown ==
  /\ device = [ip |-> device.ip, peers |-> device.peers]
  /\ component = "wireguard" /\ proc = "up" /\ agent = "running" /\ peers # Absent => device.peers = peers

DeviceFollows ==
  component = "wireguard" /\ Up /\ agent = "running" /\ hasLocal = "port" /\ clusterInbox = 0 /\ ~ silent =>
    Masked(device.peers) = Masked(Peers(nodes))

RulesFollow ==
  component = "cni" /\ Up /\ agent = "running" /\ hasLocal # "none" /\ hasMap /\ clusterInbox = 0
    /\ nodes[LocalNode] # Absent =>
    /\ file = nodes[LocalNode].cidrs
    /\ ToSet(nodes[LocalNode].cidrs) \subseteq iptables

NetdInv ==
  /\ NetdType /\ Pristine /\ KeyStored /\ KeyDurable /\ RulesKnown /\ RulesRemoved
  /\ MapFollows /\ KeyFollows /\ PortFollows /\ AgentKnows /\ PeersKnown /\ DeviceFollows /\ RulesFollow

-----------------------------------------------------------------------------
(***************************************************************************)
(* Channels.                                                               *)
(***************************************************************************)
USE DEF keyVars

\* An event joins the end of a channel or is dropped.
LEMMA DeliveredFacts ==
  ASSUME NEW S, NEW q \in Seq(S), NEW e \in S
  PROVE  /\ Delivered(q, e) \in Seq(S)
         /\ Len(q) < BufferSize => Delivered(q, e) = Append(q, e)
         /\ ~ (Len(q) < BufferSize) => Delivered(q, e) = q
BY DEF Delivered

LEMMA LastOfAppend ==
  ASSUME NEW S, NEW q \in Seq(S), NEW e \in S
  PROVE  Append(q, e) # << >> /\ Append(q, e)[Len(Append(q, e))] = e
OBVIOUS

LEMMA LastOfTail ==
  ASSUME NEW S, NEW q \in Seq(S), q # << >>
  PROVE  /\ Tail(q) = << >> => Head(q) = q[Len(q)]
         /\ Tail(q) # << >> => Tail(q)[Len(Tail(q))] = q[Len(q)]
<1>1. Len(q) \in Nat \ {0} /\ Head(q) = q[1] /\ Len(Tail(q)) = Len(q) - 1 /\ Tail(q) \in Seq(S)
  OBVIOUS
<1>2. Tail(q) = << >> => Len(q) = 1
  <2>1. Tail(q) = << >> => Len(q) - 1 = 0
    BY <1>1
  <2> QED
    BY <1>1, <2>1
<1>3. Tail(q) # << >> => Len(q) - 1 \in 1..(Len(q) - 1)
  BY <1>1
<1>4. \A i \in 1..(Len(q) - 1) : Tail(q)[i] = q[i + 1]
  BY <1>1
<1>5. Tail(q) # << >> => Tail(q)[Len(q) - 1] = q[(Len(q) - 1) + 1]
  BY <1>3, <1>4
<1>6. (Len(q) - 1) + 1 = Len(q)
  BY <1>1
<1> QED
  BY <1>1, <1>2, <1>5, <1>6

\* The last event of a node is the one that was just appended.
LEMMA AppendedIsLast ==
  ASSUME NEW q \in Seq(Event), NEW e \in Event
  PROVE  LastIs(Append(q, e), e.name, e.node)
<1>1. Len(q) + 1 \in DOMAIN Append(q, e) /\ Append(q, e)[Len(q) + 1] = e
  OBVIOUS
<1>2. e = [name |-> e.name, node |-> e.node]
  BY DEF Event
<1>3. \A j \in DOMAIN Append(q, e) : ~ (j > Len(q) + 1)
  OBVIOUS
<1> QED
  BY <1>1, <1>2, <1>3 DEF LastIs

\* Events of other nodes do not count.
LEMMA AppendedOther ==
  ASSUME NEW q \in Seq(Event), NEW e \in Event, NEW n, NEW v, e.name # n
  PROVE  /\ LastIs(q, n, v) => LastIs(Append(q, e), n, v)
         /\ NoneOf(q, n) => NoneOf(Append(q, e), n)
<1>1. DOMAIN Append(q, e) = 1..(Len(q) + 1) /\ DOMAIN q = 1..Len(q) /\ Len(q) \in Nat
  OBVIOUS
<1>2. \A i \in 1..Len(q) : Append(q, e)[i] = q[i]
  OBVIOUS
<1>3. Append(q, e)[Len(q) + 1] = e
  OBVIOUS
<1>4. \A i \in DOMAIN Append(q, e) : i \in DOMAIN q \/ i = Len(q) + 1
  BY <1>1
<1>5. ASSUME LastIs(q, n, v)
      PROVE  LastIs(Append(q, e), n, v)
  <2>1. PICK i \in DOMAIN q : q[i] = [name |-> n, node |-> v] /\ \A j \in DOMAIN q : j > i => q[j].name # n
    BY <1>5 DEF LastIs
  <2>2. i \in DOMAIN Append(q, e) /\ Append(q, e)[i] = [name |-> n, node |-> v]
    BY <2>1, <1>1, <1>2
  <2>3. \A j \in DOMAIN Append(q, e) : j > i => Append(q, e)[j].name # n
    BY <2>1, <1>1, <1>2, <1>3, <1>4
  <2> QED
    BY <2>2, <2>3 DEF LastIs
<1>6. NoneOf(q, n) => NoneOf(Append(q, e), n)
  BY <1>1, <1>2, <1>3, <1>4 DEF NoneOf
<1> QED
  BY <1>5, <1>6

\* Taking the first event leaves the last one of a node where it was, unless
\* it was the first.
LEMMA TailLast ==
  ASSUME NEW q \in Seq(Event), q # << >>, NEW n, NEW v
  PROVE  /\ Tail(q) \in Seq(Event) /\ Head(q) \in Event
         /\ LastIs(q, n, v) => LastIs(Tail(q), n, v)
                               \/ (Head(q) = [name |-> n, node |-> v] /\ NoneOf(Tail(q), n))
         /\ NoneOf(q, n) => NoneOf(Tail(q), n) /\ Head(q).name # n
<1>1. DOMAIN Tail(q) = 1..(Len(q) - 1) /\ DOMAIN q = 1..Len(q) /\ Len(q) \in Nat \ {0}
  OBVIOUS
<1>2. \A i \in 1..(Len(q) - 1) : Tail(q)[i] = q[i + 1] /\ i + 1 \in DOMAIN q
  BY <1>1
<1>3. Head(q) = q[1] /\ 1 \in DOMAIN q
  BY <1>1
<1>4. ASSUME LastIs(q, n, v)
      PROVE  LastIs(Tail(q), n, v) \/ (Head(q) = [name |-> n, node |-> v] /\ NoneOf(Tail(q), n))
  <2>1. PICK i \in DOMAIN q : q[i] = [name |-> n, node |-> v] /\ \A j \in DOMAIN q : j > i => q[j].name # n
    BY <1>4 DEF LastIs
  <2>2. CASE i = 1
    <3>1. \A j \in DOMAIN Tail(q) : Tail(q)[j].name # n
      BY <2>1, <2>2, <1>1, <1>2
    <3> QED
      BY <3>1, <2>1, <2>2, <1>3 DEF NoneOf
  <2>3. CASE i # 1
    <3>1. i - 1 \in DOMAIN Tail(q) /\ Tail(q)[i - 1] = q[i]
      BY <2>1, <2>3, <1>1, <1>2
    <3>2. \A j \in DOMAIN Tail(q) : j > i - 1 => Tail(q)[j].name # n
      BY <2>1, <2>3, <1>1, <1>2
    <3> QED
      BY <2>1, <3>1, <3>2 DEF LastIs
  <2> QED
    BY <2>2, <2>3
<1>5. NoneOf(q, n) => NoneOf(Tail(q), n) /\ Head(q).name # n
  BY <1>1, <1>2, <1>3 DEF NoneOf
<1>6. Tail(q) \in Seq(Event) /\ Head(q) \in Event
  OBVIOUS
<1> QED
  BY <1>4, <1>5, <1>6

LEMMA NothingIsLast ==
  ASSUME NEW n, NEW v
  PROVE  ~ LastIs(<< >>, n, v) /\ NoneOf(<< >>, n)
BY DEF LastIs, NoneOf

-----------------------------------------------------------------------------
(***************************************************************************)
(* Types.                                                                  *)
(***************************************************************************)
\* A published event reaches each channel or is dropped.
LEMMA Published ==
  ASSUME NetdType, NEW n \in Nodes, api[n] # Unparsable, PublishEvent(n)
  PROVE  /\ inbox' \in [{"local", "cluster"} -> Seq(Event)]
         /\ lost' \in [Subscribers -> SUBSET Nodes] /\ lost'["agent"] = lost["agent"]
         /\ \A s \in {"local", "cluster"} :
              \/ inbox'[s] = Append(inbox[s], [name |-> n, node |-> api[n]]) /\ lost'[s] = lost[s] \ {n}
              \/ inbox'[s] = inbox[s] /\ lost'[s] = lost[s] \cup {n}
<1> DEFINE e == [name |-> n, node |-> api[n]]
<1>1. e \in Event
  BY DEF NetdType, Event
<1> HIDE DEF e
<1>2. \A s \in {"local", "cluster"} : inbox[s] \in Seq(Event)
  BY DEF NetdType
<1>3. \A s \in {"local", "cluster"} :
        /\ Delivered(inbox[s], e) \in Seq(Event)
        /\ Len(inbox[s]) < BufferSize => Delivered(inbox[s], e) = Append(inbox[s], e)
        /\ ~ (Len(inbox[s]) < BufferSize) => Delivered(inbox[s], e) = inbox[s]
  BY <1>1, <1>2, DeliveredFacts
<1>4. inbox' = [s \in {"local", "cluster"} |-> Delivered(inbox[s], e)]
  BY DEF PublishEvent, NetdType, e
<1>5. /\ lost' \in [Subscribers -> SUBSET Nodes] /\ lost'["agent"] = lost["agent"]
      /\ \A s \in {"local", "cluster"} :
           lost'[s] = IF Len(inbox[s]) < BufferSize THEN lost[s] \ {n} ELSE lost[s] \cup {n}
  BY DEF PublishEvent, NetdType, Subscribers
<1>6. \A s \in {"local", "cluster"} :
        \/ inbox'[s] = Append(inbox[s], e) /\ lost'[s] = lost[s] \ {n}
        \/ inbox'[s] = inbox[s] /\ lost'[s] = lost[s] \cup {n}
  BY <1>3, <1>4, <1>5
<1> QED
  BY <1>3, <1>4, <1>5, <1>6 DEF e

\* The agent's channel of Local: the message is the last one, or counts as lost.
LEMMA PublishedLocal ==
  ASSUME NetdType, PublishLocal
  PROVE  /\ localInbox' \in Seq(BOOLEAN)
         /\ lost' \in [Subscribers -> SUBSET Nodes]
         /\ \A s \in {"local", "cluster"} : lost'[s] = lost[s]
         /\ lost'["agent"] = {} => localInbox' # << >> /\ localInbox'[Len(localInbox')]
         /\ localInbox # << >> => localInbox' # << >>
<1>1. localInbox \in Seq(BOOLEAN) /\ TRUE \in BOOLEAN
  BY DEF NetdType
<1>2. /\ Delivered(localInbox, TRUE) \in Seq(BOOLEAN)
      /\ Len(localInbox) < BufferSize => Delivered(localInbox, TRUE) = Append(localInbox, TRUE)
      /\ ~ (Len(localInbox) < BufferSize) => Delivered(localInbox, TRUE) = localInbox
  BY <1>1, DeliveredFacts
<1>3. lost' = [lost EXCEPT !["agent"] = IF Len(localInbox) < BufferSize THEN {} ELSE {LocalNode}]
  BY DEF PublishLocal
<1>4. /\ lost' \in [Subscribers -> SUBSET Nodes]
      /\ \A s \in {"local", "cluster"} : lost'[s] = lost[s]
      /\ lost'["agent"] = {} => Len(localInbox) < BufferSize
  BY <1>3, NetdAssumption DEF NetdType, Subscribers
<1>5. /\ Append(localInbox, TRUE) # << >>
      /\ Append(localInbox, TRUE)[Len(Append(localInbox, TRUE))] = TRUE
  BY <1>1, LastOfAppend
<1>6. localInbox' = Delivered(localInbox, TRUE)
  BY DEF PublishLocal
<1> QED
  BY <1>2, <1>4, <1>5, <1>6

\* What writing the key does to the node.
LEMMA AnnotatedNode ==
  ASSUME NetdType, AnnotateNode
  PROVE  /\ api' \in [Nodes -> Node \cup {Absent, Unparsable}]
         /\ \A n \in Nodes \ {LocalNode} : api'[n] = api[n]
         /\ Known(LocalNode) => api'[LocalNode] \in Node /\ api'[LocalNode].key = key
         /\ ~ Known(LocalNode) => api' = api
         /\ api' # api => LocalNode \in dirty'
         /\ dirty \subseteq dirty'
<1>1. CASE Known(LocalNode)
  <2>1. api[LocalNode] \in Node /\ api' = [api EXCEPT ![LocalNode].key = key]
    BY <1>1, NetdAssumption DEF AnnotateNode, Annotated, NetdType, Known
  <2>2. [api[LocalNode] EXCEPT !.key = key] \in Node /\ [api[LocalNode] EXCEPT !.key = key].key = key
    BY <2>1 DEF NetdType, Node
  <2>3. api' = [api EXCEPT ![LocalNode] = [api[LocalNode] EXCEPT !.key = key]]
    BY <2>1
  <2>4. api'[LocalNode] = [api[LocalNode] EXCEPT !.key = key]
    BY <2>3, NetdAssumption DEF NetdType
  <2>5. api' \in [Nodes -> Node \cup {Absent, Unparsable}] /\ \A n \in Nodes \ {LocalNode} : api'[n] = api[n]
    BY <2>2, <2>3, NetdAssumption DEF NetdType
  <2> QED
    BY <1>1, <2>2, <2>4, <2>5 DEF AnnotateNode, Annotated
<1>2. CASE ~ Known(LocalNode)
  BY <1>2 DEF AnnotateNode, Annotated, NetdType
<1> QED
  BY <1>1, <1>2

LEMMA TypeStep ==
  ASSUME NetdType, [Next]_vars
  PROVE  NetdType'
<1> USE NetdAssumption
<1>1. CASE Process
  <2>1. ASSUME NewLocal PROVE NetdType'
    BY <2>1 DEF NetdType, NewLocal, OwnKeys
  <2>2. ASSUME StoreKey PROVE NetdType'
    BY <2>2 DEF NetdType, StoreKey, counters, Fault
  <2>3. ASSUME Run PROVE NetdType'
    <3>1. localInbox' \in Seq(BOOLEAN)
      BY <2>3 DEF Run, Started
    <3> QED
      BY <2>3, <3>1 DEF NetdType, Run, Started, counters, localVars
  <2>4. ASSUME Dies, UNCHANGED starts PROVE NetdType'
    <3>1. NoNodes \in [Nodes -> Node \cup {Absent}]
      BY DEF NoNodes
    <3>2. << >> \in Seq(BOOLEAN) /\ << >> \in Seq(Event)
      OBVIOUS
    <3>3. [s \in {"local", "cluster"} |-> << >>] \in [{"local", "cluster"} -> Seq(Event)]
      BY <3>2
    <3>4. [s \in Subscribers |-> {}] \in [Subscribers -> SUBSET Nodes]
      OBVIOUS
    <3> QED
      BY <2>4, <3>1, <3>2, <3>3, <3>4 DEF Dies, NetdType
  <2>5. ASSUME Cancel \/ BrokersEnd PROVE NetdType'
    BY <2>5 DEF NetdType, Cancel, BrokersEnd, localVars, counters
  <2> QED
    BY <1>1, <2>1, <2>2, <2>3, <2>4, <2>5 DEF Process, Crash, Exit, Fault, counters
<1>2. ASSUME NEW n \in Nodes, handle(n) PROVE NetdType'
  <2>1. CASE api[n] = Unparsable
    BY <1>2, <2>1 DEF handle, NetdType, localVars, counters
  <2>2. CASE api[n] # Unparsable
    <3>1. PublishEvent(n)
      BY <1>2, <2>2 DEF handle
    <3> QED
      BY <1>2, <2>2, <3>1, Published DEF handle, NetdType, localVars, counters
  <2> QED
    BY <2>1, <2>2
<1>3. ASSUME NEW n \in Nodes, NEW v \in NodeValues[n], Change(n, v) PROVE NetdType'
  <2>1. v \in Node \cup {Absent, Unparsable}
    BY DEF Foreign
  <2> QED
    BY <1>3, <2>1 DEF Change, NetdType, localVars
<1>4. CASE LocalReceive
  <2>1. inbox["local"] \in Seq(Event) /\ inbox["local"] # << >>
    BY <1>4 DEF NetdType, LocalReceive
  <2>2. inbox' \in [{"local", "cluster"} -> Seq(Event)]
    BY <1>4, <2>1, TailLast DEF NetdType, LocalReceive
  <2>3. localInbox' \in Seq(BOOLEAN) /\ lost' \in [Subscribers -> SUBSET Nodes]
    <3>1. PublishLocal \/ UNCHANGED <<localInbox, lost>>
      BY <1>4 DEF LocalReceive
    <3> QED
      BY <3>1, PublishedLocal DEF NetdType
  <2> QED
    BY <1>4, <2>2, <2>3 DEF NetdType, LocalReceive, counters
<1>5. CASE AnnotateNode
  <2>1. PublishLocal /\ UNCHANGED <<inbox, key, keyFile, nodes, clusterInbox, starts>>
    BY <1>5 DEF AnnotateNode, Annotated, counters
  <2> QED
    BY <2>1, <1>5, PublishedLocal, AnnotatedNode DEF NetdType
<1>6. CASE AnnotateFails
  BY <1>6 DEF NetdType, AnnotateFails, Fault, counters, localVars
<1>7. CASE ClusterReceive
  <2>1. inbox["cluster"] \in Seq(Event) /\ inbox["cluster"] # << >>
    BY <1>7 DEF NetdType, ClusterReceive
  <2>2. Head(inbox["cluster"]) \in Event /\ inbox' \in [{"local", "cluster"} -> Seq(Event)]
    BY <1>7, <2>1, TailLast DEF NetdType, ClusterReceive
  <2>3. nodes' \in [Nodes -> Node \cup {Absent}]
    BY <1>7, <2>2 DEF NetdType, ClusterReceive, Event
  <2>4. clusterInbox' \in Nat
    BY <1>7 DEF NetdType, ClusterReceive
  <2> QED
    BY <1>7, <2>2, <2>3, <2>4 DEF NetdType, ClusterReceive, localVars, counters
<1>8. CASE Agent
  <2>1. UNCHANGED <<api, inbox, key, keyFile, nodes, lost>>
    BY <1>8 DEF Agent, Wireguard, WireguardCleanup, CNI, CNICleanup, Removed, outsideAgent, localVars
  <2>2. starts' = starts
    BY <1>8 DEF Agent, Wireguard, WireguardCleanup, CNI, CNICleanup, Removed, configureWireguard,
                configureCNI, Fault, counters
  <2>3. localInbox' \in Seq(BOOLEAN) /\ clusterInbox' \in Nat
    <3>1. CASE ReceivesLocal
      <4>1. localInbox \in Seq(BOOLEAN) /\ clusterInbox \in Nat
        BY DEF NetdType
      <4>2. localInbox # << >> => Tail(localInbox) \in Seq(BOOLEAN)
        BY <4>1
      <4> QED
        BY <4>1, <4>2, <3>1 DEF ReceivesLocal
    <3>2. CASE ReceivesCluster
      BY <3>2 DEF ReceivesCluster, NetdType
    <3>3. CASE UNCHANGED <<localInbox, clusterInbox>>
      BY <3>3 DEF NetdType
    <3> QED
      BY <3>1, <3>2, <3>3, <1>8 DEF Agent, Wireguard, WireguardCleanup, CNI, CNICleanup, Removed, Receives
  <2> QED
    BY <2>1, <2>2, <2>3 DEF NetdType
<1>9. CASE UNCHANGED vars
  BY <1>9 DEF NetdType, vars, localVars, counters
<1> QED
  BY <1>1, <1>2, <1>3, <1>4, <1>5, <1>6, <1>7, <1>8, <1>9 DEF Next, Kubernetes, Local

-----------------------------------------------------------------------------
(***************************************************************************)
(* Processes, keys and rules.                                              *)
(***************************************************************************)
LEMMA PristineStep ==
  ASSUME NetdType, Pristine, [Next]_vars
  PROVE  Pristine'
<1>1. CASE Process
  <2>1. ASSUME NewLocal \/ StoreKey PROVE Pristine'
    BY <2>1 DEF Pristine, NewLocal, StoreKey, agentVars, wireguardVars
  <2>2. ASSUME Run \/ Cancel \/ BrokersEnd PROVE Pristine'
    <3>1. proc' = "up" /\ (closed' => ctx')
      <4>1. CASE Run
        BY <4>1 DEF Pristine, Run, Started
      <4>2. CASE Cancel
        BY <4>2 DEF Pristine, Cancel, Up
      <4>3. CASE BrokersEnd
        BY <4>3 DEF Pristine, BrokersEnd
      <4> QED
        BY <2>2, <4>1, <4>2, <4>3
    <3> QED
      BY <3>1 DEF Pristine
  <2>3. ASSUME Dies PROVE Pristine'
    BY <2>3 DEF Pristine, Dies
  <2> QED
    BY <1>1, <2>1, <2>2, <2>3 DEF Process, Crash, Exit
<1>2. ASSUME NEW n \in Nodes, handle(n) PROVE Pristine'
  BY <1>2 DEF Pristine, handle, Up, procVars
<1>3. ASSUME NEW n \in Nodes, NEW v \in NodeValues[n], Change(n, v) PROVE Pristine'
  BY <1>3 DEF Pristine, Change, procVars, localVars, agentVars, wireguardVars
<1>4. CASE Local \/ ClusterReceive
  BY <1>4 DEF Pristine, Local, LocalReceive, AnnotateNode, Annotated, AnnotateFails, ClusterReceive, Up, procVars
<1>5. CASE Agent
  <2>1. proc = "up" /\ UNCHANGED procVars
    BY <1>5 DEF Agent, Wireguard, WireguardCleanup, CNI, CNICleanup, Removed, Receives, Leaves, outsideAgent
  <2> QED
    BY <2>1 DEF Pristine, procVars
<1>6. CASE UNCHANGED vars
  BY <1>6 DEF Pristine, vars, procVars, localVars, agentVars, wireguardVars
<1> QED
  BY <1>1, <1>2, <1>3, <1>4, <1>5, <1>6 DEF Next, Kubernetes

\* The key in memory and the one in the file only change before the process
\* is up, and the file only once.
LEMMA KeyStep ==
  ASSUME NetdType, KeyStored, KeyDurable, [Next]_vars
  PROVE  KeyStored' /\ KeyDurable'
<1> USE NetdAssumption
<1>1. CASE Process
  <2>1. api' = api
    BY <1>1 DEF Process, NewLocal, StoreKey, Run, Started, Crash, Cancel, BrokersEnd, Exit, Dies
  <2>2. CASE NewLocal
    BY <2>1, <2>2 DEF NewLocal, KeyStored, KeyDurable, Known
  <2>3. CASE StoreKey
    BY <2>1, <2>3 DEF StoreKey, KeyStored, KeyDurable, Known, OwnKeys, NetdType
  <2>4. CASE Run \/ Crash \/ Cancel \/ BrokersEnd \/ Exit
    <3>1. UNCHANGED keyVars /\ (proc' = "dead" \/ proc' = proc \/ (proc' = "up" /\ key = keyFile))
      BY <2>4 DEF Run, Started, Crash, Exit, Dies, Cancel, BrokersEnd, localVars
    <3> QED
      BY <2>1, <3>1 DEF KeyStored, KeyDurable, Known
  <2> QED
    BY <1>1, <2>2, <2>3, <2>4 DEF Process
<1>2. ASSUME NEW n \in Nodes, handle(n) PROVE KeyStored' /\ KeyDurable'
  BY <1>2 DEF KeyStored, KeyDurable, Known, handle, procVars, localVars
<1>3. ASSUME NEW n \in Nodes, NEW v \in NodeValues[n], Change(n, v) PROVE KeyStored' /\ KeyDurable'
  <2>1. UNCHANGED <<proc, keyVars>>
    BY <1>3 DEF Change, procVars, localVars
  <2>2. api'[LocalNode] = api[LocalNode] \/ Foreign(api'[LocalNode])
    BY <1>3 DEF Change, NetdType
  <2> QED
    BY <2>1, <2>2 DEF KeyStored, KeyDurable, Known, Foreign
<1>4. CASE AnnotateNode
  <2>1. proc = "up" /\ UNCHANGED <<proc, keyVars>>
    BY <1>4 DEF AnnotateNode, Annotated, Up, procVars
  <2> QED
    BY <2>1, <1>4, AnnotatedNode DEF KeyStored, KeyDurable, Known
<1>5. CASE LocalReceive \/ AnnotateFails \/ ClusterReceive \/ Agent \/ UNCHANGED vars
  <2>1. UNCHANGED <<proc, keyVars, api>>
    BY <1>5 DEF LocalReceive, AnnotateFails, ClusterReceive, Agent, Wireguard, WireguardCleanup, CNI,
                CNICleanup, Removed, outsideAgent, procVars, localVars, vars
  <2> QED
    BY <2>1 DEF KeyStored, KeyDurable, Known
<1> QED
  BY <1>1, <1>2, <1>3, <1>4, <1>5 DEF Next, Kubernetes, Local

\* Every rule is one of those CNI will remove.
LEMMA RulesStep ==
  ASSUME RulesKnown, RulesRemoved, [Next]_vars
  PROVE  RulesKnown' /\ RulesRemoved'
<1>1. ASSUME UNCHANGED <<component, agent, cni, iptables, renumbered, unclean>>
      PROVE  RulesKnown' /\ RulesRemoved'
  BY <1>1 DEF RulesKnown, RulesRemoved
<1>2. CASE Process
  <2>1. CASE Dies
    BY <2>1 DEF Dies, RulesKnown, RulesRemoved, NoConfig
  <2>2. CASE NewLocal \/ StoreKey \/ Run \/ Cancel \/ BrokersEnd
    BY <2>2, <1>1 DEF NewLocal, StoreKey, Run, Started, Cancel, BrokersEnd, agentVars, cniVars
  <2> QED
    BY <1>2, <2>1, <2>2 DEF Process, Crash, Exit
<1>3. CASE Kubernetes \/ Local \/ ClusterReceive \/ UNCHANGED vars
  BY <1>3, <1>1 DEF Kubernetes, handle, Change, Local, LocalReceive, AnnotateNode, Annotated, AnnotateFails,
                    ClusterReceive, procVars, agentVars, cniVars, vars
<1>4. CASE Wireguard \/ WireguardCleanup
  <2>1. component = "wireguard" /\ component' = component
    BY <1>4 DEF Wireguard, WireguardCleanup, Receives, Leaves, outsideAgent, procVars
  <2> QED
    BY <2>1 DEF RulesKnown, RulesRemoved
<1>5. CASE CNI
  <2>1. agent = "running" /\ UNCHANGED <<component, unclean>> /\ configureCNI
    BY <1>5 DEF CNI, Receives, outsideAgent, procVars
  <2>2. \/ UNCHANGED <<agent, cniVars>>
        \/ /\ agent' = agent /\ iptables' = iptables \cup ToSet(nodes[LocalNode].cidrs)
           /\ cni'.rules = ToSet(nodes[LocalNode].cidrs)
           /\ renumbered' = (renumbered \/ ~ (cni.rules \subseteq ToSet(nodes[LocalNode].cidrs)))
        \/ agent' = "breaking"
    BY <2>1 DEF configureCNI
  <2> QED
    BY <2>1, <2>2, <1>1 DEF RulesKnown, RulesRemoved, cniVars
<1>6. CASE CNICleanup
  <2>1. /\ UNCHANGED <<component, unclean, renumbered, cni>>
        /\ agent' # "running"
        /\ agent' = "ended" => agent = "running" /\ iptables' = iptables \ cni.rules
    BY <1>6 DEF CNICleanup, Removed, Leaves, CleanedUp, outsideAgent, procVars
  <2> QED
    BY <2>1 DEF RulesKnown, RulesRemoved
<1> QED
  BY <1>2, <1>3, <1>4, <1>5, <1>6 DEF Next, Agent

-----------------------------------------------------------------------------
(***************************************************************************)
(* Cluster and Local follow Kubernetes.                                    *)
(***************************************************************************)
\* Only Run makes a process one that is up and not cancelled.
LEMMA ProcessUp ==
  ASSUME Process, Pristine
  PROVE  Up' => Run
BY DEF Process, NewLocal, StoreKey, Crash, Dies, Cancel, BrokersEnd, Exit, Up

LEMMA MapStep ==
  ASSUME NetdType, Pristine, MapFollows, [Next]_vars
  PROVE  MapFollows'
<1> USE NetdAssumption
<1>1. SUFFICES ASSUME Up', NEW n \in Nodes
               PROVE  MapAt(n)'
  BY DEF MapFollows
<1>2. ASSUME Up, UNCHANGED <<inbox, nodes, lost>>, api'[n] = api[n], dirty \subseteq dirty'
      PROVE  MapAt(n)'
  BY <1>2 DEF MapFollows, MapAt
<1>3. CASE Process
  <2>1. Run
    BY <1>1, <1>3, ProcessUp
  <2>2. inbox["cluster"] = << >> /\ nodes[n] = Absent /\ UNCHANGED <<api, inbox, nodes>>
    BY <2>1 DEF Run, Started, Pristine, NoNodes
  <2>3. api[n] = Absent \/ n \in dirty'
    BY <2>1 DEF Run, Started
  <2>4. NoneOf(inbox["cluster"], n)
    BY <2>2, NothingIsLast
  <2> QED
    BY <2>2, <2>3, <2>4 DEF MapAt
<1>4. ASSUME NEW m \in Nodes, handle(m) PROVE MapAt(n)'
  <2> DEFINE e == [name |-> m, node |-> api[m]]
  <2>1. Up /\ UNCHANGED <<api, nodes>> /\ dirty' = dirty \ {m}
    BY <1>4 DEF handle
  <2>2. CASE api[m] = Unparsable
    BY <2>1, <2>2, <1>4 DEF handle, MapFollows, MapAt
  <2>3. CASE api[m] # Unparsable
    <3>1. \/ inbox'["cluster"] = Append(inbox["cluster"], e) /\ lost'["cluster"] = lost["cluster"] \ {m}
          \/ inbox'["cluster"] = inbox["cluster"] /\ lost'["cluster"] = lost["cluster"] \cup {m}
      BY <2>3, <1>4, Published DEF handle
    <3>2. inbox["cluster"] \in Seq(Event) /\ e \in Event /\ e.name = m /\ e.node = api[m]
      BY <2>3 DEF NetdType, Event
    <3> HIDE DEF e
    <3>3. CASE n = m
      <4>1. LastIs(Append(inbox["cluster"], e), m, api[m])
        BY <3>2, AppendedIsLast
      <4> QED
        BY <3>1, <3>3, <2>1, <4>1 DEF MapAt
    <3>4. CASE n # m
      <4>1. /\ LastIs(inbox["cluster"], n, api[n]) => LastIs(Append(inbox["cluster"], e), n, api[n])
            /\ NoneOf(inbox["cluster"], n) => NoneOf(Append(inbox["cluster"], e), n)
        BY <3>2, <3>4, AppendedOther
      <4> QED
        BY <3>1, <3>4, <2>1, <4>1 DEF MapFollows, MapAt
    <3> QED
      BY <3>3, <3>4
  <2> QED
    BY <2>2, <2>3
<1>5. ASSUME NEW m \in Nodes, NEW v \in NodeValues[m], Change(m, v) PROVE MapAt(n)'
  <2>1. Up /\ UNCHANGED <<inbox, nodes, lost>> /\ dirty' = dirty \cup {m}
    BY <1>1, <1>5 DEF Change, Up, procVars
  <2>2. n # m => api'[n] = api[n]
    BY <1>5 DEF Change, NetdType
  <2> QED
    BY <2>1, <2>2, <1>2 DEF MapAt
<1>6. CASE LocalReceive
  <2>1. Up /\ UNCHANGED <<api, nodes, dirty>> /\ inbox'["cluster"] = inbox["cluster"]
    BY <1>6 DEF LocalReceive, NetdType
  <2>2. lost'["cluster"] = lost["cluster"]
    BY <1>6, PublishedLocal DEF LocalReceive
  <2> QED
    BY <2>1, <2>2 DEF MapFollows, MapAt
<1>7. CASE AnnotateNode
  <2>1. Up /\ UNCHANGED <<inbox, nodes>> /\ lost'["cluster"] = lost["cluster"]
    BY <1>7, PublishedLocal DEF AnnotateNode, Annotated
  <2>2. /\ dirty \subseteq dirty' /\ (api'[n] = api[n] \/ n \in dirty')
    BY <1>7, AnnotatedNode
  <2> QED
    BY <2>1, <2>2 DEF MapFollows, MapAt
<1>8. CASE ClusterReceive
  <2> DEFINE q == inbox["cluster"]
  <2>1. Up /\ UNCHANGED <<api, dirty, lost>> /\ q # << >> /\ q \in Seq(Event)
    BY <1>8 DEF ClusterReceive, NetdType
  <2>2. inbox'["cluster"] = Tail(q) /\ nodes' = [nodes EXCEPT ![Head(q).name] = Head(q).node]
    BY <1>8 DEF ClusterReceive, NetdType
  <2> HIDE DEF q
  <2>3. /\ Head(q) \in Event
        /\ LastIs(q, n, api[n]) => LastIs(Tail(q), n, api[n])
                                   \/ (Head(q) = [name |-> n, node |-> api[n]] /\ NoneOf(Tail(q), n))
        /\ NoneOf(q, n) => NoneOf(Tail(q), n) /\ Head(q).name # n
    BY <2>1, TailLast
  <2>4. Head(q) = [name |-> n, node |-> api[n]] => nodes'[n] = api[n]
    BY <2>2 DEF NetdType
  <2>5. Head(q).name # n => nodes'[n] = nodes[n]
    BY <2>2 DEF NetdType
  <2> QED
    BY <2>1, <2>2, <2>3, <2>4, <2>5 DEF MapFollows, MapAt, q
<1>9. CASE AnnotateFails
  BY <1>1, <1>9 DEF AnnotateFails, Up
<1>10. CASE Agent \/ UNCHANGED vars
  BY <1>1, <1>2, <1>10 DEF Agent, Wireguard, WireguardCleanup, CNI, CNICleanup, Removed, outsideAgent,
                           procVars, vars, Up
<1> QED
  BY <1>3, <1>4, <1>5, <1>6, <1>7, <1>8, <1>9, <1>10 DEF Next, Kubernetes, Local

LEMMA KeyFollowsStep ==
  ASSUME NetdType, Pristine, KeyFollows, [Next]_vars
  PROVE  KeyFollows'
<1> USE NetdAssumption
<1>1. SUFFICES ASSUME Up', Known(LocalNode)', LocalNode \notin dirty' \cup lost'["local"]
               PROVE  \/ LastIs(inbox'["local"], LocalNode, api'[LocalNode])
                      \/ annotating' \/ api'[LocalNode].key = key'
  BY DEF KeyFollows
<1> DEFINE q == inbox["local"]
           v == api[LocalNode]
<1>2. ASSUME Up, api'[LocalNode] = v, inbox'["local"] = q, lost'["local"] = lost["local"],
             UNCHANGED <<annotating, key>>, LocalNode \notin dirty
      PROVE  LastIs(inbox'["local"], LocalNode, api'[LocalNode]) \/ annotating' \/ api'[LocalNode].key = key'
  BY <1>1, <1>2 DEF KeyFollows, Known
<1>3. CASE Process
  <2>1. Run
    BY <1>1, <1>3, ProcessUp
  <2> QED
    BY <2>1, <1>1 DEF Run, Started, Known
<1>4. ASSUME NEW m \in Nodes, handle(m)
      PROVE  LastIs(inbox'["local"], LocalNode, api'[LocalNode]) \/ annotating' \/ api'[LocalNode].key = key'
  <2> DEFINE e == [name |-> m, node |-> api[m]]
  <2>1. Up /\ UNCHANGED <<api, annotating, key>> /\ dirty' = dirty \ {m}
    BY <1>4 DEF handle, localVars
  <2>2. CASE api[m] = Unparsable
    BY <2>1, <2>2, <1>1, <1>4 DEF handle, KeyFollows, Known
  <2>3. CASE api[m] # Unparsable
    <3>1. \/ inbox'["local"] = Append(q, e) /\ lost'["local"] = lost["local"] \ {m}
          \/ inbox'["local"] = q /\ lost'["local"] = lost["local"] \cup {m}
      BY <2>3, <1>4, Published DEF handle
    <3>2. q \in Seq(Event) /\ e \in Event /\ e.name = m /\ e.node = api[m]
      BY <2>3 DEF NetdType, Event
    <3> HIDE DEF e, q
    <3>3. CASE m = LocalNode
      <4>1. LastIs(Append(q, e), m, api[m])
        BY <3>2, AppendedIsLast
      <4> QED
        BY <3>1, <3>3, <2>1, <1>1, <4>1
    <3>4. CASE m # LocalNode
      <4>1. LastIs(q, LocalNode, v) => LastIs(Append(q, e), LocalNode, v)
        BY <3>2, <3>4, AppendedOther
      <4> QED
        BY <3>1, <3>4, <2>1, <1>1, <4>1 DEF KeyFollows, Known, q
    <3> QED
      BY <3>3, <3>4
  <2> QED
    BY <2>2, <2>3
<1>5. ASSUME NEW m \in Nodes, NEW w \in NodeValues[m], Change(m, w)
      PROVE  LastIs(inbox'["local"], LocalNode, api'[LocalNode]) \/ annotating' \/ api'[LocalNode].key = key'
  <2>1. Up /\ UNCHANGED <<inbox, lost, annotating, key>> /\ dirty' = dirty \cup {m}
    BY <1>1, <1>5 DEF Change, Up, procVars, localVars
  <2>2. api'[LocalNode] = v
    BY <1>1, <2>1, <1>5 DEF Change, NetdType
  <2> QED
    BY <2>1, <2>2, <1>1, <1>2
<1>6. CASE LocalReceive
  <2>1. Up /\ UNCHANGED <<api, dirty, key>> /\ q # << >> /\ q \in Seq(Event) /\ ~ annotating
    BY <1>6 DEF LocalReceive, NetdType
  <2>2. inbox'["local"] = Tail(q)
    BY <1>6 DEF LocalReceive, NetdType
  <2>3. lost'["local"] = lost["local"]
    BY <1>6, PublishedLocal DEF LocalReceive
  <2>4. annotating' = (Head(q).name = LocalNode /\ Head(q).node # Absent /\ Head(q).node.key # key)
    BY <1>6 DEF LocalReceive
  <2> HIDE DEF q
  <2>5. LastIs(q, LocalNode, v) => LastIs(Tail(q), LocalNode, v)
                                   \/ (Head(q) = [name |-> LocalNode, node |-> v])
    BY <2>1, TailLast
  <2>6. Head(q) = [name |-> LocalNode, node |-> v] => annotating' \/ v.key = key
    <3> HIDE DEF v
    <3>1. Head(q) = [name |-> LocalNode, node |-> v] => Head(q).name = LocalNode /\ Head(q).node = v
      OBVIOUS
    <3>2. v # Absent
      BY <2>1, <1>1 DEF Known, v
    <3> QED
      BY <2>4, <3>1, <3>2
  <2>7. LastIs(q, LocalNode, v) \/ v.key = key
    BY <2>1, <2>3, <1>1 DEF KeyFollows, Known, q
  <2> QED
    BY <2>1, <2>2, <2>5, <2>6, <2>7
<1>7. CASE AnnotateNode
  <2>1. Known(LocalNode)
    BY <1>1, <1>7, AnnotatedNode DEF Known
  <2>2. api'[LocalNode].key = key /\ key' = key
    BY <2>1, <1>7, AnnotatedNode DEF AnnotateNode, Annotated
  <2> QED
    BY <2>2
<1>8. CASE AnnotateFails
  BY <1>1, <1>8 DEF AnnotateFails, Up
<1>9. CASE ClusterReceive
  BY <1>1, <1>2, <1>9 DEF ClusterReceive, localVars, NetdType
<1>10. CASE Agent \/ UNCHANGED vars
  BY <1>1, <1>2, <1>10 DEF Agent, Wireguard, WireguardCleanup, CNI, CNICleanup, Removed, outsideAgent,
                           procVars, localVars, vars, Up
<1> QED
  BY <1>3, <1>4, <1>5, <1>6, <1>7, <1>8, <1>9, <1>10 DEF Next, Kubernetes, Local

-----------------------------------------------------------------------------
(***************************************************************************)
(* The agent follows Cluster and Local.                                    *)
(***************************************************************************)
LEMMA PortFollowsStep ==
  ASSUME NetdType, Pristine, PortFollows, [Next]_vars
  PROVE  PortFollows'
<1>1. SUFFICES ASSUME Up', port', ~ annotating', lost'["agent"] = {}
               PROVE  (IF localInbox = << >> THEN hasLocal = "port" ELSE localInbox[Len(localInbox)])'
  BY DEF PortFollows
<1>2. ASSUME Up, UNCHANGED <<port, annotating, localInbox, hasLocal>>, lost'["agent"] = lost["agent"]
      PROVE  (IF localInbox = << >> THEN hasLocal = "port" ELSE localInbox[Len(localInbox)])'
  BY <1>1, <1>2 DEF PortFollows
<1>3. CASE Process
  <2>1. Run
    BY <1>1, <1>3, ProcessUp
  <2> QED
    BY <2>1, <1>1 DEF Run, Started, Pristine, localVars
<1>4. ASSUME NEW m \in Nodes, handle(m)
      PROVE  (IF localInbox = << >> THEN hasLocal = "port" ELSE localInbox[Len(localInbox)])'
  <2>1. lost'["agent"] = lost["agent"]
    BY <1>4, Published DEF handle
  <2> QED
    BY <2>1, <1>2, <1>4 DEF handle, localVars, agentVars
<1>5. ASSUME NEW m \in Nodes, NEW w \in NodeValues[m], Change(m, w)
      PROVE  (IF localInbox = << >> THEN hasLocal = "port" ELSE localInbox[Len(localInbox)])'
  BY <1>1, <1>2, <1>5 DEF Change, Up, procVars, localVars, agentVars
<1>6. CASE LocalReceive
  <2>1. CASE PublishLocal
    BY <2>1, <1>1, PublishedLocal
  <2>2. CASE ~ PublishLocal
    <3>1. UNCHANGED <<localInbox, lost, hasLocal>> /\ Up /\ ~ annotating
      BY <2>2, <1>6 DEF LocalReceive, agentVars
    <3>2. port
      BY <1>1, <1>6, <2>2 DEF LocalReceive
    <3> QED
      BY <3>1, <3>2, <1>1 DEF PortFollows
  <2> QED
    BY <2>1, <2>2
<1>7. CASE AnnotateNode
  BY <1>1, <1>7, PublishedLocal DEF AnnotateNode, Annotated
<1>8. CASE AnnotateFails
  BY <1>1, <1>8 DEF AnnotateFails, Up
<1>9. CASE ClusterReceive
  BY <1>2, <1>9 DEF ClusterReceive, localVars, agentVars
<1>10. CASE Agent
  <2>1. Up /\ UNCHANGED <<port, annotating, lost, ctx>>
    <3>1. UNCHANGED outsideAgent
      BY <1>10 DEF Agent, Wireguard, WireguardCleanup, CNI, CNICleanup, Removed
    <3> QED
      BY <3>1, <1>1 DEF outsideAgent, procVars, localVars, Up
  <2>2. ~ closed
    BY <2>1 DEF Up, Pristine
  <2>3. localInbox \in Seq(BOOLEAN)
    BY DEF NetdType
  <2>4. CASE UNCHANGED <<localInbox, hasLocal>>
    BY <1>2, <2>1, <2>4
  <2>5. CASE ReceivesLocal
    <3>1. localInbox # << >> /\ localInbox' = Tail(localInbox) /\ hasLocal' = IF Head(localInbox) THEN "port" ELSE "noport"
      BY <2>2, <2>5 DEF ReceivesLocal
    <3>2. localInbox[Len(localInbox)]
      BY <3>1, <1>1, <2>1 DEF PortFollows
    <3>3. /\ Tail(localInbox) = << >> => Head(localInbox)
          /\ Tail(localInbox) # << >> => Tail(localInbox)[Len(Tail(localInbox))]
      BY <3>1, <3>2, <2>3, LastOfTail
    <3> QED
      BY <3>1, <3>3
  <2> QED
    BY <2>4, <2>5, <1>10 DEF Agent, Wireguard, WireguardCleanup, CNI, CNICleanup, Removed, Receives, ReceivesCluster
<1>11. CASE UNCHANGED vars
  BY <1>1, <1>2, <1>11 DEF vars, procVars, localVars, agentVars, Up
<1> QED
  BY <1>3, <1>4, <1>5, <1>6, <1>7, <1>8, <1>9, <1>10, <1>11 DEF Next, Kubernetes, Local

\* What a step of Cluster does to the agent's view.
LEMMA ClusterReceived ==
  ASSUME NetdType, ClusterReceive
  PROVE  \/ clusterInbox' > 0
         \/ /\ clusterInbox' = clusterInbox
            /\ \E m \in Nodes : /\ nodes' = [nodes EXCEPT ![m] = Absent]
                                /\ silent' = (silent \/ nodes[m] # Absent)
<1> DEFINE e == Head(inbox["cluster"])
<1>1. e \in Event
  <2>1. inbox["cluster"] \in Seq(Event) /\ inbox["cluster"] # << >>
    BY DEF NetdType, ClusterReceive
  <2> QED
    BY <2>1, TailLast
<1>2. e.name \in Nodes
  BY <1>1 DEF Event
<1>3. CASE e.node = Absent
  <2>1. clusterInbox' = clusterInbox /\ nodes' = [nodes EXCEPT ![e.name] = Absent]
    BY <1>3 DEF ClusterReceive
  <2>2. silent' = (silent \/ nodes[e.name] # Absent)
    BY <1>3 DEF ClusterReceive
  <2> HIDE DEF e
  <2> QED
    BY <2>1, <2>2, <1>2
<1>4. CASE e.node # Absent
  <2>1. clusterInbox' > 0
    BY <1>4, NetdAssumption DEF ClusterReceive, NetdType
  <2> QED
    BY <2>1
<1> QED
  BY <1>3, <1>4

LEMMA AgentKnowsStep ==
  ASSUME NetdType, Pristine, AgentKnows, [Next]_vars
  PROVE  AgentKnows'
<1> USE NetdAssumption
<1>1. SUFFICES ASSUME Up'
               PROVE  /\ localInbox' # << >> \/ hasLocal' # "none"
                      /\ ~ hasMap' /\ clusterInbox' = 0 => nodes' = NoNodes
  BY DEF AgentKnows, NoNodes
<1>2. ASSUME Up, UNCHANGED <<hasLocal, hasMap, clusterInbox, nodes>>, localInbox # << >> => localInbox' # << >>
      PROVE  (localInbox' # << >> \/ hasLocal' # "none") /\ (~ hasMap' /\ clusterInbox' = 0 => nodes' = NoNodes)
  BY <1>2 DEF AgentKnows
<1>3. CASE Process
  <2>1. Run
    BY <1>1, <1>3, ProcessUp
  <2> QED
    BY <2>1 DEF Run, Started, Pristine
<1>4. CASE Kubernetes \/ UNCHANGED vars
  BY <1>1, <1>2, <1>4 DEF Kubernetes, handle, Change, Up, procVars, agentVars, vars
<1>5. CASE LocalReceive \/ AnnotateNode
  <2>1. localInbox # << >> => localInbox' # << >>
    BY <1>5, PublishedLocal DEF LocalReceive, AnnotateNode, Annotated
  <2> QED
    BY <1>2, <1>5, <2>1 DEF LocalReceive, AnnotateNode, Annotated, agentVars
<1>6. CASE AnnotateFails
  BY <1>1, <1>6 DEF AnnotateFails, Up
<1>7. CASE ClusterReceive
  <2>1. Up /\ UNCHANGED <<localInbox, hasLocal, hasMap>>
    BY <1>7 DEF ClusterReceive, agentVars
  <2>2. ~ hasMap' /\ clusterInbox' = 0 => nodes' = NoNodes
    <3>1. SUFFICES ASSUME ~ hasMap', clusterInbox' = 0
                   PROVE  nodes' = NoNodes
      OBVIOUS
    <3>2. clusterInbox = 0 /\ \E m \in Nodes : nodes' = [nodes EXCEPT ![m] = Absent]
      BY <3>1, <1>7, ClusterReceived
    <3> QED
      BY <3>1, <3>2, <2>1 DEF AgentKnows, NoNodes
  <2> QED
    BY <2>1, <2>2 DEF AgentKnows
<1>8. CASE Agent
  <2>1. Up /\ UNCHANGED nodes
    BY <1>1, <1>8 DEF Agent, Wireguard, WireguardCleanup, CNI, CNICleanup, Removed, outsideAgent, procVars, Up
  <2>2. ~ closed
    BY <2>1 DEF Up, Pristine
  <2>3. CASE ReceivesLocal
    BY <2>1, <2>2, <2>3 DEF ReceivesLocal, AgentKnows
  <2>4. CASE ReceivesCluster
    BY <2>1, <2>2, <2>4 DEF ReceivesCluster, AgentKnows
  <2>5. CASE UNCHANGED <<localInbox, clusterInbox, hasLocal, hasMap>>
    BY <1>2, <2>1, <2>5
  <2> QED
    BY <1>8, <2>3, <2>4, <2>5 DEF Agent, Wireguard, WireguardCleanup, CNI, CNICleanup, Removed, Receives
<1> QED
  BY <1>3, <1>4, <1>5, <1>6, <1>7, <1>8 DEF Next, Local

LEMMA PeersStep ==
  ASSUME Pristine, PeersKnown, [Next]_vars
  PROVE  PeersKnown'
<1>1. ASSUME UNCHANGED <<component, proc, agent, peers, device>>
      PROVE  PeersKnown'
  BY <1>1 DEF PeersKnown
<1>2. CASE Process
  <2>1. CASE NewLocal \/ StoreKey
    BY <2>1 DEF NewLocal, StoreKey, PeersKnown, agentVars, wireguardVars
  <2>2. CASE Run
    BY <2>2 DEF Run, Started, PeersKnown, Pristine, NoDevice
  <2>3. CASE Dies
    BY <2>3 DEF Dies, PeersKnown
  <2>4. CASE Cancel \/ BrokersEnd
    BY <2>4, <1>1 DEF Cancel, BrokersEnd, agentVars, wireguardVars
  <2> QED
    BY <1>2, <2>1, <2>2, <2>3, <2>4 DEF Process, Crash, Exit
<1>3. CASE Kubernetes \/ Local \/ ClusterReceive \/ UNCHANGED vars
  BY <1>1, <1>3 DEF Kubernetes, handle, Change, Local, LocalReceive, AnnotateNode, Annotated, AnnotateFails,
                    ClusterReceive, procVars, agentVars, wireguardVars, vars
<1>4. CASE Wireguard
  <2>1. PICK new, ip :
          \/ UNCHANGED <<peers, device, agent>>
          \/ device' = [device EXCEPT !.ip = ip] /\ UNCHANGED <<peers, agent>>
          \/ peers' = new /\ device' = [ip |-> ip, peers |-> new]
          \/ agent' = "breaking" /\ (device' = device \/ device' = [device EXCEPT !.ip = ip])
    BY <1>4 DEF Wireguard, configureWireguard
  <2>2. UNCHANGED <<component, proc>> /\ agent = "running"
    BY <1>4 DEF Wireguard, Receives, outsideAgent, procVars
  <2>3. LET d == [device EXCEPT !.ip = ip] IN d.peers = device.peers /\ d = [ip |-> d.ip, peers |-> d.peers]
    BY DEF PeersKnown
  <2> QED
    BY <2>1, <2>2, <2>3 DEF PeersKnown
<1>5. CASE WireguardCleanup
  BY <1>5 DEF WireguardCleanup, CleanedUp, PeersKnown, NoDevice
<1>6. CASE CNI \/ CNICleanup
  BY <1>6 DEF CNI, CNICleanup, Removed, Receives, Leaves, outsideAgent, procVars, wireguardVars, PeersKnown
<1> QED
  BY <1>2, <1>3, <1>4, <1>5, <1>6 DEF Next, Agent

LEMMA DeviceStep ==
  ASSUME NetdType, Pristine, AgentKnows', PeersKnown, DeviceFollows, [Next]_vars
  PROVE  DeviceFollows'
<1>1. SUFFICES ASSUME component' = "wireguard", Up', agent' = "running", hasLocal' = "port",
                      clusterInbox' = 0, ~ silent'
               PROVE  Masked(device'.peers) = Masked(Peers(nodes'))
  BY DEF DeviceFollows, Peers, Masked
<1>2. ASSUME Up, UNCHANGED <<component, agent, hasLocal, clusterInbox, silent, device, nodes>>
      PROVE  Masked(device'.peers) = Masked(Peers(nodes'))
  BY <1>1, <1>2 DEF DeviceFollows
<1>3. CASE Process
  <2>1. Run
    BY <1>1, <1>3, ProcessUp
  <2> QED
    BY <2>1, <1>1 DEF Run, Started, Pristine
<1>4. CASE Kubernetes \/ Local \/ UNCHANGED vars
  BY <1>1, <1>2, <1>4 DEF Kubernetes, handle, Change, Local, LocalReceive, AnnotateNode, Annotated, AnnotateFails,
                          Up, procVars, agentVars, wireguardVars, vars
<1>5. CASE ClusterReceive
  <2>1. Up /\ UNCHANGED <<component, agent, hasLocal, device>>
    BY <1>5 DEF ClusterReceive, procVars, agentVars, wireguardVars
  <2>2. PICK m \in Nodes : /\ clusterInbox' = clusterInbox /\ nodes' = [nodes EXCEPT ![m] = Absent]
                           /\ silent' = (silent \/ nodes[m] # Absent)
    BY <1>1, <1>5, ClusterReceived
  <2>3. nodes[m] = Absent /\ ~ silent
    BY <2>2, <1>1
  <2>4. nodes' = nodes
    BY <2>2, <2>3 DEF NetdType
  <2> QED
    BY <2>1, <2>2, <2>3, <2>4, <1>1 DEF DeviceFollows
<1>6. CASE Wireguard
  <2>1. nodes' = nodes /\ configureWireguard
    BY <1>6 DEF Wireguard, outsideAgent
  <2>2. Masked(device'.peers) = Masked(Peers(IF hasMap' THEN nodes ELSE NoNodes))
    <3>1. PICK new : new = Peers(IF hasMap' THEN nodes ELSE NoNodes)
      OBVIOUS
    <3>2. \/ Same(new) /\ \E ip : device' = [device EXCEPT !.ip = ip]
          \/ device'.peers = new
      BY <2>1, <1>1, <3>1 DEF configureWireguard
    <3>3. component = "wireguard" /\ proc = "up" /\ agent = "running"
      BY <1>6 DEF Wireguard, Receives
    <3>4. Same(new) => Masked(device.peers) = Masked(new)
      BY <3>3 DEF Same, PeersKnown
    <3>5. ASSUME NEW ip, device' = [device EXCEPT !.ip = ip] PROVE device'.peers = device.peers
      BY <3>5 DEF PeersKnown
    <3> QED
      BY <3>1, <3>2, <3>4, <3>5
  <2>3. ~ hasMap' => nodes = NoNodes
    BY <2>1, <1>1 DEF AgentKnows, NoNodes
  <2> QED
    BY <2>1, <2>2, <2>3
<1>7. CASE WireguardCleanup
  BY <1>1, <1>7 DEF WireguardCleanup, CleanedUp
<1>8. CASE CNI \/ CNICleanup
  BY <1>1, <1>8 DEF CNI, CNICleanup, Removed, Receives, Leaves, outsideAgent, procVars
<1> QED
  BY <1>3, <1>4, <1>5, <1>6, <1>7, <1>8 DEF Next, Agent

LEMMA RulesFollowStep ==
  ASSUME NetdType, Pristine, RulesFollow, [Next]_vars
  PROVE  RulesFollow'
<1> USE NetdAssumption
<1> DEFINE Goal == file' = nodes'[LocalNode].cidrs /\ ToSet(nodes'[LocalNode].cidrs) \subseteq iptables'
<1>1. SUFFICES ASSUME component' = "cni", Up', agent' = "running", hasLocal' # "none", hasMap',
                      clusterInbox' = 0, nodes'[LocalNode] # Absent
               PROVE  Goal
  BY DEF RulesFollow, ToSet
<1>2. ASSUME Up, UNCHANGED <<component, agent, hasLocal, hasMap, clusterInbox, file, iptables>>,
             nodes'[LocalNode] = nodes[LocalNode]
      PROVE  Goal
  BY <1>1, <1>2 DEF RulesFollow
<1>3. CASE Process
  <2>1. Run
    BY <1>1, <1>3, ProcessUp
  <2> QED
    BY <2>1, <1>1 DEF Run, Started, Pristine
<1> HIDE DEF Goal
<1>4. CASE Kubernetes \/ Local \/ UNCHANGED vars
  <2>1. UNCHANGED <<component, nodes, clusterInbox, agentVars>>
    BY <1>4 DEF Kubernetes, handle, Change, Local, LocalReceive, AnnotateNode, Annotated, AnnotateFails,
                procVars, vars
  <2>2. Up
    BY <1>1, <1>4 DEF Kubernetes, handle, Change, Local, LocalReceive, AnnotateNode, Annotated, AnnotateFails,
                      procVars, vars, Up
  <2> QED
    BY <2>1, <2>2, <1>2 DEF agentVars, cniVars
<1>5. CASE ClusterReceive
  <2>1. Up /\ UNCHANGED <<component, agent, hasLocal, hasMap, file, iptables>>
    BY <1>5 DEF ClusterReceive, procVars, agentVars, cniVars
  <2>2. PICK m \in Nodes : clusterInbox' = clusterInbox /\ nodes' = [nodes EXCEPT ![m] = Absent]
    BY <1>1, <1>5, ClusterReceived
  <2>3. nodes'[LocalNode] = nodes[LocalNode]
    BY <2>2, <1>1 DEF NetdType
  <2> QED
    BY <2>1, <2>2, <2>3, <1>2
<1>6. CASE Wireguard \/ WireguardCleanup
  BY <1>1, <1>6 DEF Wireguard, WireguardCleanup, Receives, Leaves, outsideAgent, procVars
<1>7. CASE CNI
  <2>1. nodes' = nodes /\ configureCNI
    BY <1>7 DEF CNI, outsideAgent
  <2>2. file' = nodes[LocalNode].cidrs /\ iptables' = iptables \cup ToSet(nodes[LocalNode].cidrs)
    BY <2>1, <1>1 DEF configureCNI
  <2> QED
    BY <2>1, <2>2 DEF Goal
<1>8. CASE CNICleanup
  BY <1>1, <1>8 DEF CNICleanup, Removed, CleanedUp
<1> QED
  BY <1>3, <1>4, <1>5, <1>6, <1>7, <1>8 DEF Next, Agent

-----------------------------------------------------------------------------
LEMMA NetdInvInit == Init => NetdInv
<1> USE NetdAssumption
<1>1. SUFFICES ASSUME Init
               PROVE  NetdInv
  OBVIOUS
<1>2. NetdType
  <2>1. << >> \in Seq(BOOLEAN) /\ << >> \in Seq(Event)
    OBVIOUS
  <2>2. inbox \in [{"local", "cluster"} -> Seq(Event)] /\ localInbox \in Seq(BOOLEAN)
    BY <1>1, <2>1 DEF Init
  <2>3. lost \in [Subscribers -> SUBSET Nodes] /\ nodes \in [Nodes -> Node \cup {Absent}]
    BY <1>1 DEF Init, NoNodes
  <2>4. api \in [Nodes -> Node \cup {Absent, Unparsable}] /\ Foreign(api[LocalNode])
    BY <1>1 DEF Init
  <2> QED
    BY <1>1, <2>2, <2>3, <2>4 DEF Init, NetdType
<1>3. Foreign(api[LocalNode])
  BY <1>1 DEF Init
<1>4. Pristine /\ KeyStored
  BY <1>1 DEF Init, Pristine, KeyStored
<1>5. KeyDurable
  BY <1>3 DEF KeyDurable, Foreign, Known
<1>6. RulesKnown /\ RulesRemoved
  BY <1>1 DEF Init, RulesKnown, RulesRemoved
<1>8. PeersKnown
  BY <1>1 DEF Init, PeersKnown, NoDevice
<1>7. ~ Up
  BY <1>1 DEF Init, Up
<1> QED
  BY <1>2, <1>4, <1>5, <1>6, <1>7, <1>8 DEF NetdInv, MapFollows, KeyFollows, PortFollows, AgentKnows, DeviceFollows, RulesFollow

LEMMA NetdInvNext == NetdInv /\ [Next]_vars => NetdInv'
BY TypeStep, PristineStep, KeyStep, RulesStep, MapStep, KeyFollowsStep, PortFollowsStep, AgentKnowsStep,
   PeersStep, DeviceStep, RulesFollowStep DEF NetdInv

\* With nothing under way, what follows is there.
LEMMA QuietFollows == NetdInv => AgentsFollow
<1>1. SUFFICES ASSUME NetdInv, Quiet
               PROVE  AgentsFollow
  BY DEF AgentsFollow
<1>2. /\ Up /\ agent = "running" /\ dirty = {} /\ inbox["local"] = << >> /\ inbox["cluster"] = << >>
      /\ ~ annotating /\ localInbox = << >> /\ clusterInbox = 0
  BY <1>1 DEF Quiet, NetdInv, NetdType
<1>3. \A n \in Nodes \ lost["cluster"] : api[n] # Unparsable => nodes[n] = api[n]
  BY <1>1, <1>2, NothingIsLast DEF NetdInv, MapFollows, MapAt
<1>4. LocalNode \notin lost["local"] /\ Known(LocalNode) => api[LocalNode].key = key
  BY <1>1, <1>2, NothingIsLast DEF NetdInv, KeyFollows
<1>5. component = "wireguard" /\ port /\ lost["agent"] = {} /\ ~ silent =>
        Masked(device.peers) = Masked(Peers(nodes))
  BY <1>1, <1>2 DEF NetdInv, PortFollows, DeviceFollows
<1>6. component = "cni" /\ nodes[LocalNode] # Absent =>
        file = nodes[LocalNode].cidrs /\ ToSet(nodes[LocalNode].cidrs) \subseteq iptables
  <2>1. hasLocal # "none" /\ (nodes[LocalNode] # Absent => hasMap)
    BY <1>1, <1>2, NetdAssumption DEF NetdInv, AgentKnows, NoNodes
  <2> QED
    BY <2>1, <1>1, <1>2 DEF NetdInv, RulesFollow
<1> QED
  BY <1>3, <1>4, <1>5, <1>6 DEF AgentsFollow

(***************************************************************************)
(* NetdFollows: whatever the order in which nodes, port and key become     *)
(* known, a netd with nothing left to do has configured the kernel from    *)
(* what Kubernetes says, up to the masks of its peers, and published its   *)
(* key (Net.handle, Local.Run, Cluster.Run, Wireguard.Run, CNI.Run).       *)
(***************************************************************************)
THEOREM NetdFollows == Spec => []AgentsFollow
BY NetdInvInit, NetdInvNext, QuietFollows, PTL DEF Spec

(***************************************************************************)
(* KeySurvives: a key the cluster knows is the one that is stored, across  *)
(* crashes and failing writes at any point, unless getKey failed to read   *)
(* it from the file and NewLocal put another in its place.                 *)
(***************************************************************************)
THEOREM KeySurvives == Spec => []KeyDurable
<1>1. NetdInv => KeyDurable
  BY DEF NetdInv
<1> QED
  BY <1>1, NetdInvInit, NetdInvNext, PTL DEF Spec

(***************************************************************************)
(* CNICleansUp: CNI.Run ends without an error only when its rules are      *)
(* gone (CNI.cleanup).                                                     *)
(***************************************************************************)
THEOREM CNICleansUp == Spec => []RulesRemoved
<1>1. NetdInv => RulesRemoved
  BY DEF NetdInv
<1> QED
  BY <1>1, NetdInvInit, NetdInvNext, PTL DEF Spec
=============================================================================
