-------------------------------- MODULE Ccmd --------------------------------
(***************************************************************************)
(* ccmd: lib/run starts the services of the cloud controller manager one   *)
(* after the other and waits for an error or a signal.  The controller     *)
(* tells the others about the node ccmd runs on, by way of a broker;       *)
(* externalip and internalip restore its addresses, initialize takes its   *)
(* taint away once it has both.                                            *)
(*                                                                         *)
(* The informer, the work queue and the broker are fast: an event carries  *)
(* the node as it is when the controller handles it, and waits in the      *)
(* channel of a service.  A call that is retried on a conflict is one      *)
(* step, at its last try.  A node is its addresses and its taint.          *)
(***************************************************************************)
EXTENDS Naturals, Sequences, FiniteSets

CONSTANTS
  OwnIP,         \* nodeInternalIP of this node
  PublicIP,      \* what the server answers
  WrongIP,       \* an address that somebody else sets, or a torn read
  None,          \* no address, or one that cannot be parsed
  Absent,        \* no node
  BufferSize,    \* events a channel of the broker holds (5 in lib/broker)
  MaxFaults      \* bound: changes made by others, signals, failing calls, timeouts, torn reads

ASSUME CcmdAssumption ==
  /\ BufferSize \in Nat \ {0}
  /\ MaxFaults \in Nat

\* The order in which main adds the services.
Order == <<"externalip", "internalip", "initialize", "ccm">>
Services == {Order[i] : i \in 1..4}
Subscribers == Services \ {"ccm"}
Setters == {"externalip", "internalip"}   \* the services that call Set*IP

VARIABLES
  main,      \* Run.Run: "starting", "waiting", "ended"
  starting,  \* the service it starts, an index of Order
  svc,       \* "none", "started", "running", "failing", "reporting", "ended"
  ctx,       \* a signal cancelled the context
  pc,        \* where the loop of a subscriber is
  node,      \* the node in Kubernetes
  dirty,     \* the node is in the work queue
  chan,      \* channels of the subscribers
  field,     \* CCM.externalIP and CCM.internalIP, by their service
  own,       \* ExternalIP.externalIP
  lock,      \* holder of CCM.lock, or None
  other,     \* the address that its holder read of the other service
  stale,     \* the node changed since RemoveTaint read it
  lost,      \* history: services whose last event was dropped
  faults

runVars == <<main, starting, svc, ctx>>
loopVars == <<pc, chan, field, own, lock, other, lost>>
nodeVars == <<node, dirty, stale>>
vars == <<runVars, loopVars, nodeVars, faults>>

NoAddresses == [s \in Setters |-> None]
Ended == main = "ended"
Running(s) == ~ Ended /\ ~ ctx /\ svc[s] = "running"

Init ==
  /\ main = "starting" /\ starting = 1 /\ svc = [s \in Services |-> "none"] /\ ctx = FALSE
  /\ pc = [s \in Subscribers |-> "idle"]
  /\ node \in [externalip : {None, WrongIP}, internalip : {None, WrongIP}, taint : {TRUE}]
  /\ dirty = FALSE /\ chan = [s \in Subscribers |-> << >>]
  /\ field = NoAddresses /\ own = None /\ lock = None /\ other = None
  /\ stale = FALSE /\ lost = {} /\ faults = 0

Fault == faults < MaxFaults /\ faults' = faults + 1

\* The process ends, and with it all but the node.
End ==
  /\ main' = "ended" /\ starting' = 1 /\ svc' = [s \in Services |-> "none"] /\ ctx' = FALSE
  /\ pc' = [s \in Subscribers |-> "idle"] /\ chan' = [s \in Subscribers |-> << >>]
  /\ field' = NoAddresses /\ own' = None /\ lock' = None /\ other' = None
  /\ dirty' = FALSE /\ stale' = FALSE /\ lost' = {}
  /\ UNCHANGED node

-----------------------------------------------------------------------------
(***************************************************************************)
(* lib/run.                                                                *)
(***************************************************************************)
Current == Order[starting]

Startup ==
  /\ main = "starting" /\ svc[Current] = "none"
  /\ svc' = [svc EXCEPT ![Current] = "started"]
  /\ UNCHANGED <<main, starting, ctx, loopVars, nodeVars, faults>>

\* A service subscribes and notifies; the controller lists the nodes.
Notify(s) ==
  /\ ~ Ended /\ svc[s] = "started"
  /\ svc' = [svc EXCEPT ![s] = "running"]
  /\ dirty' = (dirty \/ (s = "ccm" /\ node # Absent))
  /\ UNCHANGED <<main, starting, ctx, loopVars, node, stale, faults>>

StartupDone ==
  /\ main = "starting" /\ svc[Current] \notin {"none", "started"}
  /\ IF starting = Len(Order)
       THEN main' = "waiting" /\ UNCHANGED starting
       ELSE starting' = starting + 1 /\ UNCHANGED main
  /\ UNCHANGED <<svc, ctx, loopVars, nodeVars, faults>>

StartupTimeout ==
  /\ main = "starting" /\ svc[Current] # "none" /\ Fault
  /\ End

Signal ==
  /\ ~ Ended /\ ~ ctx /\ Fault
  /\ ctx' = TRUE
  /\ UNCHANGED <<main, starting, svc, loopVars, nodeVars>>

\* Run returns; main exits without waiting for the services.
ReturnCancelled ==
  /\ main = "waiting" /\ ctx
  /\ End /\ UNCHANGED faults

ReturnError ==
  /\ main = "waiting" /\ \E s \in Services : svc[s] = "reporting"
  /\ End /\ UNCHANGED faults

\* A service that fails unsubscribes first, which needs the broker; the
\* broker ends with the controller.  Then it sends the error.
Unsubscribed(s, state) ==
  /\ ~ Ended /\ svc[s] = "failing" /\ svc["ccm"] # "ended"
  /\ svc' = [svc EXCEPT ![s] = state]
  /\ UNCHANGED <<main, starting, ctx, loopVars, nodeVars, faults>>

\* Mutant: an error is not kept when nobody waits for it.
watchUnheard(s) == Unsubscribed(s, IF main = "waiting" THEN "reporting" ELSE "ended")

watch(s) == Unsubscribed(s, "reporting")

\* CCM.Run returns, and with it the broker.  What the other services still
\* do after a signal, other than fail, is left out.
CCMEnds ==
  /\ ~ Ended /\ ctx /\ svc["ccm"] = "running"
  /\ svc' = [svc EXCEPT !["ccm"] = "ended"]
  /\ UNCHANGED <<main, starting, ctx, loopVars, nodeVars, faults>>

-----------------------------------------------------------------------------
(***************************************************************************)
(* Kubernetes and the controller.                                          *)
(***************************************************************************)
Put(new) ==
  /\ node' = new
  /\ dirty' = (dirty \/ (new # node /\ svc["ccm"] = "running"))

\* A change between the read and the write of RemoveTaint.
Conflict == stale' = (pc["initialize"] = "put" /\ (stale \/ node' # node))

\* Before the controller lists the nodes a change only makes another list.
Tamper ==
  /\ Running("ccm") /\ Fault
  /\ node # Absent
  /\ \/ Put(Absent)
     \/ \E s \in Setters, ip \in {None, WrongIP} : node[s] # ip /\ Put([node EXCEPT ![s] = ip])
  /\ Conflict
  /\ UNCHANGED <<runVars, loopVars>>

\* The broker drops an event for a channel that is full.  A channel holds what
\* its service looks at: the external address, whether there is an internal
\* one, whether there are both.
Publish(event) ==
  LET heard == {s \in Subscribers : Len(chan[s]) < BufferSize}
  IN /\ chan' = [s \in Subscribers |-> IF s \in heard THEN Append(chan[s], event[s]) ELSE chan[s]]
     /\ lost' = Subscribers \ heard

handle ==
  /\ Running("ccm") /\ dirty /\ node # Absent
  /\ dirty' = FALSE
  /\ Publish([externalip |-> node.externalip,
              internalip |-> node.internalip # None,
              initialize |-> node.externalip # None /\ node.internalip # None])
  /\ UNCHANGED <<runVars, pc, field, own, lock, other, node, stale, faults>>

\* The handler of a node that is gone reads through a nil pointer in a
\* goroutine that nothing recovers: the process ends.
handleDeleted ==
  /\ Running("ccm") /\ dirty /\ node = Absent
  /\ End /\ UNCHANGED faults

-----------------------------------------------------------------------------
(***************************************************************************)
(* externalip and internalip.  The field is written outside the lock.      *)
(***************************************************************************)
Idle(s) == Running(s) /\ pc[s] = "idle"

Begin(s, ip) ==
  /\ pc' = [pc EXCEPT ![s] = "lock"]
  /\ field' = [field EXCEPT ![s] = ip]

Receive(s) ==
  /\ Idle(s) /\ chan[s] # << >>
  /\ chan' = [chan EXCEPT ![s] = Tail(@)]

Tick ==
  /\ Idle("externalip") /\ own # PublicIP
  /\ Begin("externalip", PublicIP)
  /\ UNCHANGED <<runVars, chan, own, lock, other, lost, nodeVars, faults>>

\* Every try of fetchPublicIP failed.
FetchFails ==
  /\ Idle("externalip") /\ Fault
  /\ svc' = [svc EXCEPT !["externalip"] = "failing"]
  /\ UNCHANGED <<main, starting, ctx, loopVars, nodeVars>>

\* Mutant: an event is only heard before there is an address.
ExternalEventOnce ==
  /\ Receive("externalip")
  /\ own' = IF own = None THEN Head(chan["externalip"]) ELSE own
  /\ UNCHANGED <<runVars, pc, field, lock, other, lost, nodeVars, faults>>

ExternalEvent ==
  LET ip == Head(chan["externalip"])
  IN /\ Receive("externalip")
     /\ \/ own # None /\ ip # own /\ Begin("externalip", own) /\ UNCHANGED own
        \/ own = ip /\ UNCHANGED <<own, pc, field>>
        \/ own = None /\ ip # None /\ own' = ip /\ UNCHANGED <<pc, field>>
     /\ UNCHANGED <<runVars, lock, other, lost, nodeVars, faults>>

\* Once the service knows its node it sets the address on every event.
InternalEvent ==
  LET valid == Head(chan["internalip"])
  IN /\ Receive("internalip")
     /\ IF ~ valid \/ field["internalip"] # None
          THEN Begin("internalip", OwnIP)
          ELSE UNCHANGED <<pc, field>>
     /\ UNCHANGED <<runVars, own, lock, other, lost, nodeVars, faults>>

\* The write of a field may overlap the read of it in the other service's
\* update, until the writer has the lock.
Lock(s) ==
  /\ Running(s) /\ pc[s] = "lock" /\ lock = None
  /\ lock' = s /\ pc' = [pc EXCEPT ![s] = "update"]
  /\ \E t \in Setters \ {s} :
       \/ other' = field[t] /\ UNCHANGED faults
       \/ pc[t] = "lock" /\ other' = WrongIP /\ Fault
  /\ UNCHANGED <<runVars, chan, field, own, lost, nodeVars>>

Update(s) ==
  /\ lock = s /\ Running(s) /\ node # Absent
  /\ Put([t \in DOMAIN node |-> IF t = s THEN field[s] ELSE IF t \in Setters THEN other ELSE node[t]])
  /\ Conflict
  /\ own' = IF s = "externalip" THEN field[s] ELSE own
  /\ lock' = None /\ pc' = [pc EXCEPT ![s] = "idle"]
  /\ other' = None
  /\ UNCHANGED <<runVars, chan, field, lost, faults>>

UpdateFails(s) ==
  /\ lock = s
  /\ \/ (node = Absent \/ ctx) /\ UNCHANGED faults
     \/ Fault
  /\ svc' = [svc EXCEPT ![s] = "failing"]
  /\ lock' = None /\ other' = None
  /\ UNCHANGED <<main, starting, ctx, pc, chan, field, own, lost, nodeVars>>

-----------------------------------------------------------------------------
(***************************************************************************)
(* initialize.  RemoveTaint reads the node and writes it back; a conflict  *)
(* is an error.                                                            *)
(***************************************************************************)
InitializeEvent ==
  LET complete == Head(chan["initialize"])
  IN /\ Receive("initialize")
     /\ \/ /\ ~ complete
           /\ UNCHANGED <<svc, pc, stale>>
        \/ /\ complete /\ node = Absent
           /\ svc' = [svc EXCEPT !["initialize"] = "failing"] /\ UNCHANGED <<pc, stale>>
        \/ /\ complete /\ node # Absent /\ ~ node.taint
           /\ UNCHANGED <<svc, pc, stale>>
        \/ /\ complete /\ node # Absent /\ node.taint
           /\ pc' = [pc EXCEPT !["initialize"] = "put"] /\ stale' = FALSE /\ UNCHANGED svc
     /\ UNCHANGED <<main, starting, ctx, field, own, lock, other, lost, node, dirty, faults>>

RemoveTaint ==
  /\ Running("initialize") /\ pc["initialize"] = "put" /\ ~ stale
  /\ Put([node EXCEPT !.taint = FALSE]) /\ stale' = FALSE
  /\ pc' = [pc EXCEPT !["initialize"] = "idle"]
  /\ UNCHANGED <<runVars, chan, field, own, lock, other, lost, faults>>

RemoveTaintFails ==
  /\ svc["initialize"] = "running" /\ pc["initialize"] = "put"
  /\ \/ (stale \/ ctx) /\ UNCHANGED faults
     \/ Fault
  /\ svc' = [svc EXCEPT !["initialize"] = "failing"]
  /\ UNCHANGED <<main, starting, ctx, loopVars, nodeVars>>

-----------------------------------------------------------------------------
Main == Startup \/ StartupDone \/ ReturnCancelled \/ ReturnError
Controller == handle \/ handleDeleted
Service(s) == Notify(s) \/ watch(s)
Setter(s) == Lock(s) \/ Update(s) \/ UpdateFails(s)
Initialize == InitializeEvent \/ RemoveTaint \/ RemoveTaintFails

Next ==
  \/ Main \/ StartupTimeout \/ Signal \/ Tamper \/ Controller \/ CCMEnds
  \/ Tick \/ FetchFails \/ ExternalEvent \/ InternalEvent \/ Initialize
  \/ \E s \in Services : Service(s)
  \/ \E s \in Setters : Setter(s)

\* The goroutines are scheduled and calls return; time passes, so the ticker fires.
Fairness ==
  /\ WF_vars(Main) /\ WF_vars(Controller) /\ WF_vars(Tick) /\ WF_vars(ExternalEvent)
  /\ WF_vars(InternalEvent) /\ WF_vars(Initialize)
  /\ \A s \in Services : WF_vars(Notify(s)) /\ WF_vars(watch(s))
  /\ \A s \in Setters : WF_vars(Setter(s))

Spec == Init /\ [][Next]_vars /\ Fairness

-----------------------------------------------------------------------------
(***************************************************************************)
(* ProcessEnds: a signal or the error of a service ends ccmd, also when    *)
(* the service fails while later ones are being started, when its          *)
(* Unsubscribe blocks because the broker is gone, or when several fail     *)
(* (runnable.watch, Run.Run).                                              *)
(***************************************************************************)
ProcessEnds == (ctx \/ \E s \in Services : svc[s] = "failing") ~> Ended

Settled ==
  /\ "externalip" \in lost \/ node.externalip = PublicIP
  /\ \/ "internalip" \in lost \/ node.internalip = OwnIP
     \/ (field["internalip"] = None /\ node.internalip # None)
  /\ lost # {} \/ ~ node.taint

(***************************************************************************)
(* AddressesSettle: once nobody tampers with the node, ccmd has ended, the *)
(* node is gone, or it has its public and its internal address and no      *)
(* taint, although the services write the shared fields outside the lock   *)
(* and each writes both addresses.  The exceptions are a service whose     *)
(* last event was dropped, and an internal address that was there when     *)
(* ccmd started and never went, which InternalIP.Run takes for its own.    *)
(***************************************************************************)
AddressesSettle == <>[](Ended \/ node = Absent \/ Settled)
=============================================================================
