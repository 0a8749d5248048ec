-------------------------------- MODULE Stp --------------------------------
(***************************************************************************)
(* Spanning tree instances and STP ports: src/src/switching/sai_stp.c and  *)
(* sai_stp_utils.c.                                                        *)
(*                                                                         *)
(* Every call of the STP API is one critical section of the STP lock, and  *)
(* one step here: nothing else is locked inside it.  The exception is      *)
(* sai_stp_port_create, which looks its instance up before it takes the    *)
(* lock.  sai_stp_vlan_add and sai_stp_vlan_remove are called by the VLAN  *)
(* component (VlanStp.tla); here any order of calls is allowed.            *)
(*                                                                         *)
(* Left out: the state (blocking, learning, forwarding) of an STP port,    *)
(* the internal VLAN of the L3 instance, and the tables of the NPU.        *)
(***************************************************************************)
EXTENDS Integers, FiniteSets

CONSTANTS
  Thread,       \* the threads that call the API
  Vlan,         \* VLAN ids
  DefaultVlan,  \* VLAN 1
  Stp,          \* the instance identifiers the NPU may return
  NoStp,        \* no instance
  DefaultStp,   \* g_def_stp_id
  Port,         \* physical ports
  StpPort,      \* identifiers of STP port objects
  NoInfo,       \* content of the global STP port tree for an unused id
  NoCall,       \* no call of sai_stp_port_create under way
  NpuMayFail    \* may a call of the NPU plug-in (or an allocation) fail?

ASSUME DefaultAssumption == DefaultVlan \in Vlan /\ DefaultStp \in Stp
ASSUME NpuMayFailAssumption == NpuMayFail \in BOOLEAN

VARIABLES
  stps,      \* stp_info_tree: instances that exist
  vlans,     \* vlan_tree of each instance
  ports,     \* stp_port_tree of each instance
  numPorts,  \* num_ports of each instance
  stpPort,   \* global_stp_port_tree: instance and port of each STP port
  portCall,  \* the STP port a thread is about to create
  tainted    \* history: instances an STP port was created on after the free

portVars == <<ports, numPorts, stpPort, portCall, tainted>>
stpVars == <<stps, vlans, portVars>>

StpPortInfo == [inst : Stp, port : Port]

(* fresh: the instance node that the thread has found still exists.        *)
PortCall == [inst : Stp, port : Port, fresh : BOOLEAN]

ASSUME NullAssumption ==
  /\ NoStp \notin Stp
  /\ NoInfo \notin StpPortInfo
  /\ NoCall \notin PortCall

ASSUME FiniteAssumption == IsFiniteSet(StpPort)

StpTypeOK ==
  /\ stps \in SUBSET Stp
  /\ vlans \in [Stp -> SUBSET Vlan]
  /\ ports \in [Stp -> SUBSET Port]
  /\ numPorts \in [Stp -> Int]
  /\ \A i \in Stp \ tainted : numPorts[i] >= 0
  /\ stpPort \in [StpPort -> StpPortInfo \cup {NoInfo}]
  /\ portCall \in [Thread -> PortCall \cup {NoCall}]
  /\ tainted \in SUBSET Stp

(* After sai_stp_init: the default VLAN is in the default instance.        *)
StpInit ==
  /\ stps = {DefaultStp}
  /\ vlans = [i \in Stp |-> IF i = DefaultStp THEN {DefaultVlan} ELSE {}]
  /\ ports = [i \in Stp |-> {}]
  /\ numPorts = [i \in Stp |-> 0]
  /\ stpPort = [s \in StpPort |-> NoInfo]
  /\ portCall = [t \in Thread |-> NoCall]
  /\ tainted = {}

---------------------------------------------------------------------------
(* sai_stp_vlan_add, sai_stp_vlan_remove                                   *)

(* Mutant: a VLAN may join an instance that is gone.                       *)
CanJoinAny(v, i) == v \notin vlans[i]

CanJoin(v, i) == i \in stps /\ v \notin vlans[i]

CanLeave(v, i) == i \in stps /\ v \in vlans[i]

StpVlanAdd(v, i) ==
  /\ CanJoin(v, i)
  /\ vlans' = [vlans EXCEPT ![i] = @ \cup {v}]
  /\ UNCHANGED <<stps, portVars>>

StpVlanRemove(v, i) ==
  /\ CanLeave(v, i)
  /\ vlans' = [vlans EXCEPT ![i] = @ \ {v}]
  /\ UNCHANGED <<stps, portVars>>

---------------------------------------------------------------------------
(* sai_stp_instance_create, sai_stp_instance_remove                        *)

CreateInstance(i) ==
  /\ i \notin stps
  /\ stps' = stps \cup {i}
  /\ vlans' = [vlans EXCEPT ![i] = {}]
  /\ ports' = [ports EXCEPT ![i] = {}]
  /\ numPorts' = [numPorts EXCEPT ![i] = 0]
  /\ UNCHANGED <<stpPort, portCall, tainted>>

(* Mutant: only the STP ports keep an instance alive.                      *)
NoPortsLeft(i) == numPorts[i] = 0

(* Mutant: only the VLANs do.                                              *)
NoVlansLeft(i) == vlans[i] = {}

InstanceFree(i) == vlans[i] = {} /\ numPorts[i] = 0

(* The node is freed: a thread that has looked it up is left with a        *)
(* pointer to nothing.  vlans, ports and numPorts of an instance that does *)
(* not exist mean nothing.                                                 *)
RemoveInstance(i) ==
  /\ i \in stps
  /\ InstanceFree(i)
  /\ stps' = stps \ {i}
  /\ portCall' = [t \in Thread |->
       IF portCall[t] # NoCall /\ portCall[t].inst = i
       THEN [portCall[t] EXCEPT !.fresh = FALSE] ELSE portCall[t]]
  /\ UNCHANGED <<vlans, ports, numPorts, stpPort, tainted>>

---------------------------------------------------------------------------
(* sai_stp_port_create, sai_stp_port_remove                                *)

(* The instance is looked up without the STP lock ...                      *)
StpPortLookup(t, i, p) ==
  /\ portCall[t] = NoCall
  /\ i \in stps
  /\ portCall' = [portCall EXCEPT ![t] = [inst |-> i, port |-> p, fresh |-> TRUE]]
  /\ UNCHANGED <<stps, vlans, ports, numPorts, stpPort, tainted>>

PortCallDone(t) == portCall' = [portCall EXCEPT ![t] = NoCall]

(* An unused id for the STP port of the call enters the global tree.       *)
NewStpPort(call) ==
  \E s \in StpPort :
    /\ stpPort[s] = NoInfo
    /\ stpPort' = [stpPort EXCEPT ![s] = [inst |-> call.inst, port |-> call.port]]

(* ... and the node that was found is used under it.                       *)
StpPortCreate(t) ==
  LET call == portCall[t] IN
  /\ call # NoCall
  /\ call.fresh
  /\ call.port \notin ports[call.inst]
  /\ NewStpPort(call)
  /\ ports' = [ports EXCEPT ![call.inst] = @ \cup {call.port}]
  /\ numPorts' = [numPorts EXCEPT ![call.inst] = @ + 1]
  /\ PortCallDone(t)
  /\ UNCHANGED <<stps, vlans, tainted>>

(* Mutant: the global tree refuses the port and num_ports stays.           *)
StpPortCreateFailCounted(t) ==
  LET call == portCall[t] IN
  /\ call # NoCall
  /\ NpuMayFail
  /\ call.fresh
  /\ call.port \notin ports[call.inst]
  /\ numPorts' = [numPorts EXCEPT ![call.inst] = @ + 1]
  /\ PortCallDone(t)
  /\ UNCHANGED <<stps, vlans, ports, stpPort, tainted>>

(* ITEM_ALREADY_EXISTS, no id left, or a failure that is rolled back.      *)
StpPortCreateFail(t) ==
  LET call == portCall[t] IN
  /\ call # NoCall
  /\ \/ NpuMayFail
     \/ ~ call.fresh
     \/ call.port \in ports[call.inst]
     \/ \A s \in StpPort : stpPort[s] # NoInfo
  /\ PortCallDone(t)
  /\ UNCHANGED <<stps, vlans, ports, numPorts, stpPort, tainted>>

(* On freed memory the handler may also go on: the STP port enters the     *)
(* global tree, and the tree and counter it updates are nobody's.          *)
StpPortCreateDangling(t) ==
  LET call == portCall[t] IN
  /\ call # NoCall
  /\ ~ call.fresh
  /\ NewStpPort(call)
  /\ tainted' = tainted \cup {call.inst}
  /\ PortCallDone(t)
  /\ UNCHANGED <<stps, vlans, ports, numPorts>>

(* Mutant: an STP port that is removed is taken off the counter twice.     *)
StpPortRemoveTwice(s) ==
  LET i == stpPort[s].inst IN
  /\ stpPort[s] # NoInfo
  /\ stpPort' = [stpPort EXCEPT ![s] = NoInfo]
  /\ ports' = [ports EXCEPT ![i] = @ \ {stpPort[s].port}]
  /\ numPorts' = [numPorts EXCEPT ![i] = @ - 2]
  /\ UNCHANGED <<stps, vlans, portCall, tainted>>

(* The instance is searched for by id: it may be gone, or be a new one     *)
(* that has taken the id, whose counter then goes down although its tree   *)
(* does not list the port.                                                 *)
StpPortRemove(s) ==
  LET i == stpPort[s].inst IN
  /\ stpPort[s] # NoInfo
  /\ stpPort' = [stpPort EXCEPT ![s] = NoInfo]
  /\ IF i \in stps
     THEN /\ \/ ports' = [ports EXCEPT ![i] = @ \ {stpPort[s].port}]
             \/ i \in tainted /\ UNCHANGED ports
          /\ numPorts' = [numPorts EXCEPT ![i] = @ - 1]
     ELSE UNCHANGED <<ports, numPorts>>
  /\ UNCHANGED <<stps, vlans, portCall, tainted>>

---------------------------------------------------------------------------

StpInstanceStep == \E i \in Stp : CreateInstance(i) \/ RemoveInstance(i)

StpPortStep(t) ==
  \/ \E i \in Stp, p \in Port : StpPortLookup(t, i, p)
  \/ StpPortCreate(t) \/ StpPortCreateFail(t) \/ StpPortCreateDangling(t)

StpNext ==
  \/ StpInstanceStep
  \/ \E t \in Thread : StpPortStep(t)
  \/ \E s \in StpPort : StpPortRemove(s)
  \/ \E v \in Vlan, i \in Stp : StpVlanAdd(v, i) \/ StpVlanRemove(v, i)

StpSpec == StpInit /\ [][StpNext]_stpVars

---------------------------------------------------------------------------
(* Properties                                                              *)

(* num_ports, which decides whether an instance can be removed, counts the *)
(* STP ports of the instance, in its own tree and in the global one, for   *)
(* every instance no STP port was created on after its node was freed.     *)
StpPortsCounted ==
  \A i \in stps \ tainted :
    LET attached == {s \in StpPort : stpPort[s] # NoInfo /\ stpPort[s].inst = i}
    IN /\ ports[i] = {stpPort[s].port : s \in attached}
       /\ numPorts[i] = Cardinality(attached)

(* An STP port outlives its instance only where the removal ran into its   *)
(* creation (sai_stp.c:657 and 711): the check of num_ports holds it back  *)
(* in every other order of calls.                                          *)
StrayPortOnlyByRace ==
  \A s \in StpPort :
    stpPort[s] # NoInfo /\ stpPort[s].inst \notin tainted
      => stpPort[s].inst \in stps

=============================================================================
