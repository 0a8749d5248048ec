----------------------------- MODULE LockOrder -----------------------------
(* The locks of the modules and the calls that take one inside another.    *)
(* A call is a sequence of sections; in each it takes the locks listed, in *)
(* that order, and gives them all back at the end.  The locks are not      *)
(* recursive.  Some returns forget a lock: it is then lost for good.       *)
EXTENDS Naturals, Sequences, FiniteSets

CONSTANTS LThread, NoOwner, Lost, NoRun,
          MaxLost   \* bound: how many locks are lost

(* Mutant: the modules are told of new members with the LAG lock held      *)
LagMembersInside == <<<<"lag", "fib">>, <<"bridge">>, <<"l2mc", "lag">>>>

(* sai_lag_port_add, then what sai_lag_notify_modules calls: the router    *)
(* interfaces, the bridge ports and, through these, the L2 multicast       *)
LagMembers == <<<<"lag">>, <<"fib">>, <<"bridge">>, <<"l2mc", "lag">>>>

LagRif == <<<<"fib", "lag">>>>                \* sai_fib_router_interface_create
NeighborMac == <<<<"fib", "fdb">>>>           \* sai_fib_neighbor_create
FdbReport == <<<<"fdb">>, <<"fib">>>>         \* events for the neighbours
FdbLearn == <<<<"fdb", "stp">>>>              \* sai_common_fdb_event_notification
VlanInStp == <<<<"vlan", "stp">>>>            \* sai_l2_create_vlan
RemoveUsedVlan == <<<<"vlan">>>>              \* sai_l2_remove_vlan
BridgePortOn(lock) == <<<<"bridge", lock>>>>  \* sai_bridge_take_module_lock
TunnelOnRif == <<<<"tunnel", "fib">>>>        \* dn_sai_tunnel_create
MapEntryOnBridge == <<<<"tunnel", "bridge">>>>\* dn_sai_create_tunnel_map_entry
PortUses(lock) == <<<<"port", lock>>>>        \* sai_port_apply_attribute
RuleUses(lock) == <<<<"acl", lock>>>>         \* sai_create_acl_rule
HashOnUdf == <<<<"hash", "udf">>>>           \* dn_sai_hash_obj_set_attr
SwitchHash == <<<<"hash">>>>                  \* dn_sai_switch_hash_attr_set
GroupMemberOnLag == <<<<"l2mc", "lag">>>>     \* sai_l2mc_create_group_member
L2mcEntry == <<<<"l2mc", "mcast">>>>          \* sai_l2mc_mcast_lock

Calls ==
  [lagMembers |-> LagMembers, lagRif |-> LagRif, neighbor |-> NeighborMac,
   fdbReport |-> FdbReport, fdbLearn |-> FdbLearn,
   vlan |-> VlanInStp, removeVlan |-> RemoveUsedVlan,
   portPort |-> BridgePortOn("port"), lagPort |-> BridgePortOn("lag"),
   routerPort |-> BridgePortOn("fib"), tunnelPort |-> BridgePortOn("tunnel"),
   tunnel |-> TunnelOnRif, mapEntry |-> MapEntryOnBridge,
   portMirror |-> PortUses("mirror"), portQos |-> PortUses("qos"),
   portSample |-> PortUses("samplepacket"),
   ruleMirror |-> RuleUses("mirror"), ruleSample |-> RuleUses("samplepacket"),
   ruleUdf |-> RuleUses("udf"), ruleTable |-> RuleUses("port"),
   hashUdf |-> HashOnUdf, switchHash |-> SwitchHash,
   member |-> GroupMemberOnLag, l2mcEntry |-> L2mcEntry]

CallName == DOMAIN Calls
Run == [call : CallName, sec : Nat, held : Nat]

ASSUME LockAssumption ==
  NoOwner \notin LThread /\ Lost \notin LThread \cup {NoOwner} /\ NoRun \notin Run

Lock == {"lag", "fib", "fdb", "stp", "vlan", "bridge", "tunnel", "port", "acl", "mirror",
         "qos", "samplepacket", "udf", "hash", "l2mc", "mcast"}

(* The lock a call forgets when it refuses its arguments                   *)
Forgets == {<<"removeVlan", "vlan">>, <<"ruleMirror", "mirror">>,
            <<"hashUdf", "hash">>, <<"switchHash", "hash">>}
LostBy(c) == {l \in Lock : <<c, l>> \in Forgets}

VARIABLES
  lockOwner,  \* who holds a lock
  running     \* the call of a thread, its section, and how many locks it has

lockVars == <<lockOwner, running>>

Chain(t) == Calls[running[t].call][running[t].sec]
Wants(t) == Chain(t)[running[t].held + 1]
Waits(t) == running[t] # NoRun /\ running[t].held < Len(Chain(t))
Held(t) == {l \in Lock : lockOwner[l] = t}

StartCall(t, c) ==
  /\ running[t] = NoRun
  /\ running' = [running EXCEPT ![t] = [call |-> c, sec |-> 1, held |-> 0]]
  /\ UNCHANGED lockOwner

TakeLock(t) ==
  /\ Waits(t) /\ lockOwner[Wants(t)] = NoOwner
  /\ lockOwner' = [lockOwner EXCEPT ![Wants(t)] = t]
  /\ running' = [running EXCEPT ![t].held = @ + 1]

GiveBack(t, lost) ==
  lockOwner' = [l \in Lock |-> IF lockOwner[l] # t THEN lockOwner[l]
                               ELSE IF l \in lost THEN Lost ELSE NoOwner]

NextSection(r) ==
  IF r.sec < Len(Calls[r.call]) THEN [r EXCEPT !.sec = r.sec + 1, !.held = 0] ELSE NoRun

EndSection(t) ==
  /\ running[t] # NoRun /\ running[t].held = Len(Chain(t))
  /\ GiveBack(t, {})
  /\ running' = [running EXCEPT ![t] = NextSection(running[t])]

ReturnEarly(t) ==
  /\ running[t] # NoRun /\ running[t].held = Len(Chain(t))
  /\ LostBy(running[t].call) # {}
  /\ Cardinality({l \in Lock : lockOwner[l] = Lost}) < MaxLost
  /\ GiveBack(t, LostBy(running[t].call))
  /\ running' = [running EXCEPT ![t] = NoRun]

LockInit ==
  /\ lockOwner = [l \in Lock |-> NoOwner]
  /\ running = [t \in LThread |-> NoRun]

LockNext ==
  \E t \in LThread : \/ \E c \in CallName : StartCall(t, c)
                     \/ TakeLock(t) \/ EndSection(t) \/ ReturnEarly(t)

LockSpec == LockInit /\ [][LockNext]_lockVars

---------------------------------------------------------------------------
LockTypeOK ==
  /\ lockOwner \in [Lock -> LThread \cup {NoOwner, Lost}]
  /\ running \in [LThread -> Run \cup {NoRun}]
  /\ \A t \in LThread : running[t] # NoRun =>
       /\ running[t].sec \in DOMAIN Calls[running[t].call]
       /\ running[t].held \in 0 .. Len(Chain(t))

(* Threads that wait for each other, or for what was lost             *)
Stuck(S) == \A t \in S : Waits(t) /\ lockOwner[Wants(t)] \in S \cup {Lost}
Circle(S) == S # {} /\ \A t \in S : Waits(t) /\ lockOwner[Wants(t)] \in S

(* Threads wait for each other in a circle only where one is adding a      *)
(* bridge port of type TUNNEL, which takes the tunnel lock inside the      *)
(* bridge lock (sai_bridge.c:916), and another one changes a tunnel map    *)
(* entry, which takes them the other way (sai_tunnel_map_obj.c:428).  And  *)
(* a thread that is stuck for good, also behind a lock that an early       *)
(* return has lost (sai_vlan.c:306, sai_mirror_common.c:764,               *)
(* sai_hash_obj.c:643, 1030), takes no lock with it but the ones of        *)
(* bridges, tunnels, ports and access lists: routing, LAGs and the FDB go  *)
(* on.                                                                     *)
LocksSound ==
  \A S \in SUBSET LThread :
    /\ Circle(S) => {"tunnelPort", "mapEntry"} \subseteq {running[t].call : t \in S}
    /\ Stuck(S) => \A t \in S : Held(t) \subseteq {"bridge", "tunnel", "port", "acl"}
============================================================================
