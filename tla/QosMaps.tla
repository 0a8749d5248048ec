------------------------------ MODULE QosMaps ------------------------------
(* QoS maps and the ports they are bound to: sai_qos_maps.c,               *)
(* sai_qos_map_utils.c and sai_qos_pfc_maps.c.  Every handler runs under   *)
(* the QoS lock and is one action.  The keys of a map (DSCP, 802.1p, TC    *)
(* and colour, PFC priority) are members of a small set, and one pair of   *)
(* types stands for the ingress types of its kind.                         *)
EXTENDS Integers, Sequences, FiniteSets, FiniteSetsExt

CONSTANTS QMap, MPort,        \* ids
          MKey,               \* keys of a map
          MaxQueue, MaxUc,    \* queues of a port; those before MaxUc are unicast
          NoMap

VARIABLES
  qmaps,     \* maps in the tree, with their types
  mlist,     \* their value lists
  maps_id,   \* the map a port has for each type
  mports,    \* the ports in the list of a map
  onPort     \* the map the NPU runs on a port for each type

mapVars == <<qmaps, mlist, maps_id, mports, onPort>>

Dot1p == {"dot1p_tc", "dot1p_color"}
Dscp  == {"dscp_tc", "dscp_color"}
Ingress == Dot1p \cup Dscp
Queued == {"tc_queue", "pfc_queue"}
MapType == Ingress \cup Queued
NoType == "none"

Index == MKey \X {"uc", "mc"}
Entry == [key : MKey, value : 0..MaxQueue]
ASSUME QosMapsAssumption ==
  MaxQueue \in Nat /\ MaxUc \in 1..(MaxQueue - 1) /\ NoMap \notin QMap

HasMap(m) == qmaps[m] # NoType

(* Mutant: the queue after the last one that a PFC priority may name       *)
DefaultListAbove(type) == [i \in Index |-> IF type = "pfc_queue" THEN MaxQueue + 1 ELSE 0]

(* sai_qos_map_list_default_set: a PFC priority starts with no queue       *)
DefaultList(type) == [i \in Index |-> IF type = "pfc_queue" THEN MaxQueue ELSE 0]

(* sai_qos_maps_attr_value_validate and the checks of the list updates:    *)
(* the queue must be one of the port's; a PFC priority may take one more.  *)
ValidEntry(type, e) == IF type = "pfc_queue" THEN e.value <= MaxQueue ELSE e.value < MaxQueue

(* Mutant: a multicast queue keeps its number in the second bank           *)
PlaceUnbanked(type, e) ==
  [at |-> <<e.key, IF type \in Queued /\ e.value >= MaxUc THEN "mc" ELSE "uc">>,
   value |-> e.value]

(* Where an entry goes: a multicast queue goes in the second bank, in      *)
(* which queues are counted from 0 (sai_qos_map_tc_to_queue_list_update).  *)
Place(type, e) ==
  IF type \in Queued /\ e.value >= MaxUc
  THEN [at |-> <<e.key, "mc">>, value |-> e.value - MaxUc]
  ELSE [at |-> <<e.key, "uc">>, value |-> e.value]

(* The list update of each type takes entry by entry up to the first bad   *)
(* one; what is written last to a place stays there.                       *)
Taken(type, es) == {k \in 1..Len(es) : \A j \in 1..k : ValidEntry(type, es[j])}
Written(type, es, i) == {k \in Taken(type, es) : Place(type, es[k]).at = i}
PortListUpdate(type, list, es) ==
  [i \in Index |-> IF Written(type, es, i) = {} THEN list[i]
                   ELSE Place(type, es[Max(Written(type, es, i))]).value]
AllGood(type, es) == Taken(type, es) = 1..Len(es)

Lists == {<<>>} \cup {<<e>> : e \in Entry} \cup {<<e, f>> : e, f \in Entry}

(* sai_qos_map_create; a failure leaves no trace                           *)
CreateMap(m) ==
  /\ ~HasMap(m)
  /\ \E type \in MapType, es \in Lists :
       /\ AllGood(type, es)
       /\ qmaps' = [qmaps EXCEPT ![m] = type]
       /\ mlist' = [mlist EXCEPT ![m] = PortListUpdate(type, DefaultList(type), es)]
  /\ UNCHANGED <<maps_id, mports, onPort>>

(* sai_qos_map_remove: no port is in its list                              *)
RemoveMap(m) ==
  /\ HasMap(m)
  /\ mports[m] = {}
  /\ qmaps' = [qmaps EXCEPT ![m] = NoType]
  /\ mlist' = [mlist EXCEPT ![m] = DefaultList(NoType)]
  /\ UNCHANGED <<maps_id, mports, onPort>>

(* sai_qos_map_attribute_set: the copy of the node shares its list, so the *)
(* list is changed whether the set is accepted, has a bad entry or is      *)
(* refused by the NPU; a set binds the map to its ports again.             *)
SetMap(m) ==
  /\ HasMap(m)
  /\ \E es \in Lists : mlist' = [mlist EXCEPT ![m] = PortListUpdate(qmaps[m], @, es)]
  /\ UNCHANGED <<qmaps, maps_id, mports, onPort>>

(* sai_qos_map_port_add: the NPU first, then out of the list of the old    *)
(* map and into the new one's.  Maps are bound as what they are.           *)
PortAdd(p, type, m) ==
  /\ HasMap(m) /\ qmaps[m] = type
  /\ maps_id[p][type] # m
  /\ onPort' = [onPort EXCEPT ![p][type] = m]
  /\ maps_id' = [maps_id EXCEPT ![p][type] = m]
  /\ mports' = [x \in QMap |-> IF x = m THEN mports[x] \cup {p}
                               ELSE IF x = maps_id[p][type] THEN mports[x] \ {p}
                               ELSE mports[x]]
  /\ UNCHANGED <<qmaps, mlist>>

(* "NPU removes all ingress maps on setting NULL_OBJECT" (map_utils.c:129) *)
NpuCleared(run, type) ==
  [t \in MapType |-> IF t = type \/ {t, type} \subseteq Ingress THEN NoMap ELSE run[t]]

(* sai_qos_map_update_ingress_maps: the first map of the other kind that   *)
(* is bound is applied again, unless the NPU refuses.                      *)
OtherKind(type) == IF type \in Dot1p THEN <<"dscp_tc", "dscp_color">>
                   ELSE IF type \in Dscp THEN <<"dot1p_tc", "dot1p_color">> ELSE <<>>
UpdateIngressMaps(ids, run, type, ok) ==
  LET other == OtherKind(type)
      bound == {i \in DOMAIN other : ids[other[i]] # NoMap}
  IN IF bound = {} \/ ~ok THEN run
     ELSE [run EXCEPT ![other[Min(bound)]] = ids[other[Min(bound)]]]

(* sai_qos_map_port_remove *)
PortRemove(p, type) ==
  /\ maps_id[p][type] # NoMap
  /\ HasMap(maps_id[p][type])
  /\ maps_id' = [maps_id EXCEPT ![p][type] = NoMap]
  /\ mports' = [mports EXCEPT ![maps_id[p][type]] = @ \ {p}]
  /\ \E ok \in BOOLEAN :
       onPort' = [onPort EXCEPT ![p] =
                    UpdateIngressMaps(maps_id'[p], NpuCleared(@, type), type, ok)]
  /\ UNCHANGED <<qmaps, mlist>>

MapInit ==
  /\ qmaps = [m \in QMap |-> NoType]
  /\ mlist = [m \in QMap |-> DefaultList(NoType)]
  /\ maps_id = [p \in MPort |-> [t \in MapType |-> NoMap]]
  /\ mports = [m \in QMap |-> {}]
  /\ onPort = [p \in MPort |-> [t \in MapType |-> NoMap]]

MapNext ==
  \/ \E m \in QMap : CreateMap(m) \/ RemoveMap(m) \/ SetMap(m)
  \/ \E p \in MPort, t \in MapType : PortRemove(p, t) \/ \E m \in QMap : PortAdd(p, t, m)

MapSpec == MapInit /\ [][MapNext]_mapVars

---------------------------------------------------------------------------
MapTypeOK ==
  /\ qmaps \in [QMap -> MapType \cup {NoType}]
  /\ mlist \in [QMap -> [Index -> 0..MaxQueue]]
  /\ maps_id \in [MPort -> [MapType -> QMap \cup {NoMap}]]
  /\ mports \in [QMap -> SUBSET MPort]
  /\ onPort \in [MPort -> [MapType -> QMap \cup {NoMap}]]

(* A map that a port names is in the tree and lists the port, and lists no *)
(* other: the removal of a map goes by its list, which every binding,      *)
(* replacement and unbinding must keep (sai_qos_map_utils.c:232-322).      *)
MapsListed ==
  \A m \in QMap, p \in MPort :
    p \in mports[m] <=> HasMap(m) /\ maps_id[p][qmaps[m]] = m

(* A queue map sends each key to a queue of the bank it is stored in, so   *)
(* what the NPU reads as a unicast or a multicast queue is one, whatever   *)
(* entries were set in whatever order, good and bad                        *)
(* (sai_qos_maps.c:287-345).  PFC maps may name one queue more and start   *)
(* with none.                                                              *)
QueuesInBank ==
  \A m \in QMap, k \in MKey : qmaps[m] = "tc_queue" =>
    /\ mlist[m][<<k, "uc">>] < MaxUc
    /\ mlist[m][<<k, "mc">>] < MaxQueue - MaxUc

(* "NPU removes all ingress maps on setting NULL_OBJECT.  So reapplying    *)
(* the maps other than the removed one" (sai_qos_map_utils.c:128-131):     *)
(* when the unbinding of a map succeeded, the port runs every ingress map  *)
(* it still has.  Only one map of the other kind is applied again.         *)
IngressMapsApplied ==
  [][\A p \in MPort, t \in Ingress :
       maps_id[p][t] # NoMap /\ maps_id'[p][t] = NoMap
       /\ (\E x \in Ingress : onPort'[p][x] # NoMap)
       => \A x \in Ingress : maps_id'[p][x] # NoMap => onPort'[p][x] = maps_id'[p][x]]_mapVars
===========================================================================
