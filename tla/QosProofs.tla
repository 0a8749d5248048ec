----------------------------- MODULE QosProofs -----------------------------
(***************************************************************************)
(* Theorems of Qos, for any number of profiles, pools, nodes, maps,        *)
(* policers and ports.  Each component has an inductive invariant of its   *)
(* own; a step of Qos is a step of one of them and a stutter of the others. *)
(***************************************************************************)
EXTENDS Qos, FiniteSetTheorems, WellFoundedInduction, TLAPS

---------------------------------------------------------------------------
(* Policers                                                                *)

PolInv == PolTypeOK /\ StormListed

LEMMA PolInvInit == PolInit => PolInv
BY PolicerAssumption DEF PolInit, PolInv, PolTypeOK, StormListed, Storm

(* A policer that comes or goes has no port.                               *)
LEMMA CreatePolicerInv ==
  ASSUME PolInv, NEW p \in Policer, CreatePolicer(p)
  PROVE  PolInv'
<1>1. PICK mode \in {"storm", "tcm"}, rate \in PolRate :
        policers' = [policers EXCEPT ![p] = [mode |-> mode, rate |-> rate]]
  BY DEF CreatePolicer
<1>2. PolTypeOK'
  BY <1>1 DEF PolInv, PolTypeOK, CreatePolicer, Storm
<1>3. \A s \in Storm : policer_id[s] # p
  BY DEF PolInv, StormListed, CreatePolicer, HasPolicer
<1>4. StormListed'
  BY <1>1, <1>3 DEF PolInv, PolTypeOK, StormListed, CreatePolicer
<1> QED BY <1>2, <1>4 DEF PolInv

LEMMA RemovePolicerInv ==
  ASSUME PolInv, NEW p \in Policer, RemovePolicer(p)
  PROVE  PolInv'
<1>1. PolTypeOK'
  BY DEF PolInv, PolTypeOK, RemovePolicer, stormVars, Storm
<1>2. \A s \in Storm : policer_id[s] # p
  BY DEF PolInv, StormListed, RemovePolicer, PolicerInUse
<1>3. StormListed'
  BY <1>2 DEF PolInv, PolTypeOK, StormListed, RemovePolicer, stormVars
<1> QED BY <1>1, <1>3 DEF PolInv

(* A rate that is set changes no list.                                     *)
LEMMA SetPolicerInv ==
  ASSUME PolInv, NEW p \in Policer, SetPolicer(p)
  PROVE  PolInv'
<1>1. PICK rate \in PolRate, done \in StormReapplied(p), rules \in BOOLEAN :
        /\ portRate' = [s \in Storm |-> IF s \in done THEN rate ELSE portRate[s]]
        /\ policers' = IF done = port_dll[p] /\ (policers[p].mode = "tcm" => rules)
                       THEN [policers EXCEPT ![p].rate = rate] ELSE policers
  BY DEF SetPolicer
<1>2. policers' \in [Policer -> [mode : {"none", "storm", "tcm"}, rate : PolRate \cup {NoRate}]]
  BY <1>1 DEF PolInv, PolTypeOK
<1>3. PolTypeOK'
  BY <1>1, <1>2 DEF PolInv, PolTypeOK, SetPolicer
<1>4. \A q \in Policer : policers'[q].mode = policers[q].mode
  BY <1>1 DEF PolInv, PolTypeOK
<1>5. StormListed'
  BY <1>4 DEF PolInv, StormListed, SetPolicer
<1> QED BY <1>3, <1>5 DEF PolInv

(* A port enters the list of the policer it names and leaves the other.    *)
LEMMA SetPortPolicerInv ==
  ASSUME PolInv, NEW s \in Storm, NEW p \in Policer \cup {NoPol}, SetPortPolicer(s, p)
  PROVE  PolInv'
<1>1. PolTypeOK'
  BY DEF PolInv, PolTypeOK, SetPortPolicer, StormNodeUpdate, HasPolicer
<1>2. ASSUME NEW q \in Policer, NEW r \in Storm
      PROVE  policer_id'[r] = q <=> policers'[q].mode = "storm" /\ r \in port_dll'[q]
  <2>1. CASE r = s
    BY <1>2, <2>1, PolicerAssumption
    DEF PolInv, PolTypeOK, StormListed, SetPortPolicer, StormNodeUpdate, HasPolicer
  <2>2. CASE r # s
    BY <1>2, <2>2 DEF PolInv, PolTypeOK, StormListed, SetPortPolicer, StormNodeUpdate
  <2> QED BY <2>1, <2>2
<1> QED BY <1>1, <1>2 DEF PolInv, StormListed

LEMMA PolInvNext == PolInv /\ [PolNext]_polVars => PolInv'
<1> SUFFICES ASSUME PolInv, [PolNext]_polVars  PROVE PolInv'
  OBVIOUS
<1>1. ASSUME NEW p \in Policer, CreatePolicer(p) \/ RemovePolicer(p) \/ SetPolicer(p)
      PROVE  PolInv'
  BY <1>1, CreatePolicerInv, RemovePolicerInv, SetPolicerInv
<1>2. ASSUME NEW s \in Storm, NEW p \in Policer \cup {NoPol}, SetPortPolicer(s, p)
      PROVE  PolInv'
  BY <1>2, SetPortPolicerInv
<1>3. CASE UNCHANGED polVars
  BY <1>3 DEF polVars, PolInv, PolTypeOK, StormListed
<1> QED BY <1>1, <1>2, <1>3 DEF PolNext
---------------------------------------------------------------------------
(* QoS maps                                                                *)

(* A port names a map of the type that it has the map for: without it a    *)
(* map could come back while a port still names it.                        *)
NamedMapsExist == \A p \in MPort, t \in MapType : maps_id[p][t] # NoMap => qmaps[maps_id[p][t]] = t

MapInv == MapTypeOK /\ MapsListed /\ QueuesInBank /\ NamedMapsExist

(* A bounded set of naturals has its extremes.                             *)
LEMMA MaxIn ==
  ASSUME NEW n \in Nat, NEW T \in SUBSET (0..n), T # {}
  PROVE  Max(T) \in T /\ \A j \in T : j <= Max(T)
<1> DEFINE D == {n - k : k \in T}
<1>1. D \in SUBSET Nat /\ D # {}
  <2>1. \A k \in T : n - k \in Nat
    OBVIOUS
  <2> QED BY <2>1, Zenon
<1>2. PICK d \in D : \A e \in D : ~ (<<e, d>> \in OpToRel(<, Nat))
  <2> HIDE DEF D
  <2> QED BY <1>1, WFMin, NatLessThanWellFounded, Zenon
<1>3. \A e \in D : d <= e
  <2> SUFFICES ASSUME NEW e \in D, e < d  PROVE FALSE
    BY <1>1
  <2>1. <<e, d>> \in OpToRel(<, Nat)
    BY <1>1 DEF OpToRel
  <2> QED BY <1>2, <2>1
<1>4. PICK m \in T : d = n - m
  OBVIOUS
<1>5. \A j \in T : m >= j
  <2> SUFFICES ASSUME NEW j \in T  PROVE m >= j
    OBVIOUS
  <2>1. n - j \in D
    OBVIOUS
  <2> QED BY <1>3, <1>4, <2>1
<1>6. \E x \in T : \A y \in T : x >= y
  BY <1>5
<1> QED BY <1>6 DEF Max

LEMMA MinIn ==
  ASSUME NEW T \in SUBSET Nat, T # {}
  PROVE  Min(T) \in T /\ \A j \in T : Min(T) <= j
<1>1. PICK d \in T : \A e \in T : ~ (<<e, d>> \in OpToRel(<, Nat))
  BY WFMin, NatLessThanWellFounded, Zenon
<1>2. \A e \in T : d <= e
  <2> SUFFICES ASSUME NEW e \in T, e < d  PROVE FALSE
    OBVIOUS
  <2>1. <<e, d>> \in OpToRel(<, Nat)
    BY DEF OpToRel
  <2> QED BY <1>1, <2>1
<1> QED BY <1>2 DEF Min

(* The entry that was written last at a place is a good one for it.        *)
LEMMA WrittenLast ==
  ASSUME NEW type, NEW es \in Lists, NEW i \in Index, Written(type, es, i) # {}
  PROVE  LET k == Max(Written(type, es, i)) IN
           es[k] \in Entry /\ ValidEntry(type, es[k]) /\ Place(type, es[k]).at = i
<1> DEFINE W == Written(type, es, i)
<1>1. Len(es) \in {0, 1, 2} /\ \A k \in 1..Len(es) : es[k] \in Entry
  BY DEF Lists
<1>2. W \in SUBSET (0..2)
  BY <1>1 DEF Written, Taken
<1>3. Max(W) \in W
  <2> HIDE DEF W
  <2> QED BY <1>2, MaxIn DEF W
<1>4. \A k \in W : k \in 1..Len(es) /\ ValidEntry(type, es[k]) /\ Place(type, es[k]).at = i
  BY <1>1 DEF Written, Taken
<1> QED BY <1>1, <1>3, <1>4

(* A list is updated with values of good entries.                          *)
LEMMA UpdatedList ==
  ASSUME NEW type, NEW es \in Lists, NEW list \in [Index -> 0..MaxQueue]
  PROVE  /\ PortListUpdate(type, list, es) \in [Index -> 0..MaxQueue]
         /\ \A i \in Index :
              \/ PortListUpdate(type, list, es)[i] = list[i]
              \/ \E e \in Entry : /\ ValidEntry(type, e) /\ Place(type, e).at = i
                                  /\ PortListUpdate(type, list, es)[i] = Place(type, e).value
<1>1. \A e \in Entry : Place(type, e).value \in 0..MaxQueue
  BY QosMapsAssumption DEF Entry, Place
<1>2. ASSUME NEW i \in Index, Written(type, es, i) # {}
      PROVE  \E e \in Entry : /\ ValidEntry(type, e) /\ Place(type, e).at = i
                              /\ PortListUpdate(type, list, es)[i] = Place(type, e).value
  BY <1>2, WrittenLast DEF PortListUpdate
<1>3. ASSUME NEW i \in Index, Written(type, es, i) = {}
      PROVE  PortListUpdate(type, list, es)[i] = list[i]
  BY <1>3 DEF PortListUpdate
<1>4. \A i \in Index : PortListUpdate(type, list, es)[i] \in 0..MaxQueue
  BY <1>1, <1>2, <1>3
<1>5. DOMAIN PortListUpdate(type, list, es) = Index
  BY DEF PortListUpdate
<1>6. PortListUpdate(type, list, es) = [i \in Index |-> PortListUpdate(type, list, es)[i]]
  BY <1>5 DEF PortListUpdate
<1>7. PortListUpdate(type, list, es) \in [Index -> 0..MaxQueue]
  BY <1>4, <1>6
<1> QED BY <1>2, <1>3, <1>7

(* The banks of one list                                                   *)
InBank(list) == \A k \in MKey : list[<<k, "uc">>] < MaxUc /\ list[<<k, "mc">>] < MaxQueue - MaxUc

LEMMA QueuesInBankMeans ==
  QueuesInBank <=> \A m \in QMap : qmaps[m] = "tc_queue" => InBank(mlist[m])
BY DEF QueuesInBank, InBank

LEMMA UpdateKeepsBank ==
  ASSUME NEW es \in Lists, NEW list \in [Index -> 0..MaxQueue], InBank(list)
  PROVE  InBank(PortListUpdate("tc_queue", list, es))
<1> DEFINE new == PortListUpdate("tc_queue", list, es)
<1>1. ASSUME NEW e \in Entry, NEW k \in MKey, ValidEntry("tc_queue", e)
      PROVE  /\ Place("tc_queue", e).at = <<k, "uc">> => Place("tc_queue", e).value < MaxUc
             /\ Place("tc_queue", e).at = <<k, "mc">> => Place("tc_queue", e).value < MaxQueue - MaxUc
  <2>1. e.value \in 0..MaxQueue /\ e.value < MaxQueue
    BY <1>1 DEF Entry, ValidEntry
  <2>2. CASE e.value >= MaxUc
    BY <2>1, <2>2, QosMapsAssumption DEF Place, Queued
  <2>3. CASE ~(e.value >= MaxUc)
    BY <2>1, <2>3, QosMapsAssumption DEF Place, Queued
  <2> QED BY <2>2, <2>3
<1>2. ASSUME NEW k \in MKey  PROVE new[<<k, "uc">>] < MaxUc
  <2>1. <<k, "uc">> \in Index  BY DEF Index
  <2>2. \/ new[<<k, "uc">>] = list[<<k, "uc">>]
        \/ \E e \in Entry : /\ ValidEntry("tc_queue", e) /\ Place("tc_queue", e).at = <<k, "uc">>
                            /\ new[<<k, "uc">>] = Place("tc_queue", e).value
    BY <2>1, UpdatedList
  <2> HIDE DEF new
  <2> QED BY <1>1, <2>2 DEF InBank
<1>3. ASSUME NEW k \in MKey  PROVE new[<<k, "mc">>] < MaxQueue - MaxUc
  <2>1. <<k, "mc">> \in Index  BY DEF Index
  <2>2. \/ new[<<k, "mc">>] = list[<<k, "mc">>]
        \/ \E e \in Entry : /\ ValidEntry("tc_queue", e) /\ Place("tc_queue", e).at = <<k, "mc">>
                            /\ new[<<k, "mc">>] = Place("tc_queue", e).value
    BY <2>1, UpdatedList
  <2> HIDE DEF new
  <2> QED BY <1>1, <2>2 DEF InBank
<1> QED BY <1>2, <1>3 DEF InBank

LEMMA DefaultListGood ==
  ASSUME NEW type
  PROVE  DefaultList(type) \in [Index -> 0..MaxQueue] /\ InBank(DefaultList("tc_queue"))
BY QosMapsAssumption DEF DefaultList, InBank, Index

LEMMA MapInvInit == MapInit => MapInv
<1> SUFFICES ASSUME MapInit  PROVE MapInv
  OBVIOUS
<1>1. MapTypeOK
  BY DefaultListGood DEF MapInit, MapTypeOK
<1>2. MapsListed /\ QueuesInBank /\ NamedMapsExist
  BY DEF MapInit, MapsListed, QueuesInBank, NamedMapsExist, HasMap, NoType
<1> QED BY <1>1, <1>2 DEF MapInv

(* A new map has no port yet.                                              *)
LEMMA CreateMapInv ==
  ASSUME MapInv, NEW m \in QMap, CreateMap(m)
  PROVE  MapInv'
<1>1. PICK type \in MapType, es \in Lists :
        /\ qmaps' = [qmaps EXCEPT ![m] = type]
        /\ mlist' = [mlist EXCEPT ![m] = PortListUpdate(type, DefaultList(type), es)]
  BY DEF CreateMap
<1>2. PortListUpdate(type, DefaultList(type), es) \in [Index -> 0..MaxQueue]
  BY UpdatedList, DefaultListGood
<1>3. MapTypeOK'
  BY <1>1, <1>2 DEF MapInv, MapTypeOK, CreateMap
<1>4. mports[m] = {} /\ \A p \in MPort, t \in MapType : maps_id[p][t] # m
  BY QosMapsAssumption
  DEF MapInv, MapTypeOK, MapsListed, NamedMapsExist, CreateMap, HasMap, NoType, MapType, Ingress,
      Queued, Dot1p, Dscp
<1>5. MapsListed'
  BY <1>1, <1>4 DEF MapInv, MapTypeOK, MapsListed, CreateMap, HasMap, NoType, MapType
<1>6. ASSUME type = "tc_queue"  PROVE InBank(PortListUpdate(type, DefaultList(type), es))
  BY <1>6, DefaultListGood, UpdateKeepsBank
<1>7. QueuesInBank'
  BY <1>1, <1>6 DEF MapInv, MapTypeOK, QueuesInBank, InBank
<1>8. NamedMapsExist'
  BY <1>1, <1>4 DEF MapInv, MapTypeOK, NamedMapsExist, CreateMap
<1> QED BY <1>3, <1>5, <1>7, <1>8 DEF MapInv

(* A map that goes has no port, and none names it.                         *)
LEMMA RemoveMapInv ==
  ASSUME MapInv, NEW m \in QMap, RemoveMap(m)
  PROVE  MapInv'
<1>1. MapTypeOK'
  BY DefaultListGood DEF MapInv, MapTypeOK, RemoveMap
<1>2. \A p \in MPort, t \in MapType : maps_id[p][t] # m
  BY QosMapsAssumption DEF MapInv, MapsListed, NamedMapsExist, RemoveMap
<1>3. MapsListed'
  BY <1>2 DEF MapInv, MapTypeOK, MapsListed, RemoveMap, HasMap
<1>4. QueuesInBank'
  BY DEF MapInv, MapTypeOK, QueuesInBank, RemoveMap, NoType
<1>5. NamedMapsExist'
  BY <1>2 DEF MapInv, MapTypeOK, NamedMapsExist, RemoveMap
<1> QED BY <1>1, <1>3, <1>4, <1>5 DEF MapInv

(* A list that is set stays in its banks.                                  *)
LEMMA SetMapInv ==
  ASSUME MapInv, NEW m \in QMap, SetMap(m)
  PROVE  MapInv'
<1>1. PICK es \in Lists : mlist' = [mlist EXCEPT ![m] = PortListUpdate(qmaps[m], @, es)]
  BY DEF SetMap
<1>2. PortListUpdate(qmaps[m], mlist[m], es) \in [Index -> 0..MaxQueue]
  BY UpdatedList DEF MapInv, MapTypeOK
<1>3. MapTypeOK'
  BY <1>1, <1>2 DEF MapInv, MapTypeOK, SetMap
<1>4. ASSUME qmaps[m] = "tc_queue"  PROVE InBank(PortListUpdate(qmaps[m], mlist[m], es))
  BY <1>4, UpdateKeepsBank, QueuesInBankMeans DEF MapInv, MapTypeOK
<1>5. QueuesInBank'
  BY <1>1, <1>4 DEF MapInv, MapTypeOK, QueuesInBank, InBank, SetMap
<1>6. MapsListed' /\ NamedMapsExist'
  BY DEF MapInv, MapsListed, NamedMapsExist, SetMap, HasMap
<1> QED BY <1>3, <1>5, <1>6 DEF MapInv

(* A port enters the list of the map it takes and leaves the one it had.   *)
LEMMA PortAddInv ==
  ASSUME MapInv, NEW p \in MPort, NEW type \in MapType, NEW m \in QMap, PortAdd(p, type, m)
  PROVE  MapInv'
<1>1. MapTypeOK'
  BY DEF MapInv, MapTypeOK, PortAdd
<1>2. ASSUME NEW q \in QMap, NEW r \in MPort
      PROVE  r \in mports'[q] <=> qmaps'[q] # NoType /\ maps_id'[r][qmaps'[q]] = q
  <2>1. qmaps[q] \in MapType \cup {NoType} /\ qmaps[m] = type /\ type # NoType /\ qmaps' = qmaps
    BY DEF MapInv, MapTypeOK, PortAdd, HasMap
  <2>2. r \in mports[q] <=> qmaps[q] # NoType /\ maps_id[r][qmaps[q]] = q
    BY DEF MapInv, MapsListed, HasMap
  <2>3. CASE r # p
    BY <1>2, <2>1, <2>2, <2>3 DEF MapInv, MapTypeOK, PortAdd
  <2>4. CASE r = p /\ q = m
    BY <1>2, <2>1, <2>2, <2>4 DEF MapInv, MapTypeOK, PortAdd
  <2>5. CASE r = p /\ q # m /\ q = maps_id[p][type]
    BY <1>2, <2>1, <2>2, <2>5, QosMapsAssumption DEF MapInv, MapTypeOK, NamedMapsExist, PortAdd
  <2>6. CASE r = p /\ q # m /\ q # maps_id[p][type]
    BY <1>2, <2>1, <2>2, <2>6 DEF MapInv, MapTypeOK, PortAdd
  <2> QED BY <2>3, <2>4, <2>5, <2>6
<1>3. MapsListed'
  BY <1>2 DEF MapsListed, HasMap
<1>4. QueuesInBank'
  BY DEF MapInv, QueuesInBank, PortAdd
<1>5. NamedMapsExist'
  BY DEF MapInv, MapTypeOK, NamedMapsExist, PortAdd
<1> QED BY <1>1, <1>3, <1>4, <1>5 DEF MapInv

(* What the NPU runs afterwards is a map of some kind.                     *)
LEMMA IngressMapsTyped ==
  ASSUME NEW ids \in [MapType -> QMap \cup {NoMap}], NEW run \in [MapType -> QMap \cup {NoMap}],
         NEW type \in MapType, NEW ok \in BOOLEAN
  PROVE  UpdateIngressMaps(ids, NpuCleared(run, type), type, ok) \in [MapType -> QMap \cup {NoMap}]
<1> DEFINE other == OtherKind(type)
           bound == {i \in DOMAIN other : ids[other[i]] # NoMap}
           cleared == NpuCleared(run, type)
<1>1. cleared \in [MapType -> QMap \cup {NoMap}]
  BY DEF NpuCleared
<1>2. DOMAIN other \in SUBSET Nat /\ \A i \in DOMAIN other : other[i] \in MapType
  BY DEF OtherKind, MapType, Ingress, Dot1p, Dscp
<1>3. ASSUME bound # {}  PROVE other[Min(bound)] \in MapType
  <2>1. bound \in SUBSET Nat
    BY <1>2
  <2>2. Min(bound) \in bound
    <3> HIDE DEF bound
    <3> QED BY <1>3, <2>1, MinIn
  <2> QED BY <1>2, <2>2
<1> HIDE DEF cleared, bound, other
<1>4. CASE bound = {} \/ ~ok
  BY <1>1, <1>4 DEF UpdateIngressMaps, bound, other, cleared
<1>5. CASE ~(bound = {} \/ ~ok)
  <2>1. UpdateIngressMaps(ids, cleared, type, ok) =
          [cleared EXCEPT ![other[Min(bound)]] = ids[other[Min(bound)]]]
    BY <1>5 DEF UpdateIngressMaps, bound, other
  <2>2. ids[other[Min(bound)]] \in QMap \cup {NoMap}
    BY <1>3, <1>5
  <2>3. [cleared EXCEPT ![other[Min(bound)]] = ids[other[Min(bound)]]] \in [MapType -> QMap \cup {NoMap}]
    BY <1>1, <2>2
  <2> QED BY <2>1, <2>3 DEF cleared
<1> QED BY <1>4, <1>5

LEMMA PortRemoveInv ==
  ASSUME MapInv, NEW p \in MPort, NEW type \in MapType, PortRemove(p, type)
  PROVE  MapInv'
<1> DEFINE m == maps_id[p][type]
<1>1. m \in QMap /\ qmaps[m] = type
  BY DEF MapInv, MapTypeOK, NamedMapsExist, PortRemove
<1>2. /\ maps_id' = [maps_id EXCEPT ![p][type] = NoMap]
      /\ mports' = [mports EXCEPT ![m] = @ \ {p}]
      /\ qmaps' = qmaps /\ mlist' = mlist
  BY DEF PortRemove
<1>3. maps_id' \in [MPort -> [MapType -> QMap \cup {NoMap}]] /\ mports' \in [QMap -> SUBSET MPort]
  BY <1>1, <1>2 DEF MapInv, MapTypeOK
<1>4. onPort' \in [MPort -> [MapType -> QMap \cup {NoMap}]]
  <2>1. PICK ok \in BOOLEAN :
          onPort' = [onPort EXCEPT ![p] =
                       UpdateIngressMaps(maps_id'[p], NpuCleared(onPort[p], type), type, ok)]
    BY DEF PortRemove
  <2>2. /\ maps_id'[p] \in [MapType -> QMap \cup {NoMap}]
        /\ onPort \in [MPort -> [MapType -> QMap \cup {NoMap}]]
    BY <1>3 DEF MapInv, MapTypeOK
  <2>3. UpdateIngressMaps(maps_id'[p], NpuCleared(onPort[p], type), type, ok) \in [MapType -> QMap \cup {NoMap}]
    BY <2>2, IngressMapsTyped
  <2> QED BY <2>1, <2>2, <2>3
<1>5. MapTypeOK'
  BY <1>2, <1>3, <1>4 DEF MapInv, MapTypeOK
<1>6. ASSUME NEW q \in QMap, NEW r \in MPort
      PROVE  r \in mports'[q] <=> qmaps'[q] # NoType /\ maps_id'[r][qmaps'[q]] = q
  <2>1. qmaps[q] \in MapType \cup {NoType}
    BY DEF MapInv, MapTypeOK
  <2>2. r \in mports[q] <=> qmaps[q] # NoType /\ maps_id[r][qmaps[q]] = q
    BY DEF MapInv, MapsListed, HasMap
  <2> HIDE DEF m
  <2>3. CASE r # p
    BY <1>1, <1>2, <1>6, <2>1, <2>2, <2>3 DEF MapInv, MapTypeOK
  <2>4. CASE r = p /\ q = m
    BY <1>1, <1>2, <1>6, <2>1, <2>2, <2>4, QosMapsAssumption DEF MapInv, MapTypeOK
  <2>5. CASE r = p /\ q # m
    BY <1>1, <1>2, <1>6, <2>1, <2>2, <2>5, QosMapsAssumption DEF MapInv, MapTypeOK, m
  <2> QED BY <2>3, <2>4, <2>5
<1>7. MapsListed'
  BY <1>6 DEF MapsListed, HasMap
<1>8. QueuesInBank'
  BY <1>2 DEF MapInv, QueuesInBank
<1>9. NamedMapsExist'
  BY <1>2 DEF MapInv, MapTypeOK, NamedMapsExist
<1> QED BY <1>5, <1>7, <1>8, <1>9 DEF MapInv

LEMMA MapInvNext == MapInv /\ [MapNext]_mapVars => MapInv'
<1> SUFFICES ASSUME MapInv, [MapNext]_mapVars  PROVE MapInv'
  OBVIOUS
<1>1. ASSUME NEW m \in QMap, CreateMap(m) \/ RemoveMap(m) \/ SetMap(m)
      PROVE  MapInv'
  BY <1>1, CreateMapInv, RemoveMapInv, SetMapInv
<1>2. ASSUME NEW p \in MPort, NEW t \in MapType, PortRemove(p, t) \/ \E m \in QMap : PortAdd(p, t, m)
      PROVE  MapInv'
  BY <1>2, PortRemoveInv, PortAddInv
<1>3. CASE UNCHANGED mapVars
  BY <1>3 DEF mapVars, MapInv, MapTypeOK, MapsListed, QueuesInBank, NamedMapsExist, HasMap
<1> QED BY <1>1, <1>2, <1>3 DEF MapNext

---------------------------------------------------------------------------
(* WRED profiles                                                           *)

(* The links l agree with the profiles there are.                          *)
GoodLinks(l) ==
  /\ l \in Links
  /\ \A t \in Target : l.of[t] # NoWred => l.of[t] \in wreds
  /\ \A t \in Target, w \in Wred : t \in l.list[w] <=> l.of[t] = w

WredInv == WredTypeOK /\ GoodLinks(lk)

LEMMA WredInvMeans == WredInv => WredTypeOK /\ WredLinks
BY DEF WredInv, GoodLinks, WredLinks

LEMMA WredInvInit == WredInit => WredInv
<1> SUFFICES ASSUME WredInit  PROVE WredInv
  OBVIOUS
<1>1. wcfg \in [Wred -> WCfg]
  BY DEF WredInit, WCfg
<1>2. WredTypeOK
  BY <1>1 DEF WredInit, WredTypeOK, Links
<1>3. GoodLinks(lk)
  BY <1>2, WredAssumption DEF WredInit, WredTypeOK, GoodLinks
<1> QED BY <1>2, <1>3 DEF WredInv

(* A target that is linked is in the list of its profile and in no other.  *)
LEMMA RelinkGood ==
  ASSUME NEW l, GoodLinks(l), wreds \subseteq Wred, NEW t \in Target, NEW w \in wreds \cup {NoWred}
  PROVE  GoodLinks(Relink(l, t, w))
<1> DEFINE r == Relink(l, t, w)
<1>1. l \in Links
  BY DEF GoodLinks
<1>2. /\ r.of = [l.of EXCEPT ![t] = w]
      /\ r.list = [x \in Wred |-> IF x = w THEN l.list[x] \cup {t} ELSE l.list[x] \ {t}]
      /\ r.npu = l.npu /\ r.cached = l.cached
      /\ r = [of |-> r.of, list |-> r.list, npu |-> r.npu, cached |-> r.cached]
  <2>1. r.of = [l.of EXCEPT ![t] = w]
    BY <1>1 DEF Relink, Links
  <2>2. r.list = [x \in Wred |-> IF x = w THEN l.list[x] \cup {t} ELSE l.list[x] \ {t}]
    BY <1>1 DEF Relink, Links
  <2>3. r.npu = l.npu /\ r.cached = l.cached
    BY <1>1 DEF Relink, Links
  <2>4. r = [of |-> r.of, list |-> r.list, npu |-> r.npu, cached |-> r.cached]
    <3>1. l = [of |-> l.of, list |-> l.list, npu |-> l.npu, cached |-> l.cached]
      BY <1>1 DEF Links
    <3>2. r = [[l EXCEPT !.of = r.of] EXCEPT !.list = r.list]
      BY <3>1, <2>1, <2>2 DEF Relink
    <3> HIDE DEF r
    <3> QED BY <3>1, <3>2, <2>3
  <2> QED BY <2>1, <2>2, <2>3, <2>4
<1> HIDE DEF r
<1>3. r \in Links
  BY <1>1, <1>2 DEF Links
<1>4. \A x \in Target : r.of[x] # NoWred => r.of[x] \in wreds
  BY <1>1, <1>2 DEF GoodLinks, Links
<1>5. ASSUME NEW x \in Target, NEW v \in Wred  PROVE x \in r.list[v] <=> r.of[x] = v
  BY <1>1, <1>2, WredAssumption DEF GoodLinks, Links
<1> QED BY <1>3, <1>4, <1>5 DEF GoodLinks, r

(* What the NPU runs and the marks have no part in it.                     *)
LEMMA MarkGood ==
  ASSUME NEW l, GoodLinks(l), NEW t \in Target, NEW answer
  PROVE  GoodLinks(Mark(l, t, answer))
<1>1. l \in Links
  BY DEF GoodLinks
<1>2. PICK c \in SUBSET WPool : Mark(l, t, answer) = [l EXCEPT !.cached = c]
  BY <1>1 DEF Mark, Links
<1> QED BY <1>1, <1>2 DEF GoodLinks, Links

LEMMA NpuGood ==
  ASSUME NEW l, GoodLinks(l), NEW n \in [Target -> WVal \cup {NoWVal}]
  PROVE  GoodLinks([l EXCEPT !.npu = n])
BY DEF GoodLinks, Links

LEMMA LinkSetGood ==
  ASSUME NEW l, GoodLinks(l), WredTypeOK, NEW t \in Target, NEW w \in wreds \cup {NoWred}, NEW answer
  PROVE  GoodLinks(LinkSet(l, t, w, answer))
<1>1. CASE answer = "refused"
  BY <1>1 DEF LinkSet
<1>2. CASE answer # "refused"
  <2> DEFINE n == [l.npu EXCEPT ![t] = IF answer = "deferred" THEN l.npu[t]
                                       ELSE IF w = NoWred THEN NoWVal ELSE wcfg[w].val]
  <2>1. l \in Links /\ wreds \subseteq Wred
    BY DEF GoodLinks, WredTypeOK
  <2>2. n \in [Target -> WVal \cup {NoWVal}]
    BY <2>1 DEF WredTypeOK, WCfg, Links
  <2>3. LinkSet(l, t, w, answer) = Mark(Relink([l EXCEPT !.npu = n], t, w), t, answer)
    BY <1>2, <2>1 DEF LinkSet, Links
  <2> HIDE DEF n
  <2>4. GoodLinks([l EXCEPT !.npu = n])
    BY <2>2, NpuGood
  <2>5. GoodLinks(Relink([l EXCEPT !.npu = n], t, w))
    BY <2>1, <2>4, RelinkGood
  <2> QED BY <2>3, <2>5, MarkGood
<1> QED BY <1>1, <1>2

LEMMA UpdateCacheGood ==
  ASSUME NEW l, GoodLinks(l), WredTypeOK, NEW q \in WQueue, NEW answer
  PROVE  GoodLinks(UpdateCache(l, q, answer))
<1>1. CASE UpdateCache(l, q, answer) = l
  BY <1>1
<1>2. CASE /\ UpdateCache(l, q, answer) =
                [l EXCEPT !.npu[poolOf[q]] = NoWVal, !.cached = @ \cup {poolOf[q]}]
           /\ poolOf[q] # NoWPool
  <2>1. poolOf[q] \in WPool /\ poolOf[q] \in Target
    BY <1>2 DEF WredTypeOK, Target
  <2> DEFINE n == [l.npu EXCEPT ![poolOf[q]] = NoWVal]
             u == UpdateCache(l, q, answer)
  <2>2. l \in Links
    BY DEF GoodLinks
  <2>3. n \in [Target -> WVal \cup {NoWVal}] /\ l.cached \cup {poolOf[q]} \in SUBSET WPool
    BY <2>1, <2>2 DEF Links
  <2>4. u = [of |-> l.of, list |-> l.list, npu |-> n, cached |-> l.cached \cup {poolOf[q]}]
    BY <1>2, <2>2 DEF Links
  <2> HIDE DEF n, u
  <2>5. u \in Links
    BY <2>2, <2>3, <2>4 DEF Links
  <2>6. GoodLinks(u)
    BY <2>4, <2>5 DEF GoodLinks
  <2> QED BY <2>6 DEF u
<1> QED BY <1>1, <1>2 DEF UpdateCache

LEMMA ApplyCacheGood ==
  ASSUME NEW l, GoodLinks(l), WredTypeOK, NEW p, NEW answer
  PROVE  GoodLinks(ApplyCache(l, p, answer))
<1>1. CASE p \notin l.cached
  BY <1>1 DEF ApplyCache
<1>2. CASE p \in l.cached
  <2>1. p \in Target
    BY <1>2 DEF GoodLinks, Links, Target
  <2>2. l.of[p] \in wreds \cup {NoWred}
    BY <2>1 DEF GoodLinks
  <2> QED BY <1>2, <2>1, <2>2, LinkSetGood DEF ApplyCache
<1> QED BY <1>1, <1>2

LEMMA LinksKept ==
  ASSUME NEW l, GoodLinks(l), lk' = l, wreds' = wreds
  PROVE  GoodLinks(lk)'
BY DEF GoodLinks

(* A profile that goes has nothing linked to it.                           *)
LEMMA WredProfileInv ==
  ASSUME WredInv, NEW w \in Wred, CreateWred(w) \/ RemoveWred(w)
  PROVE  WredInv'
<1>1. CASE CreateWred(w)
  <2>1. PICK v \in WVal, attr \in WAttr :
          wcfg' = [wcfg EXCEPT ![w] = WithAttr([val |-> v, ecn |-> v, marked |-> v], attr)]
    BY <1>1 DEF CreateWred
  <2>2. WithAttr([val |-> v, ecn |-> v, marked |-> v], attr) \in WCfg
    BY DEF WithAttr, WCfg, WAttr
  <2>3. WredTypeOK'
    BY <1>1, <2>1, <2>2 DEF WredInv, WredTypeOK, CreateWred
  <2>4. GoodLinks(lk)'
    BY <1>1 DEF WredInv, GoodLinks, CreateWred
  <2> QED BY <2>3, <2>4 DEF WredInv
<1>2. CASE RemoveWred(w)
  <2>1. WredTypeOK'
    BY <1>2 DEF WredInv, WredTypeOK, RemoveWred
  <2>2. \A t \in Target : lk.of[t] # w
    BY <1>2 DEF WredInv, GoodLinks, RemoveWred, WredInUse
  <2>3. GoodLinks(lk)'
    BY <1>2, <2>2 DEF WredInv, GoodLinks, RemoveWred
  <2> QED BY <2>1, <2>3 DEF WredInv
<1> QED BY <1>1, <1>2

(* The links when the NPU runs n at A and o at B                           *)
NpuSet(A, n, B, o) ==
  [lk EXCEPT !.npu = [t \in Target |-> IF t \in A THEN n ELSE IF t \in B THEN o ELSE lk.npu[t]]]

LEMMA NpuSetGood ==
  ASSUME WredInv, NEW A, NEW B, NEW n \in WVal, NEW o \in WVal
  PROVE  GoodLinks(NpuSet(A, n, B, o))
<1> DEFINE f == [t \in Target |-> IF t \in A THEN n ELSE IF t \in B THEN o ELSE lk.npu[t]]
<1>1. f \in [Target -> WVal \cup {NoWVal}]
  BY DEF WredInv, GoodLinks, Links
<1>2. NpuSet(A, n, B, o) = [lk EXCEPT !.npu = f]
  BY DEF NpuSet
<1> HIDE DEF f
<1> QED BY <1>1, <1>2, NpuGood DEF WredInv

(* An attribute that is set, applied or set back moves no link.            *)
LEMMA SetWredInv ==
  ASSUME WredInv, NEW w \in Wred, SetWred(w)
  PROVE  WredInv'
<1>1. PICK attr \in WAttr : LET new == WithAttr(wcfg[w], attr) IN
       IF WredIsHw
       THEN /\ wcfg' = [wcfg EXCEPT ![w] = new]
            /\ UNCHANGED lk
       ELSE \E a \in Applied(lk.list[w] \cap WQueue), b \in Applied(lk.list[w] \cap WPool) :
              /\ lk' = [lk EXCEPT !.npu = [t \in Target |->
                          IF t \in a.new \cup b.new THEN new.val
                          ELSE IF t \in a.old \cup b.old THEN wcfg[w].val ELSE lk.npu[t]]]
              /\ wcfg' = IF (IF lk.list[w] \cap WPool = {} THEN a.ok ELSE b.ok)
                         THEN [wcfg EXCEPT ![w] = new] ELSE wcfg
  BY DEF SetWred
<1> DEFINE new == WithAttr(wcfg[w], attr)
<1>2. wcfg[w] \in WCfg /\ new \in WCfg /\ new.val \in WVal /\ wcfg[w].val \in WVal
  BY DEF WredInv, WredTypeOK, WCfg, WAttr, WithAttr
<1>3. UNCHANGED <<wreds, dangling, wpools, poolOf>>
  BY DEF SetWred
<1> HIDE DEF new
<1>4. GoodLinks(lk)' /\ wcfg' \in {[wcfg EXCEPT ![w] = new], wcfg}
  <2>1. CASE WredIsHw
    BY <1>1, <1>3, <2>1, LinksKept DEF new, WredInv
  <2>2. CASE ~WredIsHw
    <3>1. PICK a \in Applied(lk.list[w] \cap WQueue), b \in Applied(lk.list[w] \cap WPool) :
              /\ lk' = [lk EXCEPT !.npu = [t \in Target |->
                          IF t \in a.new \cup b.new THEN new.val
                          ELSE IF t \in a.old \cup b.old THEN wcfg[w].val ELSE lk.npu[t]]]
              /\ wcfg' = IF (IF lk.list[w] \cap WPool = {} THEN a.ok ELSE b.ok)
                         THEN [wcfg EXCEPT ![w] = new] ELSE wcfg
      BY <1>1, <2>2 DEF new
    <3>2. lk' = NpuSet(a.new \cup b.new, new.val, a.old \cup b.old, wcfg[w].val)
      BY <3>1 DEF NpuSet
    <3>3. GoodLinks(lk)'
      BY <1>2, <1>3, <3>2, NpuSetGood, LinksKept
    <3> QED BY <3>1, <3>3
  <2> QED BY <2>1, <2>2
<1>5. WredTypeOK'
  BY <1>2, <1>3, <1>4 DEF WredInv, WredTypeOK, GoodLinks
<1> QED BY <1>4, <1>5 DEF WredInv

LEMMA SetLinkInv ==
  ASSUME WredInv, NEW t \in Target, NEW w \in Wred \cup {NoWred}, SetLink(t, w)
  PROVE  WredInv'
<1>1. PICK answer \in NpuAnswer(t) : lk' = LinkSet(lk, t, w, answer)
  BY DEF SetLink
<1>2. w \in wreds \cup {NoWred} /\ UNCHANGED <<wreds, wcfg, dangling, wpools, poolOf>>
  BY DEF SetLink
<1>3. GoodLinks(lk)'
  BY <1>1, <1>2, LinkSetGood, LinksKept DEF WredInv
<1>4. WredTypeOK'
  BY <1>2, <1>3 DEF WredInv, WredTypeOK, GoodLinks
<1> QED BY <1>3, <1>4 DEF WredInv

LEMMA CreateWPoolInv ==
  ASSUME WredInv, NEW p \in WPool, NEW w \in Wred \cup {NoWred}, CreateWPool(p, w)
  PROVE  WredInv'
<1>1. PICK answer \in {"deferred", "refused"} :
        /\ wpools' = IF w # NoWred /\ answer = "refused" THEN wpools ELSE wpools \cup {p}
        /\ lk' = IF w = NoWred THEN lk ELSE LinkSet(lk, p, w, answer)
  BY DEF CreateWPool
<1>2. w \in wreds \cup {NoWred} /\ UNCHANGED <<wreds, wcfg, dangling, poolOf>> /\ p \in Target
  BY DEF CreateWPool, Target
<1>3. GoodLinks(LinkSet(lk, p, w, answer)) /\ GoodLinks(lk)
  BY <1>2, LinkSetGood DEF WredInv
<1>4. GoodLinks(lk)'
  BY <1>1, <1>2, <1>3, LinksKept
<1>5. WredTypeOK'
  BY <1>1, <1>2, <1>4 DEF WredInv, WredTypeOK, GoodLinks
<1> QED BY <1>4, <1>5 DEF WredInv

(* A pool that goes is taken out of the list of its profile.               *)
LEMMA RemoveWPoolInv ==
  ASSUME WredInv, NEW p \in WPool, RemoveWPool(p)
  PROVE  WredInv'
<1> DEFINE m == Mark(Relink(lk, p, NoWred), p, "done")
           n == [m.npu EXCEPT ![p] = NoWVal]
<1>1. p \in Target
  BY DEF Target
<1>2. GoodLinks(m)
  BY <1>1, RelinkGood, MarkGood DEF WredInv, WredTypeOK
<1> HIDE DEF m
<1>3. n \in [Target -> WVal \cup {NoWVal}] /\ lk' = [m EXCEPT !.npu = n]
  BY <1>1, <1>2 DEF RemoveWPool, GoodLinks, Links, m
<1> HIDE DEF n
<1>4. GoodLinks(lk)'
  BY <1>2, <1>3, NpuGood, LinksKept DEF RemoveWPool
<1>5. lk.of[p] \in Wred \cup {NoWred}
  BY <1>1 DEF WredInv, WredTypeOK, Links
<1>6. WredTypeOK'
  BY <1>4, <1>5 DEF WredInv, WredTypeOK, GoodLinks, RemoveWPool
<1> QED BY <1>4, <1>6 DEF WredInv

LEMMA SetQueuePoolInv ==
  ASSUME WredInv, NEW q \in WQueue, NEW p \in WPool \cup {NoWPool}, SetQueuePool(q, p)
  PROVE  WredInv'
<1>1. PICK moved \in BOOLEAN, leave \in {"done", "refused"}, join \in {"done", "refused"} :
        /\ poolOf' = IF moved THEN [poolOf EXCEPT ![q] = p] ELSE poolOf
        /\ lk' = ApplyCache(UpdateCache(lk, q, leave), poolOf'[q], join)
  BY DEF SetQueuePool
<1>2. UNCHANGED <<wreds, wcfg, dangling, wpools>>
  BY DEF SetQueuePool
<1>3. GoodLinks(UpdateCache(lk, q, leave))
  BY UpdateCacheGood DEF WredInv
<1>4. \A x : GoodLinks(ApplyCache(UpdateCache(lk, q, leave), x, join))
  BY <1>3, ApplyCacheGood DEF WredInv
<1>5. GoodLinks(lk)'
  BY <1>1, <1>2, <1>4, LinksKept
<1>6. WredTypeOK'
  BY <1>1, <1>2, <1>5 DEF WredInv, WredTypeOK, GoodLinks
<1> QED BY <1>5, <1>6 DEF WredInv

(* A queue that goes, or that is set back as far as the NPU lets it.       *)
LEMMA ReleaseQueueInv ==
  ASSUME WredInv, NEW q \in WQueue, ReleaseQueue(q)
  PROVE  WredInv'
<1>1. PICK freed \in BOOLEAN, back \in BOOLEAN, sched \in BOOLEAN,
           leave \in {"done", "refused"}, reset \in {"done", "refused"},
           join \in {"done", "refused"}, again \in {"done", "refused"} :
       LET left   == UpdateCache(lk, q, leave)
           unwred == IF lk.of[q] = NoWred THEN left ELSE LinkSet(left, q, NoWred, reset)
           undone == reset = "refused" /\ lk.of[q] # NoWred
           joined == IF back THEN ApplyCache(unwred, poolOf[q], join) ELSE unwred
       IN IF poolOf[q] # NoWPool /\ ~freed
          THEN lk' = left /\ UNCHANGED poolOf
          ELSE IF undone \/ ~sched
          THEN /\ poolOf' = IF back THEN poolOf ELSE [poolOf EXCEPT ![q] = NoWPool]
               /\ lk' = IF lk.of[q] = NoWred \/ undone THEN joined
                         ELSE LinkSet(joined, q, lk.of[q], again)
          ELSE lk' = unwred /\ poolOf' = [poolOf EXCEPT ![q] = NoWPool]
  BY DEF ReleaseQueue
<1>2. UNCHANGED <<wreds, wcfg, dangling, wpools>> /\ q \in Target /\ lk.of[q] \in wreds \cup {NoWred}
  BY DEF ReleaseQueue, Target, WredInv, GoodLinks
<1> DEFINE left   == UpdateCache(lk, q, leave)
           unwred == IF lk.of[q] = NoWred THEN left ELSE LinkSet(left, q, NoWred, reset)
           joined == IF back THEN ApplyCache(unwred, poolOf[q], join) ELSE unwred
           undone == reset = "refused" /\ lk.of[q] # NoWred
<1>3. GoodLinks(left)
  BY UpdateCacheGood DEF WredInv
<1> HIDE DEF left
<1>4. GoodLinks(unwred)
  BY <1>2, <1>3, LinkSetGood DEF WredInv
<1> HIDE DEF unwred
<1>5. GoodLinks(joined)
  BY <1>4, ApplyCacheGood DEF WredInv
<1> HIDE DEF joined
<1>6. GoodLinks(LinkSet(joined, q, lk.of[q], again))
  BY <1>2, <1>5, LinkSetGood DEF WredInv
<1> HIDE DEF undone
<1>7. /\ lk' \in {left, unwred, joined, LinkSet(joined, q, lk.of[q], again)}
      /\ poolOf' \in {poolOf, [poolOf EXCEPT ![q] = NoWPool]}
  BY <1>1, Zenon DEF left, unwred, joined, undone
<1>8. GoodLinks(lk)'
  BY <1>2, <1>3, <1>4, <1>5, <1>6, <1>7, LinksKept
<1>9. WredTypeOK'
  BY <1>2, <1>7, <1>8 DEF WredInv, WredTypeOK, GoodLinks
<1> QED BY <1>8, <1>9 DEF WredInv

LEMMA WredInvNext == WredInv /\ [WredNext]_wredVars => WredInv'
<1> SUFFICES ASSUME WredInv, [WredNext]_wredVars  PROVE WredInv'
  OBVIOUS
<1>1. ASSUME NEW w \in Wred, CreateWred(w) \/ RemoveWred(w) \/ SetWred(w)
      PROVE  WredInv'
  BY <1>1, WredProfileInv, SetWredInv
<1>2. ASSUME NEW t \in Target, NEW w \in Wred \cup {NoWred}, SetLink(t, w)
      PROVE  WredInv'
  BY <1>2, SetLinkInv
<1>3. ASSUME NEW p \in WPool, (\E w \in Wred \cup {NoWred} : CreateWPool(p, w)) \/ RemoveWPool(p)
      PROVE  WredInv'
  BY <1>3, CreateWPoolInv, RemoveWPoolInv
<1>4. ASSUME NEW q \in WQueue, ReleaseQueue(q) \/ \E p \in WPool \cup {NoWPool} : SetQueuePool(q, p)
      PROVE  WredInv'
  BY <1>4, ReleaseQueueInv, SetQueuePoolInv
<1>5. ASSUME NEW p \in WPool, NEW queues \in SUBSET WQueue, MoveProfile(queues, p)
      PROVE  WredInv'
  <2>1. WredTypeOK'
    BY <1>5 DEF WredInv, WredTypeOK, MoveProfile
  <2> QED BY <1>5, <2>1, LinksKept DEF WredInv, MoveProfile
<1>6. CASE UNCHANGED wredVars
  <2>1. WredTypeOK'
    BY <1>6 DEF WredInv, WredTypeOK, wredVars
  <2> QED BY <1>6, <2>1, LinksKept DEF WredInv, wredVars
<1> QED BY <1>1, <1>2, <1>3, <1>4, <1>5, <1>6 DEF WredNext

---------------------------------------------------------------------------
(* Scheduler profiles and the scheduler tree                               *)

(* The default profile lists nobody.                                       *)
DefaultUnlisted == users[Default] = {}

(* What is below a group is not at the top: the removal of a top group     *)
(* looks at no list of children.                                           *)
NoTopChild == \A g \in SGroup : \A n \in tree.kids[g] : ~IsTop(n)

SchedInv ==
  /\ SchedTypeOK
  /\ SchedListed /\ DefaultUnlisted /\ NodesRunProfile
  /\ ChildrenExist /\ NoTopChild

LEMMA SchedInvInit == SchedInit => SchedInv
<1> SUFFICES ASSUME SchedInit  PROVE SchedInv
  OBVIOUS
<1>1. SchedTypeOK
  <2>1. tree \in [level : [SGroup -> 0..MaxLevels], par : [SNode -> SGroup \cup {SPort, NoPar}],
                  kids : [SGroup -> SUBSET SNode]]
    BY SchedAssumption DEF SchedInit
  <2>2. pval \in [Sched -> SVal \cup {NoSVal}]
    BY DEF SchedInit
  <2> QED BY <2>1, <2>2, SchedAssumption DEF SchedInit, SchedTypeOK, SNode
<1>2. SchedListed /\ DefaultUnlisted /\ NodesRunProfile
  BY SchedAssumption DEF SchedInit, SchedListed, DefaultUnlisted, NodesRunProfile, SNode
<1>3. ChildrenExist /\ NoTopChild
  BY DEF SchedInit, ChildrenExist, NoTopChild
<1> QED BY <1>1, <1>2, <1>3 DEF SchedInv

(* The level of a group is a natural, that of the port is below.           *)
LEMMA Levels ==
  ASSUME SchedInv
  PROVE  \A g \in SGroup : Level(g) \in Nat /\ Level(g) = tree.level[g]
BY SchedAssumption DEF SchedInv, SchedTypeOK, Level

(* What a change of lists changes                                          *)
LEMMA Relisted ==
  ASSUME SchedInv, NEW n \in SNode, NEW old, NEW new
  PROVE  /\ ListUpdate(users, n, old, new) \in [Sched -> SUBSET SNode]
         /\ ListUpdate(users, n, old, new)[Default] = {}
         /\ \A s \in Sched, x \in SNode : x # n =>
              (x \in ListUpdate(users, n, old, new)[s] <=> x \in users[s])
         /\ \A s \in Sched : n \in ListUpdate(users, n, old, new)[s] =>
              s # Default /\ (s = new \/ (s # old /\ n \in users[s]))
         /\ \A s \in Sched \ {Default} : s = new => n \in ListUpdate(users, n, old, new)[s]
BY SchedAssumption DEF SchedInv, SchedTypeOK, DefaultUnlisted, ListUpdate

(* Profiles                                                                *)

LEMMA CreateSchedInv ==
  ASSUME SchedInv, NEW s \in Sched, CreateSched(s)
  PROVE  SchedInv'
<1>1. PICK v \in SVal : pval' = [pval EXCEPT ![s] = v]
  BY DEF CreateSched
<1>2. /\ scheds' = scheds \cup {s} /\ s \notin scheds /\ torn' = torn \ {s}
      /\ UNCHANGED <<users, schedOf, npu, job, live, stale, tree, app>>
  BY DEF CreateSched, treeVars
<1>3. SchedTypeOK'
  BY <1>1, <1>2 DEF SchedInv, SchedTypeOK
<1>4. SchedListed' /\ DefaultUnlisted'
  BY <1>2 DEF SchedInv, SchedListed, DefaultUnlisted, IsTop, Level
<1>5. NodesRunProfile'
  <2> SUFFICES ASSUME NEW n \in live, schedOf[n] \in scheds' \ (torn' \cup {Default}), ~IsTop(n)
               PROVE  npu[n] = pval'[schedOf[n]]
    BY <1>2 DEF NodesRunProfile, IsTop, Level
  <2>1. schedOf[n] \in scheds
    BY <1>2, SchedAssumption DEF SchedInv, SchedListed, SchedTypeOK
  <2> QED BY <1>1, <1>2, <2>1 DEF SchedInv, SchedTypeOK, NodesRunProfile
<1>6. ChildrenExist' /\ NoTopChild'
  BY <1>2 DEF SchedInv, ChildrenExist, NoTopChild, IsTop, Level
<1> QED BY <1>3, <1>4, <1>5, <1>6 DEF SchedInv

LEMMA RemoveSchedInv ==
  ASSUME SchedInv, NEW s \in Sched, RemoveSched(s)
  PROVE  SchedInv'
<1>1. /\ scheds' = scheds \ {s} /\ users[s] = {} /\ pval' = [pval EXCEPT ![s] = NoSVal]
      /\ UNCHANGED <<users, torn, schedOf, npu, job, live, stale, tree, app>>
  BY DEF RemoveSched, SchedInUse, treeVars
<1>2. SchedTypeOK'
  BY <1>1 DEF SchedInv, SchedTypeOK
<1>3. SchedListed' /\ DefaultUnlisted'
  BY <1>1 DEF SchedInv, SchedListed, DefaultUnlisted, IsTop, Level
<1>4. NodesRunProfile'
  BY <1>1 DEF SchedInv, SchedTypeOK, NodesRunProfile, IsTop, Level
<1>5. ChildrenExist' /\ NoTopChild'
  BY <1>1 DEF SchedInv, ChildrenExist, NoTopChild, IsTop, Level
<1> QED BY <1>2, <1>3, <1>4, <1>5 DEF SchedInv

(* Those that take new attributes are users of the profile; a refusal      *)
(* leaves it torn.                                                         *)
LEMMA SetSchedAttrInv ==
  ASSUME SchedInv, NEW s \in Sched, SetSchedAttr(s)
  PROVE  SchedInv'
<1>1. PICK v \in SVal :
       /\ pval' = [pval EXCEPT ![s] = v]
       /\ IF SchedIsHw
          THEN /\ npu' = [n \in SNode |-> IF n \in live /\ schedOf[n] = s THEN v ELSE npu[n]]
               /\ UNCHANGED torn
          ELSE \E r \in Reapplied(users[s]) :
                 /\ npu' = [n \in SNode |-> IF n \in r.new THEN v ELSE npu[n]]
                 /\ torn' = IF r.ok THEN torn \ {s} ELSE torn \cup {s}
  BY DEF SetSchedAttr
<1>2. s \in scheds /\ UNCHANGED <<scheds, users, schedOf, job, live, stale, tree, app>>
  BY DEF SetSchedAttr, treeVars
<1>3. \E A \in SUBSET SNode :
        /\ npu' = [n \in SNode |-> IF n \in A THEN v ELSE npu[n]]
        /\ \A n \in A : (n \in live /\ schedOf[n] = s) \/ n \in users[s]
        /\ \/ torn' = torn \cup {s}
           \/ /\ torn' \in {torn, torn \ {s}}
              /\ \A n \in live : schedOf[n] = s => n \in A \/ s = Default \/ IsTop(n)
  <2>1. CASE SchedIsHw
    <3> DEFINE A == {n \in SNode : n \in live /\ schedOf[n] = s}
    <3>1. npu' = [n \in SNode |-> IF n \in A THEN v ELSE npu[n]]
      BY <1>1, <2>1
    <3>2. torn' = torn
      BY <1>1, <2>1
    <3>3. \A n \in live : schedOf[n] = s => n \in A
      BY DEF SchedInv, SchedTypeOK
    <3> QED BY <3>1, <3>2, <3>3
  <2>2. CASE ~SchedIsHw
    <3>1. PICK r \in Reapplied(users[s]) :
            /\ npu' = [n \in SNode |-> IF n \in r.new THEN v ELSE npu[n]]
            /\ torn' = IF r.ok THEN torn \ {s} ELSE torn \cup {s}
      BY <1>1, <2>2
    <3>2. r.new \subseteq users[s] /\ (r.ok => r.new = users[s])
      BY DEF Reapplied
    <3>3. r.new \in SUBSET SNode
      BY <3>2 DEF SchedInv, SchedTypeOK
    <3>4. \A n \in live : schedOf[n] = s => n \in users[s] \/ s = Default \/ IsTop(n)
      BY SchedAssumption DEF SchedInv, SchedListed
    <3> QED BY <3>1, <3>2, <3>3, <3>4
  <2> QED BY <2>1, <2>2
<1>4. PICK A \in SUBSET SNode :
        /\ npu' = [n \in SNode |-> IF n \in A THEN v ELSE npu[n]]
        /\ \A n \in A : (n \in live /\ schedOf[n] = s) \/ n \in users[s]
        /\ \/ torn' = torn \cup {s}
           \/ /\ torn' \in {torn, torn \ {s}}
              /\ \A n \in live : schedOf[n] = s => n \in A \/ s = Default \/ IsTop(n)
  BY <1>3
<1>5. SchedTypeOK'
  BY <1>1, <1>2, <1>4 DEF SchedInv, SchedTypeOK
<1>6. SchedListed' /\ DefaultUnlisted'
  BY <1>2 DEF SchedInv, SchedListed, DefaultUnlisted, IsTop, Level
<1>7. NodesRunProfile'
  <2> SUFFICES ASSUME NEW n \in live, schedOf[n] \in scheds \ (torn' \cup {Default}), ~IsTop(n)
               PROVE  npu'[n] = pval'[schedOf[n]]
    BY <1>2 DEF NodesRunProfile, IsTop, Level
  <2>1. n \in SNode /\ schedOf[n] \in Sched
    BY DEF SchedInv, SchedTypeOK
  <2>2. CASE schedOf[n] = s
    BY <1>1, <1>4, <2>1, <2>2 DEF SchedInv, SchedTypeOK
  <2>3. CASE schedOf[n] # s
    <3>1. n \notin A
      BY <1>4, <2>3 DEF SchedInv, SchedListed
    <3> QED BY <1>1, <1>4, <2>1, <2>3, <3>1 DEF SchedInv, SchedTypeOK, NodesRunProfile
  <2> QED BY <2>2, <2>3
<1>8. ChildrenExist' /\ NoTopChild'
  BY <1>2 DEF SchedInv, ChildrenExist, NoTopChild, IsTop, Level
<1> QED BY <1>5, <1>6, <1>7, <1>8 DEF SchedInv

LEMMA SetNodeSchedInv ==
  ASSUME SchedInv, NEW n \in SNode, NEW s \in Sched \cup {NoSched}, SetNodeSched(n, s)
  PROVE  SchedInv'
<1> DEFINE new == OrDefault(s)
<1>1. /\ new \in scheds /\ new \in Sched /\ n \in live
      /\ users' = ListUpdate(users, n, schedOf[n], new)
      /\ schedOf' = [schedOf EXCEPT ![n] = new]
      /\ npu' = [npu EXCEPT ![n] = pval[new]]
      /\ UNCHANGED <<scheds, pval, torn, job, live, stale, tree, app>>
  BY SchedAssumption DEF SetNodeSched, CanSetSched, SchedulerSet, OrDefault, treeVars
<1> HIDE DEF new
<1>2. SchedTypeOK'
  BY <1>1, Relisted DEF SchedInv, SchedTypeOK
<1>3. SchedListed'
  <2>1. ASSUME NEW x \in live, schedOf'[x] \notin {NoSched, Default}, ~IsTop(x)
        PROVE  schedOf'[x] \in scheds /\ x \in users'[schedOf'[x]]
    BY <1>1, <2>1, Relisted DEF SchedInv, SchedTypeOK, SchedListed
  <2>2. ASSUME NEW t \in Sched, NEW x \in users'[t], ~IsTop(x)
        PROVE  x \in live /\ schedOf'[x] = t
    <3>1. x \in SNode
      BY <1>1, Relisted
    <3>2. CASE x = n
      BY <1>1, <2>2, <3>2, Relisted DEF SchedInv, SchedTypeOK, SchedListed
    <3>3. CASE x # n
      BY <1>1, <2>2, <3>1, <3>3, Relisted DEF SchedInv, SchedTypeOK, SchedListed
    <3> QED BY <3>2, <3>3
  <2> QED BY <1>1, <2>1, <2>2 DEF SchedListed, IsTop, Level
<1>4. DefaultUnlisted'
  BY <1>1, Relisted DEF DefaultUnlisted
<1>5. NodesRunProfile'
  BY <1>1 DEF SchedInv, SchedTypeOK, NodesRunProfile, IsTop, Level
<1>6. ChildrenExist' /\ NoTopChild'
  BY <1>1 DEF SchedInv, ChildrenExist, NoTopChild, IsTop, Level
<1> QED BY <1>2, <1>3, <1>4, <1>5, <1>6 DEF SchedInv

(* The tree                                                                *)

(* A node that is created was in no list and no tree.                      *)
LEMMA CreateNodeInv ==
  ASSUME SchedInv, NEW n \in SGroup \cup SQueue, NEW p \in SGroup \cup {SPort},
         NEW s \in Sched \cup {NoSched}, CreateNode(n, p, s),
         job' \in {"none", "init", "deinit", "create"}, app' \in BOOLEAN
  PROVE  SchedInv'
<1> DEFINE lvl == IF n \in SGroup THEN Level(p) + 1 ELSE 1
           new == OrDefault(s)
<1>1. /\ n \in SNode /\ n \notin live /\ n \notin stale /\ \A t \in Sched : n \notin users[t]
      /\ p \in live \/ p = SPort
      /\ n \in SQueue => p # SPort
      /\ UNCHANGED <<scheds, pval, torn>>
  BY DEF CreateNode, Groups, SNode
<1>2. lvl \in 0..MaxLevels /\ (lvl = 0 => n \in SGroup /\ p = SPort)
  <2>1. lvl < MaxLevels
    BY DEF CreateNode
  <2>2. CASE p = SPort
    BY <2>1, <2>2, SchedAssumption DEF Level
  <2>3. CASE p \in SGroup
    BY <2>1, <2>3, Levels, SchedAssumption
  <2> QED BY <2>2, <2>3
<1>3. \/ (lvl = 0 \/ new \in scheds) /\ Attached(n, p, lvl, s)
      \/ lvl # 0 /\ FreedInTree(n)
  BY DEF CreateNode
<1> HIDE DEF lvl, new
<1>5. CASE FreedInTree(n)
  <2>1. SchedTypeOK'
    BY <1>1, <1>5 DEF SchedInv, SchedTypeOK, FreedInTree
  <2> QED BY <1>1, <1>5, <2>1
      DEF SchedInv, FreedInTree, SchedListed, DefaultUnlisted, NodesRunProfile, ChildrenExist,
          NoTopChild, IsTop, Level
<1>6. CASE (lvl = 0 \/ new \in scheds) /\ Attached(n, p, lvl, s)
  <2>1. /\ live' = live \cup {n} /\ stale' = stale
        /\ tree' = [level |-> IF n \in SGroup THEN [tree.level EXCEPT ![n] = lvl] ELSE tree.level,
                    par |-> [tree.par EXCEPT ![n] = p],
                    kids |-> IF lvl = 0 THEN tree.kids ELSE Adopt(tree.kids, p, n)]
    BY <1>6 DEF Attached
  <2>2. /\ tree.level \in [SGroup -> 0..MaxLevels] /\ tree.kids \in [SGroup -> SUBSET SNode]
        /\ tree.par \in [SNode -> SGroup \cup {SPort, NoPar}]
    BY DEF SchedInv, SchedTypeOK
  <2>3. \A x \in SNode : x # n => (IsTop(x)' <=> IsTop(x))
    BY <2>1, <2>2, SchedAssumption DEF IsTop, Level
  <2>4. IsTop(n)' <=> lvl = 0
    BY <1>2, <2>1, <2>2, SchedAssumption DEF IsTop, Level
  <2>5. tree' \in [level : [SGroup -> 0..MaxLevels], par : [SNode -> SGroup \cup {SPort, NoPar}],
                   kids : [SGroup -> SUBSET SNode]]
    <3>1. tree'.level \in [SGroup -> 0..MaxLevels]
      BY <1>2, <2>1, <2>2
    <3>2. tree'.par \in [SNode -> SGroup \cup {SPort, NoPar}]
      BY <2>1, <2>2
    <3>3. tree'.kids \in [SGroup -> SUBSET SNode]
      BY <1>1, <2>1, <2>2 DEF Adopt
    <3> QED BY <2>1, <3>1, <3>2, <3>3
  <2>6. live' \subseteq SNode /\ live' \cap stale' = {} /\ stale' \subseteq SNode
    BY <1>1, <2>1 DEF SchedInv, SchedTypeOK
  <2>7. ChildrenExist' /\ NoTopChild'
    <3> SUFFICES ASSUME NEW g \in SGroup, NEW x \in tree'.kids[g]
                 PROVE  {g, x} \subseteq live' /\ tree'.par[x] = g /\ ~IsTop(x)'
      BY DEF ChildrenExist, NoTopChild
    <3>1. CASE x \in tree.kids[g]
      <4>1. {g, x} \subseteq live /\ tree.par[x] = g /\ ~IsTop(x) /\ x # n
        BY <1>1, <3>1 DEF SchedInv, ChildrenExist, NoTopChild
      <4> QED BY <2>1, <2>2, <2>3, <4>1 DEF SchedInv, SchedTypeOK
    <3>2. CASE x \notin tree.kids[g]
      <4>1. lvl # 0 /\ x = n /\ g = p /\ p \in SGroup
        BY <2>1, <2>2, <3>2 DEF Adopt
      <4> QED BY <1>1, <2>1, <2>2, <2>4, <4>1, SchedAssumption
    <3> QED BY <3>1, <3>2
  <2>8. CASE lvl = 0
    <3>1. schedOf' = [schedOf EXCEPT ![n] = s] /\ users' = users /\ npu' = npu
      BY <1>6, <2>8 DEF Attached
    <3>2. SchedTypeOK'
      BY <1>1, <2>5, <2>6, <3>1 DEF SchedInv, SchedTypeOK
    <3>3. SchedListed' /\ DefaultUnlisted'
      <4>1. ASSUME NEW x \in live', schedOf'[x] \notin {NoSched, Default}, ~IsTop(x)'
            PROVE  schedOf'[x] \in scheds' /\ x \in users'[schedOf'[x]]
        BY <1>1, <2>1, <2>3, <2>4, <2>8, <3>1, <4>1 DEF SchedInv, SchedTypeOK, SchedListed
      <4>2. ASSUME NEW t \in Sched, NEW x \in users'[t], ~IsTop(x)'
            PROVE  x \in live' /\ schedOf'[x] = t
        BY <1>1, <2>1, <2>3, <3>1, <4>2 DEF SchedInv, SchedTypeOK, SchedListed
      <4> QED BY <3>1, <4>1, <4>2 DEF SchedListed, SchedInv, DefaultUnlisted
    <3>4. NodesRunProfile'
      BY <1>1, <2>1, <2>3, <2>4, <2>8, <3>1 DEF SchedInv, SchedTypeOK, NodesRunProfile
    <3> QED BY <2>7, <3>2, <3>3, <3>4 DEF SchedInv
  <2>9. CASE lvl # 0
    <3>1. /\ users' = ListUpdate(users, n, NoSched, new)
          /\ schedOf' = [schedOf EXCEPT ![n] = new]
          /\ npu' = [npu EXCEPT ![n] = pval[new]]
      BY <1>6, <2>9 DEF Attached, new
    <3>2. new \in Sched /\ new \in scheds
      BY <1>6, <2>9 DEF SchedInv, SchedTypeOK
    <3>3. SchedTypeOK'
      BY <1>1, <2>5, <2>6, <3>1, <3>2, Relisted DEF SchedInv, SchedTypeOK
    <3>4. SchedListed'
      <4>1. ASSUME NEW x \in live', schedOf'[x] \notin {NoSched, Default}, ~IsTop(x)'
            PROVE  schedOf'[x] \in scheds' /\ x \in users'[schedOf'[x]]
        <5>1. CASE x = n
          BY <1>1, <3>1, <3>2, <4>1, <5>1, Relisted DEF SchedInv, SchedTypeOK
        <5>2. CASE x # n
          BY <1>1, <2>1, <2>3, <3>1, <4>1, <5>2, Relisted DEF SchedInv, SchedTypeOK, SchedListed
        <5> QED BY <5>1, <5>2
      <4>2. ASSUME NEW t \in Sched, NEW x \in users'[t], ~IsTop(x)'
            PROVE  x \in live' /\ schedOf'[x] = t
        <5>1. x \in SNode
          BY <1>1, <3>1, Relisted
        <5>2. CASE x = n
          BY <1>1, <2>1, <3>1, <5>2, <4>2, Relisted DEF SchedInv, SchedTypeOK
        <5>3. CASE x # n
          BY <1>1, <2>1, <2>3, <3>1, <4>2, <5>1, <5>3, Relisted DEF SchedInv, SchedTypeOK, SchedListed
        <5> QED BY <5>2, <5>3
      <4> QED BY <4>1, <4>2 DEF SchedListed
    <3>5. DefaultUnlisted'
      BY <1>1, <3>1, Relisted DEF DefaultUnlisted
    <3>6. NodesRunProfile'
      <4> SUFFICES ASSUME NEW x \in live', schedOf'[x] \in scheds' \ (torn' \cup {Default}), ~IsTop(x)'
                   PROVE  npu'[x] = pval'[schedOf'[x]]
        BY DEF NodesRunProfile
      <4>1. CASE x = n
        BY <1>1, <3>1, <4>1 DEF SchedInv, SchedTypeOK
      <4>2. CASE x # n
        BY <1>1, <2>1, <2>3, <3>1, <4>2 DEF SchedInv, SchedTypeOK, NodesRunProfile
      <4> QED BY <4>1, <4>2
    <3> QED BY <2>7, <3>3, <3>4, <3>5, <3>6 DEF SchedInv
  <2> QED BY <2>8, <2>9
<1> QED BY <1>3, <1>5, <1>6

(* A node that goes, or some steps on its way, leaves the lists before it  *)
(* is freed; a top group is in no list that counts.                        *)
LEMMA RemoveNodeInv ==
  ASSUME SchedInv, NEW n \in SNode, NEW stage \in Stage, RemoveNode(n, stage),
         job' \in {"none", "init", "deinit", "create"}, app' \in BOOLEAN
  PROVE  SchedInv'
<1> DEFINE top   == n \in SGroup /\ Level(n) = 0
           reset == ~top /\ schedOf[n] \notin {NoSched, Default}
           went  == stage = "gone"
<1>1. /\ n \in live /\ n # SPort
      /\ n \in SGroup => tree.kids[n] = {}
      /\ reset => Default \in scheds
      /\ users' = IF reset THEN ListUpdate(users, n, schedOf[n], Default) ELSE users
      /\ schedOf' = [schedOf EXCEPT ![n] = IF went THEN NoSched ELSE IF reset THEN Default ELSE schedOf[n]]
      /\ npu' = [npu EXCEPT ![n] = IF went THEN NoSVal ELSE IF reset THEN pval[Default] ELSE npu[n]]
      /\ live' = IF went THEN live \ {n} ELSE live
      /\ UNCHANGED <<scheds, pval, torn, stale>>
  BY DEF RemoveNode, CanSetSched, OrDefault
<1>2. tree' = IF top \/ stage = "reset" THEN tree
              ELSE [level |-> tree.level,
                    par |-> [tree.par EXCEPT ![n] = IF went THEN NoPar ELSE tree.par[n]],
                    kids |-> Disown(tree.kids, tree.par[n], n)]
  <2>1. tree = [level |-> tree.level, par |-> tree.par, kids |-> tree.kids]
    BY DEF SchedInv, SchedTypeOK
  <2>2. tree' = IF top \/ stage = "reset" THEN tree
                ELSE [tree EXCEPT !.kids = Disown(tree.kids, tree.par[n], n),
                                  !.par[n] = IF went THEN NoPar ELSE tree.par[n]]
    BY <2>1 DEF RemoveNode
  <2> HIDE DEF top, went
  <2> DEFINE kids == Disown(tree.kids, tree.par[n], n)
             parent == IF went THEN NoPar ELSE tree.par[n]
  <2>3. [tree EXCEPT !.kids = kids, !.par[n] = parent] =
          [level |-> tree.level, par |-> [tree.par EXCEPT ![n] = parent], kids |-> kids]
    <3> DEFINE a == [tree EXCEPT !.kids = kids]
    <3> HIDE DEF kids, parent
    <3>1. a = [level |-> tree.level, par |-> tree.par, kids |-> kids]
      BY <2>1
    <3>2. [tree EXCEPT !.kids = kids, !.par[n] = parent] = [a EXCEPT !.par[n] = parent]
      OBVIOUS
    <3> HIDE DEF a
    <3>3. [a EXCEPT !.par[n] = parent] =
            [level |-> tree.level, par |-> [tree.par EXCEPT ![n] = parent], kids |-> kids]
      BY <3>1
    <3> QED BY <3>2, <3>3
  <2> QED BY <2>2, <2>3
<1>3. top <=> IsTop(n)
  BY DEF IsTop
<1> HIDE DEF top, reset, went
<1>4. /\ tree.level \in [SGroup -> 0..MaxLevels] /\ tree.kids \in [SGroup -> SUBSET SNode]
      /\ tree.par \in [SNode -> SGroup \cup {SPort, NoPar}]
      /\ schedOf \in [SNode -> Sched \cup {NoSched}] /\ npu \in [SNode -> SVal \cup {NoSVal}]
      /\ pval \in [Sched -> SVal \cup {NoSVal}] /\ Default \in Sched
  BY SchedAssumption DEF SchedInv, SchedTypeOK
<1>5. \A x \in SNode : IsTop(x)' <=> IsTop(x)
  BY <1>2, <1>4, SchedAssumption DEF IsTop, Level
<1>6. tree' \in [level : [SGroup -> 0..MaxLevels], par : [SNode -> SGroup \cup {SPort, NoPar}],
                 kids : [SGroup -> SUBSET SNode]]
  <2>1. CASE tree' = tree
    BY <2>1 DEF SchedInv, SchedTypeOK
  <2>2. CASE tree' # tree
    <3>1. [tree.par EXCEPT ![n] = IF went THEN NoPar ELSE tree.par[n]] \in [SNode -> SGroup \cup {SPort, NoPar}]
      BY <1>4
    <3>2. Disown(tree.kids, tree.par[n], n) \in [SGroup -> SUBSET SNode]
      BY <1>4 DEF Disown
    <3> QED BY <1>2, <1>4, <2>2, <3>1, <3>2
  <2> QED BY <2>1, <2>2
<1>7. users' \in [Sched -> SUBSET SNode] /\ users'[Default] = {}
  BY <1>1, Relisted DEF SchedInv, SchedTypeOK, DefaultUnlisted
<1>8. SchedTypeOK'
  BY <1>1, <1>4, <1>6, <1>7 DEF SchedInv, SchedTypeOK
<1>9. \A t \in Sched : ~top => n \notin users'[t]
  <2> SUFFICES ASSUME NEW t \in Sched, ~top, n \in users'[t]  PROVE FALSE
    OBVIOUS
  <2>1. n \in users[t] /\ (reset => t # schedOf[n])
    BY <1>1, <1>4, Relisted
  <2>2. schedOf[n] = t
    BY <1>3, <2>1 DEF SchedInv, SchedListed
  <2> QED BY <2>1, <2>2, SchedAssumption DEF reset, SchedInv, DefaultUnlisted
<1>10. \A t \in Sched, x \in SNode : x # n => (x \in users'[t] <=> x \in users[t])
  BY <1>1, Relisted
<1>11. \A x \in SNode : x # n => schedOf'[x] = schedOf[x] /\ npu'[x] = npu[x] /\ (x \in live' <=> x \in live)
  BY <1>1, <1>4
<1>12. ~top => schedOf'[n] \in {NoSched, Default}
  BY <1>1, <1>4 DEF reset
<1>13. SchedListed'
  <2>1. ASSUME NEW x \in live', schedOf'[x] \notin {NoSched, Default}, ~IsTop(x)'
        PROVE  schedOf'[x] \in scheds' /\ x \in users'[schedOf'[x]]
    <3>1. x \in SNode /\ x \in live
      BY <1>1, <2>1 DEF SchedInv, SchedTypeOK
    <3>2. x # n
      BY <1>3, <1>5, <1>12, <2>1, <3>1
    <3> QED BY <1>1, <1>5, <1>10, <1>11, <2>1, <3>1, <3>2 DEF SchedInv, SchedTypeOK, SchedListed
  <2>2. ASSUME NEW t \in Sched, NEW x \in users'[t], ~IsTop(x)'
        PROVE  x \in live' /\ schedOf'[x] = t
    <3>1. x \in SNode
      BY <1>7
    <3>2. x # n
      BY <1>3, <1>5, <1>9, <2>2, <3>1
    <3> QED BY <1>5, <1>10, <1>11, <2>2, <3>1, <3>2 DEF SchedInv, SchedTypeOK, SchedListed
  <2> QED BY <2>1, <2>2 DEF SchedListed
<1>14. NodesRunProfile'
  <2> SUFFICES ASSUME NEW x \in live', schedOf'[x] \in scheds' \ (torn' \cup {Default}), ~IsTop(x)'
               PROVE  npu'[x] = pval'[schedOf'[x]]
    BY DEF NodesRunProfile
  <2>1. x \in SNode /\ x \in live
    BY <1>1 DEF SchedInv, SchedTypeOK
  <2>2. x # n
    BY <1>1, <1>3, <1>5, <1>12, <2>1, SchedAssumption DEF SchedInv, SchedTypeOK
  <2> QED BY <1>1, <1>5, <1>11, <2>1, <2>2 DEF SchedInv, NodesRunProfile
<1>15. ChildrenExist' /\ NoTopChild'
  <2> SUFFICES ASSUME NEW g \in SGroup, NEW x \in tree'.kids[g]
               PROVE  {g, x} \subseteq live' /\ tree'.par[x] = g /\ ~IsTop(x)'
    BY DEF ChildrenExist, NoTopChild
  <2>1. x \in tree.kids[g]
    BY <1>2, <1>4 DEF Disown
  <2>2. {g, x} \subseteq live /\ tree.par[x] = g /\ ~IsTop(x) /\ x \in SNode /\ g # n
    BY <1>1, <1>4, <2>1 DEF SchedInv, ChildrenExist, NoTopChild
  <2>3. x = n => stage = "reset"
    BY <1>2, <1>3, <1>4, <2>1, <2>2 DEF Disown
  <2>4. x = n => ~went
    BY <2>3 DEF went
  <2>5. tree'.par[x] = tree.par[x]
    BY <1>2, <1>4, <2>2, <2>4
  <2> QED BY <1>1, <1>5, <2>2, <2>4, <2>5
<1> QED BY <1>7, <1>8, <1>13, <1>14, <1>15 DEF SchedInv, DefaultUnlisted

(* A node that moves leaves the children of one group for those of another *)
(* at the same level.                                                      *)
LEMMA MoveNodeInv ==
  ASSUME SchedInv, NEW n \in SNode, NEW p \in SGroup, MoveNode(n, p)
  PROVE  SchedInv'
<1>1. /\ n \in live /\ p \in live /\ n # SPort /\ tree.par[n] \in Groups /\ p # tree.par[n]
      /\ n \in SGroup => Level(p) < Level(n)
      /\ UNCHANGED <<scheds, pval, users, torn, live, stale, schedOf, npu, job, app>>
  BY DEF MoveNode, Groups
<1>2. /\ tree.level \in [SGroup -> 0..MaxLevels] /\ tree.kids \in [SGroup -> SUBSET SNode]
      /\ tree.par \in [SNode -> SGroup \cup {SPort, NoPar}]
  BY DEF SchedInv, SchedTypeOK
<1>3. tree' = [level |-> tree.level, par |-> [tree.par EXCEPT ![n] = p],
               kids |-> Adopt(Disown(tree.kids, tree.par[n], n), p, n)]
  BY DEF MoveNode, SchedInv, SchedTypeOK
<1>4. /\ Adopt(Disown(tree.kids, tree.par[n], n), p, n) \in [SGroup -> SUBSET SNode]
      /\ [tree.par EXCEPT ![n] = p] \in [SNode -> SGroup \cup {SPort, NoPar}]
  BY <1>2 DEF Adopt, Disown
<1>5. SchedTypeOK'
  BY <1>1, <1>2, <1>3, <1>4 DEF SchedInv, SchedTypeOK
<1>6. \A x \in SNode : IsTop(x)' <=> IsTop(x)
  BY <1>2, <1>3, SchedAssumption DEF IsTop, Level
<1>7. SchedListed' /\ DefaultUnlisted' /\ NodesRunProfile'
  BY <1>1, <1>6 DEF SchedInv, SchedTypeOK, SchedListed, DefaultUnlisted, NodesRunProfile
<1>8. ~IsTop(n)
  BY <1>1, Levels DEF IsTop
<1>9. ChildrenExist' /\ NoTopChild'
  <2> SUFFICES ASSUME NEW g \in SGroup, NEW x \in tree'.kids[g]
               PROVE  {g, x} \subseteq live' /\ tree'.par[x] = g /\ ~IsTop(x)'
    BY DEF ChildrenExist, NoTopChild
  <2>1. CASE x = n
    <3>1. g = p
      BY <1>1, <1>2, <1>3, <2>1 DEF Adopt, Disown, SchedInv, ChildrenExist
    <3> QED BY <1>1, <1>2, <1>3, <1>6, <1>8, <2>1, <3>1
  <2>2. CASE x # n
    <3>1. x \in tree.kids[g]
      BY <1>2, <1>3, <2>2 DEF Adopt, Disown
    <3>2. x \in SNode
      BY <1>2, <3>1
    <3> QED BY <1>1, <1>2, <1>3, <1>6, <2>2, <3>1, <3>2 DEF SchedInv, ChildrenExist, NoTopChild
  <2> QED BY <2>1, <2>2
<1> QED BY <1>5, <1>7, <1>9 DEF SchedInv

(* The other steps of a job change no profile and no node.                 *)
LEMMA JobInv ==
  ASSUME SchedInv, UNCHANGED <<scheds, pval, users, torn, schedOf, npu, live, stale, tree>>,
         job' \in {"none", "init", "deinit", "create"}, app' \in BOOLEAN
  PROVE  SchedInv'
<1>1. SchedTypeOK'
  BY DEF SchedInv, SchedTypeOK
<1> QED BY <1>1
    DEF SchedInv, SchedListed, DefaultUnlisted, NodesRunProfile, ChildrenExist, NoTopChild, IsTop, Level

LEMMA SchedInvNext == SchedInv /\ [SchedNext]_schedVars => SchedInv'
<1> SUFFICES ASSUME SchedInv, [SchedNext]_schedVars  PROVE SchedInv'
  OBVIOUS
<1>1. job \in {"none", "init", "deinit", "create"} /\ app \in BOOLEAN /\ live \subseteq SNode
  BY DEF SchedInv, SchedTypeOK
<1>2. ASSUME NEW s \in Sched, CreateSched(s) \/ RemoveSched(s) \/ SetSchedAttr(s)
      PROVE  SchedInv'
  BY <1>2, CreateSchedInv, RemoveSchedInv, SetSchedAttrInv
<1>3. ASSUME NEW n \in SNode, NEW s \in Sched \cup {NoSched}, SetNodeSched(n, s)
      PROVE  SchedInv'
  BY <1>3, SetNodeSchedInv
<1>4. ASSUME NEW n \in SNode, NEW p \in SGroup \cup {SPort}, NEW s \in Sched \cup {NoSched},
             CreateQueue(n, p, s) \/ CreateGroup(n, p, s)
      PROVE  SchedInv'
  <2>1. n \in SGroup \cup SQueue /\ CreateNode(n, p, s) /\ job' \in {"none", job} /\ app' = app
    BY <1>4 DEF CreateQueue, CreateGroup
  <2> QED BY <1>1, <2>1, CreateNodeInv
<1>5. ASSUME NEW n \in SNode, RemoveOne(n)
      PROVE  SchedInv'
  BY <1>1, <1>5, RemoveNodeInv DEF RemoveOne
<1>6. ASSUME NEW n \in SNode, NEW p \in SGroup, MoveNode(n, p)
      PROVE  SchedInv'
  BY <1>6, MoveNodeInv
<1>7. CASE FirstGroup \/ DeinitFails \/ DeinitDone \/ UNCHANGED schedVars
  BY <1>1, <1>7, JobInv DEF FirstGroup, DeinitFails, DeinitDone, schedVars, treeVars
<1>8. CASE Deinit
  <2>1. PICK n \in live \ {SPort}, stage \in Stage :
          RemoveNode(n, stage) /\ job' = IF stage = "gone" THEN "deinit" ELSE "none"
    BY <1>8 DEF Deinit
  <2>2. app' = app
    BY <1>8 DEF Deinit
  <2> QED BY <1>1, <2>1, <2>2, RemoveNodeInv
<1>9. CASE InitHierarchy
  <2>1. PICK n \in {TopGroup, LeafGroup, LeafQueue} \ live :
          /\ CreateNode(n, DefaultParent(n), Default)
          /\ job' = IF n = LeafQueue \/ n \notin live' THEN "none" ELSE "init"
    BY <1>9 DEF InitHierarchy
  <2>2. n \in SGroup \cup SQueue /\ DefaultParent(n) \in SGroup \cup {SPort} /\ Default \in Sched
    BY SchedAssumption DEF DefaultParent
  <2>3. app' = app
    BY <1>9 DEF InitHierarchy
  <2> QED BY <1>1, <2>1, <2>2, <2>3, CreateNodeInv
<1> QED BY <1>2, <1>3, <1>4, <1>5, <1>6, <1>7, <1>8, <1>9 DEF SchedNext

---------------------------------------------------------------------------
(* Buffers: the slots that users take                                      *)

(* The slots of the users in V are numbered from 1 for each of them.       *)
LEMMA SlotsMember ==
  ASSUME NEW c \in [User -> Nat], NEW V \in SUBSET User
  PROVE  /\ \A u \in V : \A i \in 1..c[u] : <<u, i>> \in Slots(c, V)
         /\ \A e \in Slots(c, V) : \E u \in V : \E i \in 1..c[u] : e = <<u, i>>
<1>1. \A e : e \in Slots(c, V) <=> \E u \in V : e \in {u} \X (1..c[u])
  BY DEF Slots
<1>2. \A u, e : e \in {u} \X (1..c[u]) <=> \E i \in 1..c[u] : e = <<u, i>>
  OBVIOUS
<1> QED BY <1>1, <1>2

LEMMA SlotsFinite ==
  ASSUME NEW c \in [User -> Nat], NEW V \in SUBSET User
  PROVE  IsFiniteSet(Slots(c, V)) /\ Cardinality(Slots(c, V)) \in Nat
<1> DEFINE f == [u \in V |-> {u} \X (1..c[u])]
           T == {{u} \X (1..c[u]) : u \in V}
<1>1. f \in Surjection(V, T)
  BY DEF Surjection
<1>2. IsFiniteSet(T)
  BY <1>1, FS_Surjection, FS_Subset, BufferAssumption
<1>3. \A A \in T : IsFiniteSet(A)
  <2> SUFFICES ASSUME NEW u \in V  PROVE IsFiniteSet({u} \X (1..c[u]))
    OBVIOUS
  <2>1. IsFiniteSet({u})
    BY FS_Singleton
  <2>2. IsFiniteSet(1..c[u])
    BY FS_Interval
  <2> QED BY <2>1, <2>2, FS_Product
<1>4. IsFiniteSet(UNION T)
  <2> HIDE DEF T
  <2> QED BY <1>2, <1>3, FS_UNION
<1> QED BY <1>4, FS_CardinalityType DEF Slots

(* The slots depend on the charges of these users alone.                   *)
LEMMA SlotsSame ==
  ASSUME NEW c \in [User -> Nat], NEW d \in [User -> Nat], NEW V \in SUBSET User,
         \A u \in V : c[u] = d[u]
  PROVE  Slots(c, V) = Slots(d, V)
<1>1. ASSUME NEW e \in Slots(c, V)  PROVE e \in Slots(d, V)
  BY <1>1, SlotsMember
<1>2. ASSUME NEW e \in Slots(d, V)  PROVE e \in Slots(c, V)
  BY <1>2, SlotsMember
<1> QED BY <1>1, <1>2

(* Users apart have slots apart.                                           *)
LEMMA SlotsApart ==
  ASSUME NEW c \in [User -> Nat], NEW V \in SUBSET User, NEW W \in SUBSET User,
         V \cap W = {}
  PROVE  Cardinality(Slots(c, V \cup W))
           = Cardinality(Slots(c, V)) + Cardinality(Slots(c, W))
<1>1. Slots(c, V \cup W) = Slots(c, V) \cup Slots(c, W)
  BY DEF Slots
<1>2. Slots(c, V) \cap Slots(c, W) = {}
  <2> SUFFICES ASSUME NEW e \in Slots(c, V), e \in Slots(c, W)  PROVE FALSE
    OBVIOUS
  <2>1. PICK u \in V : \E i \in 1..c[u] : e = <<u, i>>
    BY SlotsMember
  <2>2. PICK w \in W : \E i \in 1..c[w] : e = <<w, i>>
    BY SlotsMember
  <2> QED BY <2>1, <2>2
<1>3. IsFiniteSet(Slots(c, V)) /\ Cardinality(Slots(c, V)) \in Nat
  BY SlotsFinite
<1>4. IsFiniteSet(Slots(c, W)) /\ Cardinality(Slots(c, W)) \in Nat
  BY SlotsFinite
<1>5. Cardinality(Slots(c, V) \cap Slots(c, W)) = 0
  BY <1>2, FS_EmptySet
<1>6. Cardinality(Slots(c, V) \cup Slots(c, W))
        = Cardinality(Slots(c, V)) + Cardinality(Slots(c, W)) - Cardinality(Slots(c, V) \cap Slots(c, W))
  BY <1>3, <1>4, FS_Union
<1>7. Cardinality(Slots(c, V) \cup Slots(c, W))
        = Cardinality(Slots(c, V)) + Cardinality(Slots(c, W))
  BY <1>3, <1>4, <1>5, <1>6
<1> QED BY <1>1, <1>7

(* Users that are charged alike take as many slots each.                   *)
LEMMA SlotsEven ==
  ASSUME NEW c \in [User -> Nat], NEW V \in SUBSET User, NEW k \in Nat,
         \A u \in V : c[u] = k
  PROVE  Cardinality(Slots(c, V)) = Cardinality(V) * k
<1>1. Slots(c, V) = V \X (1..k)
  <2>1. ASSUME NEW e \in Slots(c, V)  PROVE e \in V \X (1..k)
    BY <2>1, SlotsMember
  <2>2. ASSUME NEW e \in V \X (1..k)  PROVE e \in Slots(c, V)
    <3>1. PICK u \in V, i \in 1..k : e = <<u, i>>
      BY <2>2
    <3>2. i \in 1..c[u]
      BY <3>1
    <3> QED BY <3>1, <3>2, SlotsMember
  <2> QED BY <2>1, <2>2
<1>2. IsFiniteSet(V)
  BY FS_Subset, BufferAssumption
<1>3. IsFiniteSet(1..k) /\ Cardinality(1..k) = k
  BY FS_Interval
<1> QED BY <1>1, <1>2, <1>3, FS_Product

(* When the users in X go from a charge a to a charge b, the slots of V    *)
(* that others take stay.                                                  *)
LEMMA SlotsMoved ==
  ASSUME NEW c \in [User -> Nat], NEW d \in [User -> Nat],
         NEW V \in SUBSET User, NEW X \in SUBSET V, NEW a \in Nat, NEW b \in Nat,
         \A u \in V \ X : c[u] = d[u],
         \A u \in X : c[u] = a /\ d[u] = b
  PROVE  /\ Cardinality(Slots(c, V)) = Cardinality(Slots(c, V \ X)) + Cardinality(X) * a
         /\ Cardinality(Slots(d, V)) = Cardinality(Slots(c, V \ X)) + Cardinality(X) * b
         /\ Cardinality(Slots(c, V \ X)) \in Nat
<1>1. V = (V \ X) \cup X /\ (V \ X) \cap X = {} /\ V \ X \in SUBSET User /\ X \in SUBSET User
  OBVIOUS
<1>2. Cardinality(Slots(c, X)) = Cardinality(X) * a
  BY <1>1, SlotsEven
<1>3. Cardinality(Slots(d, X)) = Cardinality(X) * b
  BY <1>1, SlotsEven
<1>4. Slots(d, V \ X) = Slots(c, V \ X)
  BY <1>1, SlotsSame
<1>5. Cardinality(Slots(c, V)) = Cardinality(Slots(c, V \ X)) + Cardinality(Slots(c, X))
  BY <1>1, SlotsApart
<1>6. Cardinality(Slots(d, V)) = Cardinality(Slots(d, V \ X)) + Cardinality(Slots(d, X))
  BY <1>1, SlotsApart
<1>7. Cardinality(Slots(c, V \ X)) \in Nat
  BY <1>1, SlotsFinite
<1> QED BY <1>2, <1>3, <1>4, <1>5, <1>6, <1>7

(* The users in X leave V, or join it.                                     *)
LEMMA SlotsLeave ==
  ASSUME NEW c \in [User -> Nat], NEW d \in [User -> Nat],
         NEW V \in SUBSET User, NEW X \in SUBSET V, NEW a \in Nat,
         \A u \in V \ X : c[u] = d[u], \A u \in X : c[u] = a
  PROVE  Cardinality(Slots(c, V)) = Cardinality(Slots(d, V \ X)) + Cardinality(X) * a
<1>1. V \ X \in SUBSET User
  OBVIOUS
<1>2. Slots(d, V \ X) = Slots(c, V \ X)
  BY <1>1, SlotsSame
<1> QED BY <1>2, SlotsMoved

LEMMA SlotsJoin ==
  ASSUME NEW c \in [User -> Nat], NEW d \in [User -> Nat],
         NEW V \in SUBSET User, NEW X \in SUBSET User, NEW b \in Nat, V \cap X = {},
         \A u \in V : c[u] = d[u], \A u \in X : d[u] = b
  PROVE  Cardinality(Slots(d, V \cup X)) = Cardinality(Slots(c, V)) + Cardinality(X) * b
<1>1. Cardinality(Slots(d, V \cup X)) = Cardinality(Slots(d, V)) + Cardinality(Slots(d, X))
  BY SlotsApart
<1>2. Slots(d, V) = Slots(c, V)
  BY SlotsSame
<1>3. Cardinality(Slots(d, X)) = Cardinality(X) * b
  BY SlotsEven
<1> QED BY <1>1, <1>2, <1>3

LEMMA Product ==
  ASSUME NEW k \in Nat, NEW a \in Nat, NEW b \in Nat
  PROVE  k * a \in Nat /\ k * b \in Nat /\ k * (b - a) = k * b - k * a
OBVIOUS

---------------------------------------------------------------------------
(* Buffers: the inductive invariant                                        *)

(* The freed profiles counted in a pool keep it from being removed.        *)
LeakGone == \A p \in BPool : ~HasPool(p) => leaked[p] = 0

BufInv == BufTypeOK /\ BufferChain /\ LeakGone /\ PoolBooked /\ UsersFollowProfile

(* The three counts of BufferChain by name.                                *)
UsersKnown == \A u \in User : userOf[u] # NoProf => HasProf(userOf[u])
ProfsCounted == \A f \in BProf : HasProf(f) => /\ HasPool(profs[f].pool)
                                              /\ profs[f].ref = Cardinality(UsersOf(f))
PoolsCounted == \A p \in BPool : HasPool(p) => pools[p].ref = Cardinality(ProfsIn(p)) + leaked[p]

LEMMA NodeFields ==
  ASSUME BufTypeOK
  PROVE  /\ \A p \in BPool : HasPool(p) =>
              /\ pools[p] \in PoolNode /\ pools[p].shared \in Int /\ pools[p].ref \in Nat
              /\ pools[p].size \in Nat /\ pools[p].xoff \in Nat /\ pools[p].xoff \in Xoff
         /\ \A f \in BProf : HasProf(f) =>
              /\ profs[f] \in ProfNode /\ profs[f].pool \in BPool /\ profs[f].ref \in Nat
              /\ profs[f].size \in Nat /\ profs[f].xoff \in Nat
         /\ \A f \in BProf : IsFiniteSet(UsersOf(f)) /\ Cardinality(UsersOf(f)) \in Nat
         /\ \A p \in BPool : IsFiniteSet(ProfsIn(p)) /\ Cardinality(ProfsIn(p)) \in Nat
<1>1. \A p \in BPool : HasPool(p) =>
              /\ pools[p] \in PoolNode /\ pools[p].shared \in Int /\ pools[p].ref \in Nat
              /\ pools[p].size \in Nat /\ pools[p].xoff \in Nat /\ pools[p].xoff \in Xoff
  <2> SUFFICES ASSUME NEW p \in BPool, HasPool(p)
      PROVE  /\ pools[p] \in PoolNode /\ pools[p].shared \in Int /\ pools[p].ref \in Nat
             /\ pools[p].size \in Nat /\ pools[p].xoff \in Nat /\ pools[p].xoff \in Xoff
    OBVIOUS
  <2>1. pools[p] \in PoolNode
    BY DEF BufTypeOK, HasPool
  <2> QED BY <2>1, BufferAssumption DEF PoolNode
<1>2. \A f \in BProf : HasProf(f) =>
              /\ profs[f] \in ProfNode /\ profs[f].pool \in BPool /\ profs[f].ref \in Nat
              /\ profs[f].size \in Nat /\ profs[f].xoff \in Nat
  <2> SUFFICES ASSUME NEW f \in BProf, HasProf(f)
      PROVE  /\ profs[f] \in ProfNode /\ profs[f].pool \in BPool /\ profs[f].ref \in Nat
             /\ profs[f].size \in Nat /\ profs[f].xoff \in Nat
    OBVIOUS
  <2>1. profs[f] \in ProfNode
    BY DEF BufTypeOK, HasProf
  <2> QED BY <2>1, BufferAssumption DEF ProfNode
<1>3. \A f \in BProf : IsFiniteSet(UsersOf(f)) /\ Cardinality(UsersOf(f)) \in Nat
  <2> SUFFICES ASSUME NEW f \in BProf
               PROVE  IsFiniteSet(UsersOf(f)) /\ Cardinality(UsersOf(f)) \in Nat
    OBVIOUS
  <2>1. UsersOf(f) \in SUBSET User
    BY DEF UsersOf
  <2> QED BY <2>1, BufferAssumption, FS_Subset, FS_CardinalityType
<1>4. \A p \in BPool : IsFiniteSet(ProfsIn(p)) /\ Cardinality(ProfsIn(p)) \in Nat
  <2> SUFFICES ASSUME NEW p \in BPool
               PROVE  IsFiniteSet(ProfsIn(p)) /\ Cardinality(ProfsIn(p)) \in Nat
    OBVIOUS
  <2>1. ProfsIn(p) \in SUBSET BProf
    BY DEF ProfsIn
  <2> QED BY <2>1, BufferAssumption, FS_Subset, FS_CardinalityType
<1> QED BY <1>1, <1>2, <1>3, <1>4

(* A profile in the tree charges its users a natural number; every user is *)
(* charged by a profile in the tree or not at all.                         *)
LEMMA ChargeType ==
  ASSUME BufTypeOK, BufferChain
  PROVE  /\ \A f \in BProf : HasProf(f) => Charge(pools, profs[f]) \in Nat
         /\ ChargeOf \in [User -> Nat]
         /\ \A u \in User : ChargeOf[u] = IF userOf[u] = NoProf THEN 0
                                          ELSE Charge(pools, profs[userOf[u]])
         /\ \A p : UsersIn(p) \in SUBSET User
<1>1. \A f \in BProf : HasProf(f) => Charge(pools, profs[f]) \in Nat
  <2> SUFFICES ASSUME NEW f \in BProf, HasProf(f)  PROVE Charge(pools, profs[f]) \in Nat
    OBVIOUS
  <2>1. profs[f].size \in Nat /\ profs[f].xoff \in Nat
    BY NodeFields
  <2> QED BY <2>1 DEF Charge, Reserved
<1>2. \A u \in User : userOf[u] # NoProf => userOf[u] \in BProf /\ HasProf(userOf[u])
  BY DEF BufTypeOK, BufferChain
<1>3. ChargeOf \in [User -> Nat]
  BY <1>1, <1>2 DEF ChargeOf
<1> QED BY <1>1, <1>3 DEF ChargeOf, UsersIn

LEMMA BookedType ==
  ASSUME BufTypeOK, BufferChain, NEW p
  PROVE  Booked(p) \in Nat
BY ChargeType, SlotsFinite DEF Booked

LEMMA BufInvInit == BufInit => BufInv
<1> SUFFICES ASSUME BufInit  PROVE BufInv
  OBVIOUS
<1>1. BufTypeOK
  BY DEF BufInit, BufTypeOK
<1>2. BufferChain
  BY DEF BufInit, BufferChain, HasProf, HasPool
<1>3. LeakGone
  BY DEF BufInit, LeakGone
<1>4. PoolBooked
  BY DEF BufInit, PoolBooked, HasPool
<1>5. UsersFollowProfile
  BY DEF BufInit, UsersFollowProfile
<1> QED BY <1>1, <1>2, <1>3, <1>4, <1>5 DEF BufInv

(* What is booked depends on who uses which profile and what it charges.   *)
LEMMA BookedSame ==
  ASSUME NEW p, UNCHANGED userOf,
         \A u \in User : userOf[u] # NoProf =>
           /\ profs'[userOf[u]].pool = profs[userOf[u]].pool
           /\ Charge(pools, profs[userOf[u]])' = Charge(pools, profs[userOf[u]])
  PROVE  Booked(p)' = Booked(p)
<1>1. UsersIn(p)' = UsersIn(p)
  BY DEF UsersIn
<1>2. ChargeOf' = ChargeOf
  BY DEF ChargeOf
<1> QED BY <1>1, <1>2 DEF Booked

LEMMA ResizedNode ==
  ASSUME NEW node, NEW size \in Int, NEW xoff \in Int,
         node = [dir |-> node.dir, mode |-> node.mode, size |-> node.size, xoff |-> node.xoff,
                 shared |-> node.shared, ref |-> node.ref],
         node.size \in Int, node.xoff \in Int, node.shared \in Int
  PROVE  Resized(node, size, xoff)
           = [dir |-> node.dir, mode |-> node.mode, size |-> size, xoff |-> xoff,
              shared |-> node.shared + size - node.size - xoff + node.xoff, ref |-> node.ref]
<1> DEFINE one == [node EXCEPT !.size = size]
           two == [one EXCEPT !.xoff = xoff]
           k == node.shared + size - node.size - xoff + node.xoff
<1>1. Resized(node, size, xoff) = [two EXCEPT !.shared = k]
  BY DEF Resized
<1> HIDE DEF k
<1>2. one = [dir |-> node.dir, mode |-> node.mode, size |-> size, xoff |-> node.xoff,
             shared |-> node.shared, ref |-> node.ref]
  OBVIOUS
<1> HIDE DEF one
<1>3. two = [dir |-> node.dir, mode |-> node.mode, size |-> size, xoff |-> xoff,
             shared |-> node.shared, ref |-> node.ref]
  BY <1>2
<1> HIDE DEF two
<1>4. [two EXCEPT !.shared = k]
        = [dir |-> node.dir, mode |-> node.mode, size |-> size, xoff |-> xoff,
           shared |-> k, ref |-> node.ref]
  BY <1>3
<1> QED BY <1>1, <1>4 DEF k

---------------------------------------------------------------------------
(* Buffers: the steps                                                      *)

LEMMA ChainSame ==
  ASSUME BufInv, UNCHANGED <<pools, profs, userOf, leaked, unbooked>>
  PROVE  BufferChain' /\ LeakGone' /\ PoolBooked'
<1>1. \A p : HasPool(p)' = HasPool(p) /\ UsersIn(p)' = UsersIn(p) /\ ProfsIn(p)' = ProfsIn(p)
  BY DEF HasPool, UsersIn, ProfsIn, HasProf
<1>2. \A f : HasProf(f)' = HasProf(f) /\ UsersOf(f)' = UsersOf(f)
  BY DEF HasProf, UsersOf
<1>3. ChargeOf' = ChargeOf
  BY DEF ChargeOf, Charge, Reserved
<1>4. \A p : Booked(p)' = Booked(p)
  BY <1>1, <1>3 DEF Booked
<1>5. BufferChain'
  BY <1>1, <1>2 DEF BufInv, BufferChain
<1>6. LeakGone'
  BY <1>1 DEF BufInv, LeakGone
<1>7. PoolBooked'
  BY <1>1, <1>4 DEF BufInv, PoolBooked
<1> QED BY <1>5, <1>6, <1>7

(* A pool that comes has no profile; one that goes has none left.          *)
LEMMA CreatePoolInv ==
  ASSUME BufInv, NEW p \in BPool, CreatePool(p)
  PROVE  BufInv'
<1> DEFINE Start(dir, mode) == [dir |-> dir, mode |-> mode, size |-> 0, xoff |-> 0,
                                shared |-> 0, ref |-> 0]
<1>0. BufTypeOK /\ BufferChain /\ LeakGone /\ PoolBooked /\ UsersFollowProfile /\ ~HasPool(p)
  BY DEF BufInv, CreatePool
<1>1. PICK dir \in {"in", "out"}, mode \in Mode, size \in PoolSize, xoff \in Xoff :
        /\ ValidPool(Resized(Start(dir, mode), size, xoff))
        /\ pools' = [pools EXCEPT ![p] = Resized(Start(dir, mode), size, xoff)]
  BY DEF CreatePool
<1> DEFINE node == Resized(Start(dir, mode), size, xoff)
<1>2. size \in Nat /\ xoff \in Nat
  BY BufferAssumption
<1>3. node = [dir |-> dir, mode |-> mode, size |-> size, xoff |-> xoff,
              shared |-> size - xoff, ref |-> 0]
  <2> DEFINE start == Start(dir, mode)
  <2>1. /\ start = [dir |-> start.dir, mode |-> start.mode, size |-> start.size,
                    xoff |-> start.xoff, shared |-> start.shared, ref |-> start.ref]
        /\ start.dir = dir /\ start.mode = mode /\ start.ref = 0
        /\ start.size = 0 /\ start.xoff = 0 /\ start.shared = 0
    OBVIOUS
  <2> HIDE DEF start
  <2>2. /\ size \in Int /\ xoff \in Int
        /\ start.size \in Int /\ start.xoff \in Int /\ start.shared \in Int
    BY <1>2, <2>1
  <2>3. Resized(start, size, xoff)
          = [dir |-> start.dir, mode |-> start.mode, size |-> size, xoff |-> xoff,
             shared |-> start.shared + size - start.size - xoff + start.xoff, ref |-> start.ref]
    BY <2>1, <2>2, ResizedNode, Zenon
  <2>4. start.shared + size - start.size - xoff + start.xoff = size - xoff
    BY <1>2, <2>1
  <2> QED BY <2>1, <2>3, <2>4 DEF start
<1>4. node \in PoolNode /\ node # NoNode
  BY <1>2, <1>3, BufferAssumption DEF PoolNode
<1>5. node.shared >= 0 /\ node.shared = node.size - node.xoff /\ node.ref = 0
  BY <1>1, <1>3 DEF ValidPool
<1>6. pools' = [pools EXCEPT ![p] = node]
  BY <1>1
<1> HIDE DEF node
<1>7. /\ pools' \in [BPool -> PoolNode \cup {NoNode}] /\ pools'[p] = node
      /\ \A q \in BPool \ {p} : pools'[q] = pools[q]
  BY <1>0, <1>4, <1>6 DEF BufTypeOK
<1>8. UNCHANGED <<profs, userOf, applied, pgs, req, leaked, unbooked, unrestored>>
  BY DEF CreatePool
<1>9. BufTypeOK'
  BY <1>0, <1>7, <1>8 DEF BufTypeOK
<1>10. \A f \in BProf : HasProf(f) => profs[f].pool \in BPool /\ profs[f].pool # p
  BY <1>0, NodeFields DEF BufferChain
<1>11. \A f \in BProf : HasProf(f)' = HasProf(f) /\ UsersOf(f)' = UsersOf(f)
  BY <1>8 DEF HasProf, UsersOf
<1>12. \A q \in BPool : ProfsIn(q)' = ProfsIn(q)
  BY <1>8 DEF ProfsIn, HasProf
<1>13. \A q \in BPool \ {p} : HasPool(q)' = HasPool(q)
  BY <1>7 DEF HasPool
<1>14. HasPool(p)'
  BY <1>4, <1>7 DEF HasPool
<1>15. ProfsIn(p) = {} /\ UsersIn(p) = {} /\ leaked[p] = 0
  BY <1>0, <1>10 DEF ProfsIn, UsersIn, BufferChain, BufTypeOK, LeakGone
<1>16. BufferChain'
  <2>1. UsersKnown'
    BY <1>0, <1>8 DEF BufferChain, HasProf, UsersKnown
  <2>2. ProfsCounted'
    BY <1>0, <1>7, <1>8, <1>10, <1>11 DEF BufferChain, ProfsCounted, HasPool
  <2>3. Cardinality(ProfsIn(p)) = 0
    BY <1>15, FS_EmptySet
  <2>4. pools'[p].ref = Cardinality(ProfsIn(p)') + leaked'[p]
    BY <1>5, <1>7, <1>8, <1>12, <1>15, <2>3
  <2>5. \A q \in BPool \ {p} : HasPool(q)' => pools'[q].ref = Cardinality(ProfsIn(q)') + leaked'[q]
    BY <1>0, <1>7, <1>8, <1>12, <1>13 DEF BufferChain
  <2> QED BY <2>1, <2>2, <2>4, <2>5 DEF BufferChain, UsersKnown, ProfsCounted
<1>17. LeakGone'
  BY <1>0, <1>8, <1>13, <1>14 DEF LeakGone
<1>18. ASSUME NEW f \in BProf, HasProf(f)  PROVE Charge(pools, profs[f])' = Charge(pools, profs[f])
  BY <1>7, <1>8, <1>10, <1>18 DEF Charge, Reserved
<1>19. \A q : Booked(q)' = Booked(q)
  <2>1. \A u \in User : userOf[u] # NoProf => userOf[u] \in BProf /\ HasProf(userOf[u])
    BY <1>0 DEF BufTypeOK, BufferChain
  <2> QED BY <1>8, <1>18, <2>1, BookedSame
<1>20. Booked(p) = 0
  <2>1. Slots(ChargeOf, UsersIn(p)) = {}
    BY <1>15 DEF Slots
  <2> QED BY <2>1, FS_EmptySet DEF Booked
<1>21. PoolBooked'
  <2>1. pools'[p].shared >= 0 /\ pools'[p].shared = pools'[p].size - pools'[p].xoff - Booked(p)'
    <3>1. node.size - node.xoff - 0 = node.size - node.xoff
      BY <1>2, <1>3
    <3> QED BY <1>5, <1>7, <1>19, <1>20, <3>1
  <2>2. ASSUME NEW q \in BPool \ {p}, HasPool(q)', unbooked'[q] = 0
        PROVE  pools'[q].shared >= 0 /\ pools'[q].shared = pools'[q].size - pools'[q].xoff - Booked(q)'
    BY <1>0, <1>7, <1>8, <1>13, <1>19, <2>2 DEF PoolBooked
  <2> QED BY <2>1, <2>2 DEF PoolBooked
<1>22. UsersFollowProfile'
  BY <1>0, <1>8 DEF UsersFollowProfile
<1> QED BY <1>9, <1>16, <1>17, <1>21, <1>22 DEF BufInv

LEMMA RemovePoolInv ==
  ASSUME BufInv, NEW p \in BPool, RemovePool(p)
  PROVE  BufInv'
<1>0. /\ BufTypeOK /\ BufferChain /\ LeakGone /\ PoolBooked /\ UsersFollowProfile
      /\ HasPool(p) /\ pools[p].ref = 0 /\ pools' = [pools EXCEPT ![p] = NoNode]
      /\ unbooked' = [unbooked EXCEPT ![p] = 0]
      /\ UNCHANGED <<profs, userOf, applied, pgs, req, leaked, unrestored>>
  BY DEF BufInv, RemovePool
<1>1. /\ pools' \in [BPool -> PoolNode \cup {NoNode}] /\ pools'[p] = NoNode
      /\ \A q \in BPool \ {p} : pools'[q] = pools[q]
      /\ unbooked' \in [BPool -> Nat] /\ \A q \in BPool \ {p} : unbooked'[q] = unbooked[q]
  BY <1>0 DEF BufTypeOK
<1>2. BufTypeOK'
  BY <1>0, <1>1 DEF BufTypeOK
<1>3. Cardinality(ProfsIn(p)) = 0 /\ leaked[p] = 0
  <2>1. leaked[p] \in Nat /\ Cardinality(ProfsIn(p)) \in Nat
    BY <1>0, NodeFields DEF BufTypeOK
  <2>2. 0 = Cardinality(ProfsIn(p)) + leaked[p]
    BY <1>0 DEF BufferChain
  <2> QED BY <2>1, <2>2
<1>4. ProfsIn(p) = {}
  BY <1>0, <1>3, NodeFields, FS_EmptySet
<1>5. \A f \in BProf : HasProf(f) => profs[f].pool \in BPool /\ profs[f].pool # p
  BY <1>0, <1>4, NodeFields DEF ProfsIn
<1>6. \A f \in BProf : HasProf(f)' = HasProf(f) /\ UsersOf(f)' = UsersOf(f)
  BY <1>0 DEF HasProf, UsersOf
<1>7. \A q \in BPool : ProfsIn(q)' = ProfsIn(q)
  BY <1>0 DEF ProfsIn, HasProf
<1>8. \A q \in BPool \ {p} : HasPool(q)' = HasPool(q)
  BY <1>1 DEF HasPool
<1>9. ~HasPool(p)'
  BY <1>1 DEF HasPool
<1>10. BufferChain'
  <2>1. UsersKnown'
    BY <1>0 DEF BufferChain, HasProf, UsersKnown
  <2>2. ProfsCounted'
    BY <1>0, <1>1, <1>5, <1>6 DEF BufferChain, ProfsCounted, HasPool
  <2>3. \A q \in BPool : HasPool(q)' => pools'[q].ref = Cardinality(ProfsIn(q)') + leaked'[q]
    BY <1>0, <1>1, <1>7, <1>8, <1>9 DEF BufferChain
  <2> QED BY <2>1, <2>2, <2>3 DEF BufferChain, UsersKnown, ProfsCounted
<1>11. LeakGone'
  BY <1>0, <1>3, <1>8 DEF LeakGone
<1>12. ASSUME NEW f \in BProf, HasProf(f)  PROVE Charge(pools, profs[f])' = Charge(pools, profs[f])
  BY <1>0, <1>1, <1>5, <1>12 DEF Charge, Reserved
<1>13. \A q : Booked(q)' = Booked(q)
  <2>1. \A u \in User : userOf[u] # NoProf => userOf[u] \in BProf /\ HasProf(userOf[u])
    BY <1>0 DEF BufTypeOK, BufferChain
  <2> QED BY <1>0, <1>12, <2>1, BookedSame
<1>14. PoolBooked'
  BY <1>0, <1>1, <1>8, <1>9, <1>13 DEF PoolBooked
<1>15. UsersFollowProfile'
  BY <1>0 DEF UsersFollowProfile
<1> QED BY <1>2, <1>10, <1>11, <1>14, <1>15 DEF BufInv

LEMMA SetPoolSizeInv ==
  ASSUME BufInv, NEW p \in BPool, SetPoolSize(p)
  PROVE  BufInv'
<1>0. /\ BufTypeOK /\ BufferChain /\ LeakGone /\ PoolBooked /\ UsersFollowProfile
      /\ HasPool(p)
      /\ UNCHANGED <<profs, userOf, applied, pgs, req, leaked, unbooked, unrestored>>
  BY DEF BufInv, SetPoolSize
<1>1. PICK size \in PoolSize :
        /\ ValidPool(Resized(pools[p], size, pools[p].xoff))
        /\ pools' = [pools EXCEPT ![p] = Resized(pools[p], size, pools[p].xoff)]
  BY DEF SetPoolSize
<1> DEFINE old == pools[p]
           node == Resized(old, size, old.xoff)
<1>2. /\ old \in PoolNode /\ old.shared \in Int /\ old.ref \in Nat /\ old.size \in Nat
      /\ old.xoff \in Nat /\ old.xoff \in Xoff /\ size \in Nat
  BY <1>0, NodeFields, BufferAssumption
<1>3. /\ node \in PoolNode /\ node.size = size /\ node.xoff = old.xoff /\ node.ref = old.ref
      /\ node.shared = old.shared + size - old.size
  <2> HIDE DEF old
  <2>1. old = [dir |-> old.dir, mode |-> old.mode, size |-> old.size, xoff |-> old.xoff,
               shared |-> old.shared, ref |-> old.ref]
        /\ old.dir \in {"in", "out"} /\ old.mode \in Mode
    BY <1>2 DEF PoolNode
  <2>2. node = [dir |-> old.dir, mode |-> old.mode, size |-> size, xoff |-> old.xoff,
                shared |-> old.shared + size - old.size - old.xoff + old.xoff, ref |-> old.ref]
    <3>1. /\ size \in Int /\ old.xoff \in Int /\ old.size \in Int /\ old.shared \in Int
      BY <1>2
    <3> QED BY <2>1, <3>1, ResizedNode, Zenon
  <2>3. old.shared + size - old.size - old.xoff + old.xoff = old.shared + size - old.size
        /\ old.shared + size - old.size \in Int
    BY <1>2
  <2>4. node = [dir |-> old.dir, mode |-> old.mode, size |-> size, xoff |-> old.xoff,
                shared |-> old.shared + size - old.size, ref |-> old.ref]
    BY <2>2, <2>3
  <2> HIDE DEF node
  <2> QED BY <1>2, <2>1, <2>3, <2>4 DEF PoolNode
<1>4. node # NoNode /\ node.shared >= 0
  BY <1>1, <1>3, BufferAssumption DEF ValidPool
<1>5. pools' = [pools EXCEPT ![p] = node]
  BY <1>1
<1> HIDE DEF node, old
<1>6. /\ pools' \in [BPool -> PoolNode \cup {NoNode}] /\ pools'[p] = node
      /\ \A q \in BPool \ {p} : pools'[q] = pools[q]
  BY <1>0, <1>3, <1>5 DEF BufTypeOK
<1>7. BufTypeOK'
  BY <1>0, <1>6 DEF BufTypeOK
<1>8. \A q \in BPool : /\ HasPool(q)' = HasPool(q)
                       /\ HasPool(q) => pools'[q].xoff = pools[q].xoff /\ pools'[q].ref = pools[q].ref
  BY <1>0, <1>3, <1>4, <1>6 DEF HasPool, old
<1>9. \A f \in BProf : HasProf(f)' = HasProf(f) /\ UsersOf(f)' = UsersOf(f)
  BY <1>0 DEF HasProf, UsersOf
<1>10. \A q \in BPool : ProfsIn(q)' = ProfsIn(q)
  BY <1>0 DEF ProfsIn, HasProf
<1>11. \A f \in BProf : HasProf(f) => profs[f].pool \in BPool /\ HasPool(profs[f].pool)
  BY <1>0, NodeFields DEF BufferChain
<1>12. BufferChain'
  <2>1. UsersKnown'
    BY <1>0 DEF BufferChain, HasProf, UsersKnown
  <2>2. ProfsCounted'
    BY <1>0, <1>8, <1>9, <1>11 DEF BufferChain, ProfsCounted, HasPool
  <2>3. \A q \in BPool : HasPool(q)' => pools'[q].ref = Cardinality(ProfsIn(q)') + leaked'[q]
    BY <1>0, <1>8, <1>10 DEF BufferChain
  <2> QED BY <2>1, <2>2, <2>3 DEF BufferChain, UsersKnown, ProfsCounted
<1>13. LeakGone'
  BY <1>0, <1>8 DEF LeakGone
<1>14. ASSUME NEW f \in BProf, HasProf(f)  PROVE Charge(pools, profs[f])' = Charge(pools, profs[f])
  BY <1>0, <1>8, <1>11, <1>14 DEF Charge, Reserved
<1>15. \A q : Booked(q)' = Booked(q)
  <2>1. \A u \in User : userOf[u] # NoProf => userOf[u] \in BProf /\ HasProf(userOf[u])
    BY <1>0 DEF BufTypeOK, BufferChain
  <2> QED BY <1>0, <1>14, <2>1, BookedSame
<1>16. PoolBooked'
  <2>1. ASSUME unbooked'[p] = 0
        PROVE  pools'[p].shared >= 0 /\ pools'[p].shared = pools'[p].size - pools'[p].xoff - Booked(p)'
    <3>1. old.shared = old.size - old.xoff - Booked(p) /\ Booked(p) \in Nat
      BY <1>0, <2>1, BookedType DEF PoolBooked, old
    <3>2. old.shared + size - old.size = size - old.xoff - Booked(p)
      BY <1>2, <3>1
    <3> QED BY <1>3, <1>4, <1>6, <1>15, <3>2
  <2>2. ASSUME NEW q \in BPool \ {p}, HasPool(q)', unbooked'[q] = 0
        PROVE  pools'[q].shared >= 0 /\ pools'[q].shared = pools'[q].size - pools'[q].xoff - Booked(q)'
    BY <1>0, <1>6, <1>8, <1>15, <2>2 DEF PoolBooked
  <2> QED BY <2>1, <2>2 DEF PoolBooked
<1>17. UsersFollowProfile'
  BY <1>0 DEF UsersFollowProfile
<1> QED BY <1>7, <1>12, <1>13, <1>16, <1>17 DEF BufInv

(* One field of a node is set.                                             *)
LEMMA PoolEdit ==
  ASSUME NEW node \in PoolNode
  PROVE  /\ \A k \in Nat : LET new == [node EXCEPT !.ref = k] IN
              /\ new \in PoolNode /\ new.ref = k /\ new.shared = node.shared
              /\ new.size = node.size /\ new.xoff = node.xoff
         /\ \A k \in Int : LET new == [node EXCEPT !.shared = k] IN
              /\ new \in PoolNode /\ new.ref = node.ref /\ new.shared = k
              /\ new.size = node.size /\ new.xoff = node.xoff
BY DEF PoolNode

LEMMA ProfEdit ==
  ASSUME NEW prof \in ProfNode
  PROVE  /\ \A k \in Nat : LET new == [prof EXCEPT !.ref = k] IN
              /\ new \in ProfNode /\ new.ref = k /\ new.pool = prof.pool
              /\ new.size = prof.size /\ new.xoff = prof.xoff /\ new.val = prof.val
         /\ \A k \in BVal : LET new == [prof EXCEPT !.val = k] IN
              /\ new \in ProfNode /\ new.ref = prof.ref /\ new.pool = prof.pool
              /\ new.size = prof.size /\ new.xoff = prof.xoff /\ new.val = k
         /\ \A k \in ThKind : LET new == [prof EXCEPT !.th = k] IN
              /\ new \in ProfNode /\ new.ref = prof.ref /\ new.pool = prof.pool
              /\ new.size = prof.size /\ new.xoff = prof.xoff /\ new.val = prof.val
         /\ \A k \in BPool : LET new == [prof EXCEPT !.pool = k] IN
              /\ new \in ProfNode /\ new.ref = prof.ref /\ new.pool = k
              /\ new.size = prof.size /\ new.xoff = prof.xoff /\ new.val = prof.val
BY DEF ProfNode

LEMMA CheckProfileInv ==
  ASSUME BufInv, CheckProfile
  PROVE  BufInv'
<1>1. BufTypeOK'
  BY DEF BufInv, BufTypeOK, CheckProfile
<1>2. BufferChain' /\ LeakGone' /\ PoolBooked'
  BY ChainSame DEF CheckProfile
<1>3. UsersFollowProfile'
  BY DEF BufInv, UsersFollowProfile, CheckProfile
<1> QED BY <1>1, <1>2, <1>3 DEF BufInv

LEMMA CreatePgInv ==
  ASSUME BufInv, NEW u \in BPg, CreatePg(u)
  PROVE  BufInv'
<1>1. BufTypeOK'
  BY DEF BufInv, BufTypeOK, CreatePg
<1>2. BufferChain' /\ LeakGone' /\ PoolBooked'
  BY ChainSame DEF CreatePg
<1>3. UsersFollowProfile'
  BY DEF BufInv, UsersFollowProfile, CreatePg
<1> QED BY <1>1, <1>2, <1>3 DEF BufInv

(* A pool counts a new profile, freed or not.                              *)
LEMMA CreateProfileInv ==
  ASSUME BufInv, NEW f \in BProf, CreateProfile(f)
  PROVE  BufInv'
<1>0. /\ BufTypeOK /\ BufferChain /\ LeakGone /\ PoolBooked /\ UsersFollowProfile
      /\ req # NoReq /\ ~HasProf(f) /\ req' = NoReq
      /\ UNCHANGED <<userOf, applied, pgs, unbooked, unrestored>>
  BY DEF BufInv, CreateProfile
<1>1. PICK r \in BPool : r = req.pool
  BY <1>0 DEF BufTypeOK, Request
<1>2. CASE ~HasPool(r)
  <2>1. UNCHANGED <<pools, profs, leaked>>
    BY <1>1, <1>2 DEF CreateProfile
  <2>2. BufTypeOK'
    BY <1>0, <2>1 DEF BufTypeOK
  <2>3. BufferChain' /\ LeakGone' /\ PoolBooked'
    BY <1>0, <2>1, ChainSame
  <2>4. UsersFollowProfile'
    BY <1>0, <2>1 DEF UsersFollowProfile
  <2> QED BY <2>2, <2>3, <2>4 DEF BufInv
<1>3. CASE HasPool(r)
  <2>1. PICK ok \in BOOLEAN, size \in ProfSize, xoff \in Xoff, v \in BVal, th \in ThKind :
          /\ pools' = [pools EXCEPT ![r].ref = @ + 1]
          /\ profs' = IF ok THEN [profs EXCEPT ![f] =
                        [pool |-> r, size |-> size, xoff |-> xoff,
                         th |-> th, val |-> v, ref |-> 0]] ELSE profs
          /\ leaked' = IF ok THEN leaked ELSE [leaked EXCEPT ![r] = @ + 1]
    BY <1>1, <1>3 DEF CreateProfile
  <2> DEFINE node == [pools[r] EXCEPT !.ref = pools[r].ref + 1]
             prof == [pool |-> r, size |-> size, xoff |-> xoff, th |-> th, val |-> v, ref |-> 0]
  <2>2. pools[r] \in PoolNode /\ pools[r].ref \in Nat
    BY <1>0, <1>1, <1>3, NodeFields
  <2>3. /\ node \in PoolNode /\ node.ref = pools[r].ref + 1 /\ node.shared = pools[r].shared
        /\ node.size = pools[r].size /\ node.xoff = pools[r].xoff /\ node # NoNode
    BY <2>2, PoolEdit, BufferAssumption
  <2>4. pools' = [pools EXCEPT ![r] = node]
    BY <1>1, <2>1
  <2>5. prof \in ProfNode /\ prof.pool = r /\ prof.ref = 0 /\ prof # NoNode
    BY <1>1, BufferAssumption DEF ProfNode
  <2>6. profs' = IF ok THEN [profs EXCEPT ![f] = prof] ELSE profs
    BY <2>1
  <2> HIDE DEF node, prof
  <2>7. /\ pools' \in [BPool -> PoolNode \cup {NoNode}] /\ pools'[r] = node
        /\ \A q \in BPool \ {r} : pools'[q] = pools[q]
    BY <1>0, <1>1, <2>3, <2>4 DEF BufTypeOK
  <2>8. /\ profs' \in [BProf -> ProfNode \cup {NoNode}] /\ (ok => profs'[f] = prof)
        /\ (~ok => profs' = profs)
        /\ \A g \in BProf \ {f} : profs'[g] = profs[g]
    BY <1>0, <2>5, <2>6 DEF BufTypeOK
  <2>9. /\ leaked' \in [BPool -> Nat] /\ leaked'[r] = leaked[r] + (IF ok THEN 0 ELSE 1)
        /\ \A q \in BPool \ {r} : leaked'[q] = leaked[q]
    BY <1>0, <1>1, <2>1 DEF BufTypeOK
  <2>10. BufTypeOK'
    BY <1>0, <2>7, <2>8, <2>9 DEF BufTypeOK
  <2>11. \A q \in BPool : /\ HasPool(q)' = HasPool(q)
                          /\ HasPool(q) => /\ pools'[q].xoff = pools[q].xoff
                                           /\ pools'[q].shared = pools[q].shared
                                           /\ pools'[q].size = pools[q].size
    BY <1>3, <2>3, <2>7 DEF HasPool
  <2>12. \A g \in BProf : HasProf(g) => /\ g # f /\ profs'[g] = profs[g] /\ HasProf(g)'
                                        /\ profs[g].pool \in BPool /\ HasPool(profs[g].pool)
    BY <1>0, <2>8, NodeFields DEF BufferChain, HasProf
  <2>13. \A u \in User : userOf[u] # NoProf => userOf[u] \in BProf /\ HasProf(userOf[u])
    BY <1>0 DEF BufTypeOK, BufferChain
  <2>14. UsersKnown'
    BY <1>0, <2>12, <2>13 DEF UsersKnown, HasProf
  <2>15. ProfsCounted'
    <3> SUFFICES ASSUME NEW g \in BProf, profs'[g] # NoNode
                 PROVE  /\ pools'[profs'[g].pool] # NoNode
                        /\ profs'[g].ref = Cardinality(UsersOf(g)')
      BY DEF ProfsCounted, HasPool, HasProf
    <3>1. UsersOf(g)' = UsersOf(g)
      BY <1>0 DEF UsersOf
    <3>2. CASE HasProf(g)
      <4>1. profs[g].ref = Cardinality(UsersOf(g))
        BY <1>0, <3>2 DEF BufferChain
      <4> QED BY <2>11, <2>12, <3>1, <3>2, <4>1 DEF HasPool
    <3>3. CASE ~HasProf(g)
      <4>1. g = f /\ ok
        BY <2>8, <3>3 DEF HasProf
      <4>2. UsersOf(f) = {}
        BY <1>0, <2>13, BufferAssumption DEF UsersOf
      <4> QED BY <2>3, <2>5, <2>7, <2>8, <3>1, <4>1, <4>2, FS_EmptySet
    <3> QED BY <3>2, <3>3
  <2>16. PoolsCounted'
    <3> SUFFICES ASSUME NEW q \in BPool, HasPool(q)
                 PROVE  pools'[q].ref = Cardinality(ProfsIn(q)') + leaked'[q]
      BY <2>11 DEF PoolsCounted
    <3>1. pools[q].ref = Cardinality(ProfsIn(q)) + leaked[q]
      BY <1>0 DEF BufferChain
    <3>2. IsFiniteSet(ProfsIn(q)) /\ Cardinality(ProfsIn(q)) \in Nat /\ leaked[q] \in Nat
      BY <1>0, NodeFields DEF BufTypeOK
    <3>3. CASE q # r \/ ~ok
      <4>1. ProfsIn(q)' = ProfsIn(q)
        BY <1>0, <2>5, <2>8, <2>12, <3>3 DEF ProfsIn, HasProf
      <4> QED BY <2>3, <2>7, <2>9, <3>1, <3>2, <3>3, <4>1
    <3>4. CASE q = r /\ ok
      <4>1. ProfsIn(r)' = ProfsIn(r) \cup {f}
        BY <1>0, <2>5, <2>8, <2>12, <3>4 DEF ProfsIn, HasProf
      <4>2. f \notin ProfsIn(r)
        BY <1>0 DEF ProfsIn
      <4>3. Cardinality(ProfsIn(r)') = Cardinality(ProfsIn(r)) + 1
        BY <3>2, <3>4, <4>1, <4>2, FS_AddElement
      <4> QED BY <2>3, <2>7, <2>9, <3>1, <3>2, <3>4, <4>3
    <3> QED BY <3>3, <3>4
  <2>17. BufferChain'
    BY <2>14, <2>15, <2>16 DEF BufferChain, UsersKnown, ProfsCounted, PoolsCounted
  <2>18. LeakGone'
    BY <1>0, <1>3, <2>9, <2>11 DEF LeakGone
  <2>19. ASSUME NEW g \in BProf, HasProf(g)  PROVE Charge(pools, profs[g])' = Charge(pools, profs[g])
    BY <2>11, <2>12, <2>19 DEF Charge, Reserved
  <2>20. \A q : Booked(q)' = Booked(q)
    BY <1>0, <2>12, <2>13, <2>19, BookedSame
  <2>21. PoolBooked'
    BY <1>0, <2>11, <2>20 DEF PoolBooked
  <2>22. UsersFollowProfile'
    BY <1>0, <2>12, <2>13 DEF UsersFollowProfile
  <2> QED BY <2>10, <2>17, <2>18, <2>21, <2>22 DEF BufInv
<1> QED BY <1>2, <1>3

LEMMA RemoveProfileInv ==
  ASSUME BufInv, NEW f \in BProf, RemoveProfile(f)
  PROVE  BufInv'
<1>0. /\ BufTypeOK /\ BufferChain /\ LeakGone /\ PoolBooked /\ UsersFollowProfile
      /\ HasProf(f) /\ profs[f].ref = 0
      /\ pools' = [pools EXCEPT ![profs[f].pool].ref = @ - 1]
      /\ profs' = [profs EXCEPT ![f] = NoNode] /\ unrestored' = unrestored \ {f}
      /\ UNCHANGED <<userOf, applied, pgs, req, leaked, unbooked>>
  BY DEF BufInv, RemoveProfile
<1>1. PICK r \in BPool : r = profs[f].pool
  BY <1>0, NodeFields
<1>2. HasPool(r) /\ f \in ProfsIn(r) /\ UsersOf(f) = {}
  <2>1. HasPool(r) /\ Cardinality(UsersOf(f)) = 0
    BY <1>0, <1>1 DEF BufferChain
  <2> QED BY <1>0, <1>1, <2>1, NodeFields, FS_EmptySet DEF ProfsIn
<1>3. /\ pools[r] \in PoolNode /\ pools[r].ref \in Nat /\ leaked[r] \in Nat
      /\ pools[r].ref = Cardinality(ProfsIn(r)) + leaked[r]
  BY <1>0, <1>2, NodeFields DEF BufTypeOK, BufferChain
<1>4. Cardinality(ProfsIn(r)) \in Nat /\ Cardinality(ProfsIn(r)) # 0 /\ IsFiniteSet(ProfsIn(r))
  BY <1>0, <1>2, NodeFields, FS_EmptySet
<1>5. pools[r].ref - 1 \in Nat
  BY <1>3, <1>4
<1> DEFINE node == [pools[r] EXCEPT !.ref = pools[r].ref - 1]
<1>6. /\ node \in PoolNode /\ node.ref = pools[r].ref - 1 /\ node.shared = pools[r].shared
      /\ node.size = pools[r].size /\ node.xoff = pools[r].xoff /\ node # NoNode
  BY <1>3, <1>5, PoolEdit, BufferAssumption
<1>7. pools' = [pools EXCEPT ![r] = node]
  BY <1>0, <1>1
<1> HIDE DEF node
<1>8. /\ pools' \in [BPool -> PoolNode \cup {NoNode}] /\ pools'[r] = node
      /\ \A q \in BPool \ {r} : pools'[q] = pools[q]
  BY <1>0, <1>6, <1>7 DEF BufTypeOK
<1>9. /\ profs' \in [BProf -> ProfNode \cup {NoNode}] /\ profs'[f] = NoNode
      /\ \A g \in BProf \ {f} : profs'[g] = profs[g]
  BY <1>0 DEF BufTypeOK
<1>10. BufTypeOK'
  BY <1>0, <1>8, <1>9 DEF BufTypeOK
<1>11. \A q \in BPool : /\ HasPool(q)' = HasPool(q)
                        /\ HasPool(q) => /\ pools'[q].xoff = pools[q].xoff
                                         /\ pools'[q].shared = pools[q].shared
                                         /\ pools'[q].size = pools[q].size
  BY <1>2, <1>6, <1>8 DEF HasPool
<1>12. \A g \in BProf : HasProf(g) => profs[g].pool \in BPool /\ HasPool(profs[g].pool)
  BY <1>0, NodeFields DEF BufferChain
<1>13. \A u \in User : userOf[u] # NoProf =>
         userOf[u] \in BProf /\ HasProf(userOf[u]) /\ userOf[u] # f
  BY <1>0, <1>2 DEF BufTypeOK, BufferChain, UsersOf
<1>14. UsersKnown'
  BY <1>0, <1>9, <1>13 DEF UsersKnown, HasProf
<1>15. ProfsCounted'
  <2> SUFFICES ASSUME NEW g \in BProf, profs'[g] # NoNode
               PROVE  /\ pools'[profs'[g].pool] # NoNode
                      /\ profs'[g].ref = Cardinality(UsersOf(g)')
    BY DEF ProfsCounted, HasPool, HasProf
  <2>1. UsersOf(g)' = UsersOf(g)
    BY <1>0 DEF UsersOf
  <2>2. g # f /\ HasProf(g) /\ profs[g].ref = Cardinality(UsersOf(g))
    BY <1>0, <1>9 DEF BufferChain, HasProf
  <2> QED BY <1>9, <1>11, <1>12, <2>1, <2>2 DEF HasPool
<1>16. PoolsCounted'
  <2> SUFFICES ASSUME NEW q \in BPool, HasPool(q)
               PROVE  pools'[q].ref = Cardinality(ProfsIn(q)') + leaked'[q]
    BY <1>11 DEF PoolsCounted
  <2>1. ProfsIn(q)' = ProfsIn(q) \ {f}
    BY <1>9 DEF ProfsIn, HasProf
  <2>2. CASE q = r
    <3>1. Cardinality(ProfsIn(r)') = Cardinality(ProfsIn(r)) - 1
      BY <1>2, <1>4, <2>1, <2>2, FS_RemoveElement
    <3> QED BY <1>0, <1>3, <1>4, <1>6, <1>8, <2>2, <3>1
  <2>3. CASE q # r
    <3>1. ProfsIn(q)' = ProfsIn(q)
      BY <1>1, <2>1, <2>3 DEF ProfsIn
    <3> QED BY <1>0, <1>8, <2>3, <3>1 DEF BufferChain
  <2> QED BY <2>2, <2>3
<1>17. BufferChain'
  BY <1>14, <1>15, <1>16 DEF BufferChain, UsersKnown, ProfsCounted, PoolsCounted
<1>18. LeakGone'
  BY <1>0, <1>11 DEF LeakGone
<1>19. ASSUME NEW g \in BProf, HasProf(g), g # f
       PROVE  Charge(pools, profs[g])' = Charge(pools, profs[g])
  BY <1>9, <1>11, <1>12, <1>19 DEF Charge, Reserved
<1>20. \A q : Booked(q)' = Booked(q)
  BY <1>0, <1>9, <1>13, <1>19, BookedSame
<1>21. PoolBooked'
  BY <1>0, <1>11, <1>20 DEF PoolBooked
<1>22. UsersFollowProfile'
  BY <1>0, <1>9, <1>13 DEF UsersFollowProfile
<1> QED BY <1>10, <1>17, <1>18, <1>21, <1>22 DEF BufInv

(* A profile changes what its users and pool do not count.                 *)
LEMMA ProfValueSame ==
  ASSUME BufInv, NEW f \in BProf, HasProf(f), NEW prof \in ProfNode,
         profs' = [profs EXCEPT ![f] = prof],
         prof.pool = profs[f].pool, prof.ref = profs[f].ref,
         prof.size = profs[f].size, prof.xoff = profs[f].xoff,
         UNCHANGED <<pools, userOf, leaked, unbooked>>
  PROVE  /\ profs' \in [BProf -> ProfNode \cup {NoNode}]
         /\ BufferChain' /\ LeakGone' /\ PoolBooked'
<1>0. BufTypeOK /\ BufferChain /\ LeakGone /\ PoolBooked
  BY DEF BufInv
<1>1. prof # NoNode
  BY BufferAssumption
<1>2. /\ profs' \in [BProf -> ProfNode \cup {NoNode}] /\ profs'[f] = prof
      /\ \A g \in BProf \ {f} : profs'[g] = profs[g]
  BY <1>0 DEF BufTypeOK
<1>3. \A g \in BProf : /\ HasProf(g)' = HasProf(g) /\ UsersOf(g)' = UsersOf(g)
                       /\ HasProf(g) => /\ profs'[g].pool = profs[g].pool
                                        /\ profs'[g].ref = profs[g].ref
                                        /\ profs'[g].size = profs[g].size
                                        /\ profs'[g].xoff = profs[g].xoff
  BY <1>1, <1>2 DEF HasProf, UsersOf
<1>4. \A p \in BPool : HasPool(p)' = HasPool(p) /\ ProfsIn(p)' = ProfsIn(p)
  BY <1>3 DEF HasPool, ProfsIn
<1>5. \A u \in User : userOf[u] # NoProf => userOf[u] \in BProf /\ HasProf(userOf[u])
  BY <1>0 DEF BufTypeOK, BufferChain
<1>6. UsersKnown'
  BY <1>3, <1>5 DEF UsersKnown, HasProf
<1>7. ProfsCounted'
  BY <1>0, <1>3 DEF ProfsCounted, BufferChain, HasProf, HasPool
<1>8. PoolsCounted'
  BY <1>0, <1>4 DEF PoolsCounted, BufferChain
<1>9. BufferChain'
  BY <1>6, <1>7, <1>8 DEF BufferChain, UsersKnown, ProfsCounted, PoolsCounted
<1>10. LeakGone'
  BY <1>0, <1>4 DEF LeakGone
<1>11. ASSUME NEW g \in BProf, HasProf(g)  PROVE Charge(pools, profs[g])' = Charge(pools, profs[g])
  BY <1>3, <1>11 DEF Charge, Reserved
<1>12. \A q : Booked(q)' = Booked(q)
  BY <1>3, <1>5, <1>11, BookedSame
<1>13. PoolBooked'
  BY <1>0, <1>4, <1>12 DEF PoolBooked
<1> QED BY <1>2, <1>9, <1>10, <1>13

LEMMA SetThresholdModeInv ==
  ASSUME BufInv, NEW f \in BProf, SetThresholdMode(f)
  PROVE  BufInv'
<1>1. PICK th \in ThKind : profs' = [profs EXCEPT ![f].th = th]
  BY DEF SetThresholdMode
<1>2. HasProf(f) /\ UNCHANGED <<pools, userOf, applied, pgs, req, leaked, unbooked, unrestored>>
  BY DEF SetThresholdMode
<1> DEFINE prof == [profs[f] EXCEPT !.th = th]
<1>3. /\ prof \in ProfNode /\ prof.pool = profs[f].pool /\ prof.ref = profs[f].ref
      /\ prof.size = profs[f].size /\ prof.xoff = profs[f].xoff /\ prof.val = profs[f].val
  BY <1>2, NodeFields, ProfEdit DEF BufInv
<1>4. profs' = [profs EXCEPT ![f] = prof]
  BY <1>1
<1> HIDE DEF prof
<1>5. profs' \in [BProf -> ProfNode \cup {NoNode}] /\ BufferChain' /\ LeakGone' /\ PoolBooked'
  BY <1>2, <1>3, <1>4, ProfValueSame
<1>6. BufTypeOK'
  BY <1>2, <1>5 DEF BufInv, BufTypeOK
<1>7. UsersFollowProfile'
  <2>1. \A g \in BProf : profs'[g].val = profs[g].val
    BY <1>3, <1>4 DEF BufInv, BufTypeOK
  <2> QED BY <1>2, <2>1 DEF BufInv, BufTypeOK, UsersFollowProfile
<1> QED BY <1>5, <1>6, <1>7 DEF BufInv

(* Who is left with the new value after an update is one of those asked,   *)
(* and all of them after one that went through.                            *)
LEMMA ReachedMeans ==
  ASSUME NEW S, NEW r \in Reached(S)
  PROVE  r.at \subseteq S /\ r.ok \in BOOLEAN /\ (r.ok => r.at = S)
<1>1. CASE r = [ok |-> TRUE, at |-> S]
  BY <1>1
<1>2. CASE \E bad \in S : \E s \in SUBSET {u \in S \ {bad} : Rank(u) <= Rank(bad)} :
             r = [ok |-> FALSE, at |-> s]
  BY <1>2
<1> QED BY <1>1, <1>2 DEF Reached

LEMMA SetThresholdInv ==
  ASSUME BufInv, NEW f \in BProf, SetThreshold(f)
  PROVE  BufInv'
<1>1. HasProf(f) /\ UNCHANGED <<pools, userOf, pgs, req, leaked, unbooked>>
  BY DEF SetThreshold
<1>2. CASE UNCHANGED <<profs, applied, unrestored>>
  <2>1. BufTypeOK'
    BY <1>1, <1>2 DEF BufInv, BufTypeOK
  <2>2. BufferChain' /\ LeakGone' /\ PoolBooked'
    BY <1>1, <1>2, ChainSame
  <2>3. UsersFollowProfile'
    BY <1>1, <1>2 DEF BufInv, UsersFollowProfile
  <2> QED BY <2>1, <2>2, <2>3 DEF BufInv
<1>3. CASE \E v \in BVal : \E r \in Reached(UsersOf(f)) :
             /\ applied' = [u \in User |-> IF u \in r.at THEN v ELSE applied[u]]
             /\ profs' = IF r.ok THEN [profs EXCEPT ![f].val = v] ELSE profs
             /\ unrestored' = IF r.ok THEN unrestored \ {f}
                        ELSE IF r.at # {} THEN unrestored \cup {f} ELSE unrestored
  <2>1. PICK v \in BVal : \E r \in Reached(UsersOf(f)) :
             /\ applied' = [u \in User |-> IF u \in r.at THEN v ELSE applied[u]]
             /\ profs' = IF r.ok THEN [profs EXCEPT ![f].val = v] ELSE profs
             /\ unrestored' = IF r.ok THEN unrestored \ {f}
                        ELSE IF r.at # {} THEN unrestored \cup {f} ELSE unrestored
    BY <1>3
  <2>2. PICK r \in Reached(UsersOf(f)) :
             /\ applied' = [u \in User |-> IF u \in r.at THEN v ELSE applied[u]]
             /\ profs' = IF r.ok THEN [profs EXCEPT ![f].val = v] ELSE profs
             /\ unrestored' = IF r.ok THEN unrestored \ {f}
                        ELSE IF r.at # {} THEN unrestored \cup {f} ELSE unrestored
    BY <2>1
  <2>3. r.at \subseteq UsersOf(f) /\ r.ok \in BOOLEAN /\ (r.ok => r.at = UsersOf(f))
    BY ReachedMeans
  <2> DEFINE prof == [profs[f] EXCEPT !.val = v]
  <2>4. /\ prof \in ProfNode /\ prof.pool = profs[f].pool /\ prof.ref = profs[f].ref
        /\ prof.size = profs[f].size /\ prof.xoff = profs[f].xoff /\ prof.val = v
    BY <1>1, NodeFields, ProfEdit DEF BufInv
  <2>5. profs' = IF r.ok THEN [profs EXCEPT ![f] = prof] ELSE profs
    BY <2>2
  <2> HIDE DEF prof
  <2>6. profs' \in [BProf -> ProfNode \cup {NoNode}] /\ BufferChain' /\ LeakGone' /\ PoolBooked'
    <3>1. CASE r.ok
      BY <1>1, <2>4, <2>5, <3>1, ProfValueSame
    <3>2. CASE ~r.ok
      BY <1>1, <2>5, <3>2, ChainSame DEF BufInv, BufTypeOK
    <3> QED BY <3>1, <3>2
  <2>7. applied' \in [User -> BVal \cup {NoBVal}] /\ unrestored' \subseteq BProf
    BY <2>2 DEF BufInv, BufTypeOK
  <2>8. BufTypeOK'
    BY <1>1, <2>6, <2>7 DEF BufInv, BufTypeOK
  <2>9. UsersFollowProfile'
    <3> SUFFICES ASSUME NEW u \in User, userOf[u] # NoProf, userOf[u] \notin unrestored'
                 PROVE  applied'[u] = profs'[userOf[u]].val
      BY <1>1 DEF UsersFollowProfile
    <3>1. userOf[u] \in BProf
      BY DEF BufInv, BufTypeOK
    <3>2. CASE userOf[u] # f
      <4>1. u \notin r.at /\ profs'[userOf[u]] = profs[userOf[u]] /\ userOf[u] \notin unrestored
        BY <2>2, <2>3, <2>5, <3>1, <3>2 DEF UsersOf, BufInv, BufTypeOK
      <4> QED BY <2>2, <4>1 DEF BufInv, UsersFollowProfile
    <3>3. CASE userOf[u] = f /\ r.ok
      <4>1. u \in r.at /\ profs'[f] = prof
        BY <2>3, <2>5, <3>3 DEF UsersOf, BufInv, BufTypeOK
      <4> QED BY <2>2, <2>4, <3>3, <4>1
    <3>4. CASE userOf[u] = f /\ ~r.ok
      <4>1. r.at = {} /\ f \notin unrestored /\ profs' = profs
        BY <2>2, <2>5, <3>4
      <4> QED BY <2>2, <3>4, <4>1 DEF BufInv, UsersFollowProfile
    <3> QED BY <3>2, <3>3, <3>4
  <2> QED BY <2>6, <2>8, <2>9 DEF BufInv
<1> QED BY <1>2, <1>3 DEF SetThreshold

(* A booking changes what is left of one pool, by n, or nothing.           *)
LEMMA RecalcMeans ==
  ASSUME NEW pl \in [BPool -> PoolNode \cup {NoNode}], NEW p, NEW n \in Int, NEW ok \in BOOLEAN,
         p \in BPool => pl[p] # NoNode
  PROVE  LET new == Recalc(pl, p, n, ok) IN
         /\ new \in [BPool -> PoolNode \cup {NoNode}]
         /\ \A q \in BPool : q # p => new[q] = pl[q]
         /\ \A q \in BPool : pl[q] # NoNode =>
              /\ new[q] # NoNode /\ new[q].ref = pl[q].ref /\ new[q].size = pl[q].size
              /\ new[q].xoff = pl[q].xoff /\ new[q].shared \in Int
         /\ \A q \in BPool : pl[q] = NoNode => new[q] = NoNode
         /\ p \in BPool /\ ok /\ pl[p].shared >= n => new[p].shared = pl[p].shared - n
         /\ p \in BPool /\ ~ok => new[p].shared = pl[p].shared
         /\ p \in BPool /\ n = 0 => new[p].shared = pl[p].shared
<1> DEFINE new == Recalc(pl, p, n, ok)
<1>1. \A q \in BPool : pl[q] # NoNode =>
         /\ pl[q] \in PoolNode /\ pl[q].shared \in Int
  BY DEF PoolNode
<1>2. CASE p \notin BPool \/ ~ok \/ pl[p].shared < n
  <2>1. new = pl
    BY <1>2 DEF Recalc
  <2>2. p \in BPool /\ n = 0 => pl[p].shared - n = pl[p].shared
    BY <1>1
  <2>3. p \in BPool => pl[p].shared \in Int
    BY <1>1
  <2>4. p \in BPool => ~(ok /\ pl[p].shared >= n)
    BY <1>2, <2>3
  <2> HIDE DEF new
  <2> QED BY <1>1, <2>1, <2>2, <2>4 DEF new
<1>3. CASE ~(p \notin BPool \/ ~ok \/ pl[p].shared < n)
  <2> DEFINE node == [pl[p] EXCEPT !.shared = pl[p].shared - n]
  <2>1. new = [pl EXCEPT ![p] = node]
    BY <1>3 DEF Recalc
  <2>2. p \in BPool /\ ok /\ pl[p] \in PoolNode /\ pl[p].shared \in Int
    BY <1>1, <1>3
  <2>3. pl[p].shared - n \in Int
    BY <2>2
  <2>4. /\ node \in PoolNode /\ node.ref = pl[p].ref /\ node.size = pl[p].size
        /\ node.xoff = pl[p].xoff /\ node.shared = pl[p].shared - n
    BY <2>2, <2>3, PoolEdit
  <2>5. node # NoNode
    BY <2>4, BufferAssumption
  <2> HIDE DEF node, new
  <2>6. new \in [BPool -> PoolNode \cup {NoNode}] /\ new[p] = node
        /\ \A q \in BPool : q # p => new[q] = pl[q]
    BY <2>1, <2>2, <2>4
  <2>7. n = 0 => pl[p].shared - n = pl[p].shared
    BY <2>2
  <2>8. \A q \in BPool : pl[q] # NoNode =>
              /\ new[q] # NoNode /\ new[q].ref = pl[q].ref /\ new[q].size = pl[q].size
              /\ new[q].xoff = pl[q].xoff /\ new[q].shared \in Int
    BY <1>1, <2>3, <2>4, <2>5, <2>6
  <2>9. \A q \in BPool : pl[q] = NoNode => new[q] = NoNode
    BY <2>2, <2>6
  <2> QED BY <2>2, <2>4, <2>6, <2>7, <2>8, <2>9 DEF new
<1> QED BY <1>2, <1>3

WithSize(prof, s, x) == [prof EXCEPT !.size = s, !.xoff = x]

LEMMA ProfResize ==
  ASSUME NEW prof \in ProfNode, NEW s \in ProfSize, NEW x \in Xoff
  PROVE  LET new == WithSize(prof, s, x) IN
         /\ new \in ProfNode /\ new.ref = prof.ref /\ new.pool = prof.pool
         /\ new.size = s /\ new.xoff = x /\ new.val = prof.val
<1> DEFINE one == [prof EXCEPT !.size = s]
           two == [one EXCEPT !.xoff = x]
<1>1. /\ one \in ProfNode /\ one.ref = prof.ref /\ one.pool = prof.pool
      /\ one.size = s /\ one.val = prof.val
  BY DEF ProfNode
<1>2. WithSize(prof, s, x) = two
  BY DEF WithSize
<1> HIDE DEF one
<1>3. /\ two \in ProfNode /\ two.ref = prof.ref /\ two.pool = prof.pool
      /\ two.size = s /\ two.xoff = x /\ two.val = prof.val
  BY <1>1 DEF ProfNode
<1> QED BY <1>2, <1>3

(* A size that is set: the pool is charged for all users of the profile.   *)
LEMMA SetProfSizeInv ==
  ASSUME BufInv, NEW f \in BProf, SetProfSize(f)
  PROVE  BufInv'
<1>0. /\ BufTypeOK /\ BufferChain /\ LeakGone /\ PoolBooked /\ UsersFollowProfile
      /\ HasProf(f) /\ UNCHANGED <<userOf, applied, pgs, req, leaked, unrestored>>
  BY DEF BufInv, SetProfSize
<1>1. PICK s \in ProfSize, x \in Xoff, ok \in BOOLEAN :
        LET p == profs[f].pool
            new == WithSize(profs[f], s, x)
            n == profs[f].ref * (Charge(pools, new) - Charge(pools, profs[f]))
        IN /\ n <= 0 \/ Available(p, n)
           /\ profs' = [profs EXCEPT ![f] = new]
           /\ pools' = Recalc(pools, p, n, ok)
           /\ unbooked' = Misbooked(IF ok \/ n = 0 THEN {} ELSE {p})
  BY DEF SetProfSize, WithSize
<1>2. PICK p \in BPool : p = profs[f].pool
  BY <1>0, NodeFields
<1>3. LET new == WithSize(profs[f], s, x) IN
        /\ new \in ProfNode /\ new.ref = profs[f].ref /\ new.pool = p
        /\ new.size = s /\ new.xoff = x /\ new.val = profs[f].val
  BY <1>0, <1>2, NodeFields, ProfResize
<1>4. PICK prof \in ProfNode :
        /\ prof = WithSize(profs[f], s, x)
        /\ prof.ref = profs[f].ref /\ prof.pool = p
        /\ prof.size = s /\ prof.xoff = x /\ prof.val = profs[f].val
  BY <1>3
<1>5. PICK a \in Nat : a = Charge(pools, profs[f])
  BY <1>0, ChargeType
<1>6. PICK b \in Nat : b = Charge(pools, prof)
  BY <1>4, BufferAssumption DEF Charge, Reserved
<1>7. PICK k \in Nat : k = profs[f].ref
  BY <1>0, NodeFields
<1>8. HasPool(p) /\ k = Cardinality(UsersOf(f))
  BY <1>0, <1>2, <1>7 DEF BufferChain
<1>9. PICK n \in Int : n = k * (b - a)
  OBVIOUS
<1>10. k * a \in Nat /\ k * b \in Nat /\ n = k * b - k * a
  BY <1>9, Product
<1>11. /\ n <= 0 \/ Available(p, n)
       /\ profs' = [profs EXCEPT ![f] = prof]
       /\ pools' = Recalc(pools, p, n, ok)
       /\ unbooked' = Misbooked(IF ok \/ n = 0 THEN {} ELSE {p})
  BY <1>1, <1>2, <1>4, <1>5, <1>6, <1>7, <1>9
<1>12. /\ pools' \in [BPool -> PoolNode \cup {NoNode}]
       /\ \A q \in BPool : q # p => pools'[q] = pools[q]
       /\ \A q \in BPool : HasPool(q) =>
            /\ pools'[q] # NoNode /\ pools'[q].ref = pools[q].ref /\ pools'[q].size = pools[q].size
            /\ pools'[q].xoff = pools[q].xoff
       /\ \A q \in BPool : ~HasPool(q) => pools'[q] = NoNode
       /\ ok /\ pools[p].shared >= n => pools'[p].shared = pools[p].shared - n
       /\ n = 0 => pools'[p].shared = pools[p].shared
  BY <1>0, <1>8, <1>11, RecalcMeans DEF BufTypeOK, HasPool
<1>13. /\ profs' \in [BProf -> ProfNode \cup {NoNode}] /\ profs'[f] = prof
       /\ \A g \in BProf \ {f} : profs'[g] = profs[g]
  BY <1>0, <1>11 DEF BufTypeOK
<1>14. /\ unbooked' \in [BPool -> Nat] /\ \A q \in BPool : unbooked'[q] = 0 => unbooked[q] = 0
       /\ unbooked'[p] = 0 => ok \/ n = 0
  BY <1>0, <1>11 DEF BufTypeOK, Misbooked
<1>15. BufTypeOK'
  BY <1>0, <1>12, <1>13, <1>14 DEF BufTypeOK
<1>16. prof # NoNode
  BY BufferAssumption
<1>17. \A g \in BProf : /\ HasProf(g)' = HasProf(g) /\ UsersOf(g)' = UsersOf(g)
                        /\ HasProf(g) => /\ profs'[g].pool = profs[g].pool
                                         /\ profs'[g].ref = profs[g].ref
                                         /\ profs'[g].val = profs[g].val
  BY <1>0, <1>2, <1>4, <1>13, <1>16 DEF HasProf, UsersOf
<1>18. \A q \in BPool : HasPool(q)' = HasPool(q) /\ ProfsIn(q)' = ProfsIn(q)
  BY <1>12, <1>17 DEF HasPool, ProfsIn
<1>19. \A u \in User : userOf[u] # NoProf => userOf[u] \in BProf /\ HasProf(userOf[u])
  BY <1>0 DEF BufTypeOK, BufferChain
<1>20. UsersKnown'
  BY <1>0, <1>17, <1>19 DEF UsersKnown, HasProf
<1>21. \A g \in BProf : HasProf(g) => profs[g].pool \in BPool /\ HasPool(profs[g].pool)
  BY <1>0, NodeFields DEF BufferChain
<1>22. ProfsCounted'
  BY <1>0, <1>12, <1>17, <1>21 DEF ProfsCounted, BufferChain, HasProf, HasPool
<1>23. PoolsCounted'
  BY <1>0, <1>12, <1>18 DEF PoolsCounted, BufferChain
<1>24. BufferChain'
  BY <1>20, <1>22, <1>23 DEF BufferChain, UsersKnown, ProfsCounted, PoolsCounted
<1>25. LeakGone'
  BY <1>0, <1>18 DEF LeakGone
<1>26. UsersFollowProfile'
  BY <1>0, <1>17, <1>19 DEF UsersFollowProfile
<1>27. \A g \in BProf : HasProf(g) =>
         Charge(pools', profs'[g]) = IF g = f THEN b ELSE Charge(pools, profs[g])
  <2> SUFFICES ASSUME NEW g \in BProf, HasProf(g)
      PROVE  Charge(pools', profs'[g]) = IF g = f THEN b ELSE Charge(pools, profs[g])
    OBVIOUS
  <2>1. CASE g = f
    <3>1. profs'[g] = prof /\ pools'[prof.pool].xoff = pools[prof.pool].xoff
      BY <1>4, <1>8, <1>12, <1>13, <2>1
    <3> QED BY <1>6, <2>1, <3>1 DEF Charge, Reserved
  <2>2. CASE g # f
    <3>1. profs'[g] = profs[g] /\ pools'[profs[g].pool].xoff = pools[profs[g].pool].xoff
      BY <1>12, <1>13, <1>21, <2>2
    <3> QED BY <2>2, <3>1 DEF Charge, Reserved
  <2> QED BY <2>1, <2>2
<1>28. /\ ChargeOf \in [User -> Nat]
       /\ \A q : UsersIn(q) \in SUBSET User /\ UsersIn(q)' = UsersIn(q)
  <2>1. \A q : UsersIn(q)' = UsersIn(q)
    BY <1>0, <1>17, <1>19 DEF UsersIn
  <2> QED BY <1>0, <2>1, ChargeType
<1>29. /\ ChargeOf' \in [User -> Nat]
       /\ \A u \in User : ChargeOf'[u] = IF userOf[u] = f THEN b ELSE ChargeOf[u]
  <2>1. f # NoProf
    BY BufferAssumption
  <2>2. ChargeOf' = [u \in User |-> IF userOf[u] = NoProf THEN 0 ELSE Charge(pools', profs'[userOf[u]])]
    BY <1>0 DEF ChargeOf, Charge, Reserved
  <2>3. \A u \in User : ChargeOf[u] = IF userOf[u] = NoProf THEN 0 ELSE Charge(pools, profs[userOf[u]])
    BY DEF ChargeOf
  <2>4. ChargeOf' = [u \in User |-> IF userOf[u] = f THEN b ELSE ChargeOf[u]]
    BY <1>19, <1>27, <2>1, <2>2, <2>3
  <2> QED BY <1>28, <2>4
<1>30. \A u \in UsersOf(f) : ChargeOf[u] = a
  BY <1>5, BufferAssumption DEF ChargeOf, UsersOf
<1>31. ASSUME NEW q \in BPool, q # p  PROVE Booked(q)' = Booked(q)
  <2>1. \A u \in UsersIn(q) : ChargeOf'[u] = ChargeOf[u]
    BY <1>2, <1>29, <1>31 DEF UsersIn
  <2>2. Slots(ChargeOf', UsersIn(q)) = Slots(ChargeOf, UsersIn(q))
    BY <1>28, <1>29, <2>1, SlotsSame
  <2> QED BY <1>28, <2>2 DEF Booked
<1>32. Booked(p)' = Booked(p) + n /\ Booked(p) \in Nat
  <2>1. UsersOf(f) \in SUBSET UsersIn(p)
    BY <1>2, BufferAssumption DEF UsersOf, UsersIn
  <2>2. \A u \in UsersIn(p) \ UsersOf(f) : ChargeOf[u] = ChargeOf'[u]
    BY <1>28, <1>29 DEF UsersOf
  <2>3. \A u \in UsersOf(f) : ChargeOf[u] = a /\ ChargeOf'[u] = b
    BY <1>29, <1>30 DEF UsersOf
  <2>4. PICK c \in [User -> Nat], d \in [User -> Nat], V \in SUBSET User, X \in SUBSET User :
          X \subseteq V /\ c = ChargeOf /\ d = ChargeOf' /\ V = UsersIn(p) /\ X = UsersOf(f)
    BY <1>28, <1>29, <2>1
  <2>5. (\A u \in V \ X : c[u] = d[u]) /\ (\A u \in X : c[u] = a /\ d[u] = b)
    BY <2>2, <2>3, <2>4
  <2>6. /\ Cardinality(Slots(c, V)) = Cardinality(Slots(c, V \ X)) + Cardinality(X) * a
        /\ Cardinality(Slots(d, V)) = Cardinality(Slots(c, V \ X)) + Cardinality(X) * b
        /\ Cardinality(Slots(c, V \ X)) \in Nat
    BY <2>4, <2>5, SlotsMoved
  <2>7. Booked(p) = Cardinality(Slots(c, V)) /\ Booked(p)' = Cardinality(Slots(d, V))
    BY <1>28, <2>4 DEF Booked
  <2>8. Cardinality(X) = k
    BY <1>8, <2>4
  <2> QED BY <1>10, <2>6, <2>7, <2>8
<1>33. PoolBooked'
  <2>1. ASSUME unbooked'[p] = 0
        PROVE  pools'[p].shared >= 0 /\ pools'[p].shared = pools'[p].size - pools'[p].xoff - Booked(p)'
    <3>1. pools[p].shared >= 0 /\ pools[p].shared = pools[p].size - pools[p].xoff - Booked(p)
      BY <1>0, <1>8, <1>14, <2>1 DEF PoolBooked
    <3>2. pools[p].shared \in Int /\ pools[p].size \in Nat /\ pools[p].xoff \in Nat
      BY <1>0, <1>8, NodeFields
    <3>3. pools[p].shared >= n
      BY <1>11, <3>1, <3>2 DEF Available
    <3>4. pools'[p].shared = pools[p].shared - n
      BY <1>12, <1>14, <2>1, <3>2, <3>3
    <3>5. pools[p].shared - n >= 0
          /\ pools[p].shared - n = pools[p].size - pools[p].xoff - (Booked(p) + n)
      BY <1>32, <3>1, <3>2, <3>3
    <3> QED BY <1>8, <1>12, <1>32, <3>4, <3>5
  <2>2. ASSUME NEW q \in BPool \ {p}, HasPool(q)', unbooked'[q] = 0
        PROVE  pools'[q].shared >= 0 /\ pools'[q].shared = pools'[q].size - pools'[q].xoff - Booked(q)'
    BY <1>0, <1>12, <1>14, <1>18, <1>31, <2>2 DEF PoolBooked
  <2> QED BY <2>1, <2>2 DEF PoolBooked
<1> QED BY <1>15, <1>24, <1>25, <1>26, <1>33 DEF BufInv

(* A profile moves from the count of one pool to that of another.          *)
Recounted(pl, old, p) == [[pl EXCEPT ![old].ref = @ - 1] EXCEPT ![p].ref = @ + 1]

LEMMA RecountedMeans ==
  ASSUME NEW pl \in [BPool -> PoolNode \cup {NoNode}], NEW old \in BPool, NEW p \in BPool,
         pl[old] # NoNode, pl[p] # NoNode, pl[old].ref > 0
  PROVE  LET new == Recounted(pl, old, p) IN
         /\ new \in [BPool -> PoolNode \cup {NoNode}]
         /\ \A q \in BPool : pl[q] # NoNode =>
              /\ new[q] # NoNode /\ new[q].shared = pl[q].shared /\ new[q].size = pl[q].size
              /\ new[q].xoff = pl[q].xoff
         /\ \A q \in BPool : pl[q] = NoNode => new[q] = NoNode
         /\ \A q \in BPool : q # old /\ q # p => new[q] = pl[q]
         /\ old = p => new[p].ref = pl[p].ref
         /\ old # p => new[p].ref = pl[p].ref + 1 /\ new[old].ref = pl[old].ref - 1
<1> DEFINE less == [pl[old] EXCEPT !.ref = pl[old].ref - 1]
           one == [pl EXCEPT ![old] = less]
           more == [one[p] EXCEPT !.ref = one[p].ref + 1]
           two == [one EXCEPT ![p] = more]
<1>1. pl[old] \in PoolNode /\ pl[old].ref \in Nat /\ pl[old].ref - 1 \in Nat
  <2>1. pl[old] \in PoolNode
    OBVIOUS
  <2>2. pl[old].ref \in Nat
    BY <2>1 DEF PoolNode
  <2> QED BY <2>1, <2>2
<1>2. /\ less \in PoolNode /\ less.ref = pl[old].ref - 1 /\ less.shared = pl[old].shared
      /\ less.size = pl[old].size /\ less.xoff = pl[old].xoff /\ less # NoNode
  BY <1>1, PoolEdit, BufferAssumption
<1>3. Recounted(pl, old, p) = two
  BY DEF Recounted
<1> HIDE DEF less
<1>4. /\ one \in [BPool -> PoolNode \cup {NoNode}] /\ one[old] = less
      /\ \A q \in BPool : q # old => one[q] = pl[q]
  BY <1>2
<1> HIDE DEF one
<1>5. one[p] \in PoolNode /\ one[p].ref \in Nat
  <2>1. one[p] \in PoolNode
    BY <1>2, <1>4
  <2> QED BY <2>1 DEF PoolNode
<1>6. /\ more \in PoolNode /\ more.ref = one[p].ref + 1 /\ more.shared = one[p].shared
      /\ more.size = one[p].size /\ more.xoff = one[p].xoff /\ more # NoNode
  <2>1. one[p].ref + 1 \in Nat
    BY <1>5
  <2> QED BY <1>5, <2>1, PoolEdit, BufferAssumption
<1> HIDE DEF more
<1>7. /\ two \in [BPool -> PoolNode \cup {NoNode}] /\ two[p] = more
      /\ \A q \in BPool : q # p => two[q] = one[q]
  BY <1>4, <1>6
<1> HIDE DEF two
<1>8. \A q \in BPool : pl[q] # NoNode =>
        /\ two[q] # NoNode /\ two[q].shared = pl[q].shared /\ two[q].size = pl[q].size
        /\ two[q].xoff = pl[q].xoff
  BY <1>2, <1>4, <1>6, <1>7
<1>9. old = p => two[p].ref = pl[p].ref
  BY <1>1, <1>2, <1>4, <1>6, <1>7
<1>10. old # p => two[p].ref = pl[p].ref + 1 /\ two[old].ref = pl[old].ref - 1
  BY <1>2, <1>4, <1>6, <1>7
<1>11. \A q \in BPool : pl[q] = NoNode => two[q] = NoNode
  BY <1>4, <1>7
<1> QED BY <1>3, <1>4, <1>7, <1>8, <1>9, <1>10, <1>11

(* A pool that is set: what the users of the profile reserve goes along.   *)
LEMMA SetProfPoolInv ==
  ASSUME BufInv, NEW f \in BProf, NEW p \in BPool, SetProfPool(f, p)
  PROVE  BufInv'
<1>0. /\ BufTypeOK /\ BufferChain /\ LeakGone /\ PoolBooked /\ UsersFollowProfile
      /\ HasProf(f) /\ HasPool(p)
      /\ UNCHANGED <<userOf, applied, pgs, req, leaked, unrestored>>
  BY DEF BufInv, SetProfPool, PoolsFit
<1>1. PICK old \in BPool : old = profs[f].pool
  BY <1>0, NodeFields
<1>2. PICK a \in Nat : a = Charge(pools, profs[f])
  BY <1>0, ChargeType
<1>3. PICK k \in Nat : k = profs[f].ref
  BY <1>0, NodeFields
<1>4. PICK n \in Nat : n = k * a
  BY Product
<1>5. PICK back \in BOOLEAN, taken \in BOOLEAN :
        /\ pools' = Recalc(Recalc(Recounted(pools, old, p), old, -n, back), p, n, taken)
        /\ unbooked' = Misbooked({q \in {old} : ~back /\ n # 0}
             \cup {q \in {p} : (~taken /\ n # 0) \/ n # k * Charge(pools', profs'[f])})
  BY <1>1, <1>2, <1>3, <1>4 DEF SetProfPool, Recounted
<1>6. Available(p, n) /\ profs' = [profs EXCEPT ![f].pool = p]
  BY <1>2, <1>3, <1>4 DEF SetProfPool
<1>7. HasPool(old) /\ k = Cardinality(UsersOf(f)) /\ f \in ProfsIn(old)
  BY <1>0, <1>1, <1>3 DEF BufferChain, ProfsIn
<1>8. \A q \in BPool : HasPool(q) =>
        /\ pools[q].ref = Cardinality(ProfsIn(q)) + leaked[q] /\ leaked[q] \in Nat
        /\ Cardinality(ProfsIn(q)) \in Nat /\ IsFiniteSet(ProfsIn(q))
        /\ pools[q].shared \in Int /\ pools[q].size \in Nat /\ pools[q].xoff \in Nat
  BY <1>0, NodeFields DEF BufferChain, BufTypeOK
<1>9. pools[old].ref > 0
  <2>1. Cardinality(ProfsIn(old)) # 0
    BY <1>7, <1>8, FS_EmptySet
  <2> QED BY <1>7, <1>8, <2>1
<1>10. PICK pl1 \in [BPool -> PoolNode \cup {NoNode}] :
        /\ pl1 = Recounted(pools, old, p)
        /\ \A q \in BPool : HasPool(q) =>
             /\ pl1[q] # NoNode /\ pl1[q].shared = pools[q].shared /\ pl1[q].size = pools[q].size
             /\ pl1[q].xoff = pools[q].xoff
        /\ \A q \in BPool : ~HasPool(q) => pl1[q] = NoNode
        /\ \A q \in BPool : q # old /\ q # p => pl1[q] = pools[q]
        /\ old = p => pl1[p].ref = pools[p].ref
        /\ old # p => pl1[p].ref = pools[p].ref + 1 /\ pl1[old].ref = pools[old].ref - 1
  BY <1>0, <1>7, <1>9, RecountedMeans DEF HasPool, BufTypeOK
<1>11. -n \in Int /\ n \in Int
  OBVIOUS
<1>12. PICK pl2 \in [BPool -> PoolNode \cup {NoNode}] :
        /\ pl2 = Recalc(pl1, old, -n, back)
        /\ \A q \in BPool : q # old => pl2[q] = pl1[q]
        /\ \A q \in BPool : HasPool(q) =>
             /\ pl2[q] # NoNode /\ pl2[q].ref = pl1[q].ref /\ pl2[q].size = pl1[q].size
             /\ pl2[q].xoff = pl1[q].xoff /\ pl2[q].shared \in Int
        /\ \A q \in BPool : ~HasPool(q) => pl2[q] = NoNode
        /\ back /\ pl1[old].shared >= -n => pl2[old].shared = pl1[old].shared - (-n)
        /\ n = 0 => pl2[old].shared = pl1[old].shared
  BY <1>7, <1>10, <1>11, RecalcMeans
<1>13. /\ pools' \in [BPool -> PoolNode \cup {NoNode}]
       /\ \A q \in BPool : q # p => pools'[q] = pl2[q]
       /\ \A q \in BPool : HasPool(q) =>
            /\ pools'[q] # NoNode /\ pools'[q].ref = pl2[q].ref /\ pools'[q].size = pl2[q].size
            /\ pools'[q].xoff = pl2[q].xoff /\ pools'[q].shared \in Int
       /\ \A q \in BPool : ~HasPool(q) => pools'[q] = NoNode
       /\ taken /\ pl2[p].shared >= n => pools'[p].shared = pl2[p].shared - n
       /\ n = 0 => pools'[p].shared = pl2[p].shared
  <2>1. pools' = Recalc(pl2, p, n, taken) /\ pl2[p] # NoNode
    BY <1>0, <1>5, <1>10, <1>12
  <2> QED BY <1>0, <1>11, <1>12, <2>1, RecalcMeans
<1>14. /\ \A q \in BPool : HasPool(q) => /\ pools'[q] # NoNode /\ pools'[q].size = pools[q].size
                                         /\ pools'[q].xoff = pools[q].xoff
       /\ \A q \in BPool : q # p /\ q # old => pools'[q] = pools[q]
       /\ old = p => pools'[p].ref = pools[p].ref
       /\ old # p => pools'[p].ref = pools[p].ref + 1 /\ pools'[old].ref = pools[old].ref - 1
  BY <1>0, <1>7, <1>10, <1>12, <1>13
<1> DEFINE prof == [profs[f] EXCEPT !.pool = p]
<1>15. /\ prof \in ProfNode /\ prof.pool = p /\ prof.ref = profs[f].ref
       /\ prof.size = profs[f].size /\ prof.xoff = profs[f].xoff /\ prof.val = profs[f].val
       /\ prof # NoNode
  BY <1>0, NodeFields, ProfEdit, BufferAssumption
<1>16. profs' = [profs EXCEPT ![f] = prof]
  BY <1>6
<1>17. /\ profs' \in [BProf -> ProfNode \cup {NoNode}] /\ profs'[f] = prof
       /\ \A g \in BProf \ {f} : profs'[g] = profs[g]
  BY <1>0, <1>15, <1>16 DEF BufTypeOK
<1> HIDE DEF prof
<1>18. PICK b \in Nat : b = Charge(pools', profs'[f])
  <2>1. profs[f].size \in Nat /\ profs[f].xoff \in Nat
    BY <1>0, NodeFields
  <2> QED BY <1>15, <1>17, <2>1 DEF Charge, Reserved
<1>19. /\ unbooked' \in [BPool -> Nat] /\ \A q \in BPool : unbooked'[q] = 0 => unbooked[q] = 0
       /\ unbooked'[old] = 0 => back \/ n = 0
       /\ unbooked'[p] = 0 => (taken \/ n = 0) /\ n = k * b
  <2>1. PICK S : /\ unbooked' = Misbooked(S)
                 /\ (~back /\ n # 0) => old \in S
                 /\ (~taken /\ n # 0) => p \in S
                 /\ (n # k * b) => p \in S
    BY <1>5, <1>18
  <2>2. unbooked \in [BPool -> Nat]
    BY <1>0 DEF BufTypeOK
  <2>3. \A q \in BPool : unbooked'[q] = unbooked[q] + (IF q \in S THEN 1 ELSE 0)
    BY <2>1 DEF Misbooked
  <2>4. unbooked' \in [BPool -> Nat]
    BY <2>1, <2>2 DEF Misbooked
  <2>5. \A q \in BPool : unbooked'[q] = 0 => unbooked[q] = 0 /\ q \notin S
    BY <2>2, <2>3
  <2> QED BY <2>1, <2>4, <2>5
<1>20. BufTypeOK'
  BY <1>0, <1>13, <1>17, <1>19 DEF BufTypeOK
<1>21. \A g \in BProf : /\ HasProf(g)' = HasProf(g) /\ UsersOf(g)' = UsersOf(g)
                        /\ HasProf(g) => /\ profs'[g].pool = IF g = f THEN p ELSE profs[g].pool
                                         /\ profs'[g].ref = profs[g].ref
                                         /\ profs'[g].val = profs[g].val
  BY <1>0, <1>15, <1>17 DEF HasProf, UsersOf
<1>22. \A q \in BPool : HasPool(q)' = HasPool(q)
  BY <1>13, <1>14 DEF HasPool
<1>23. \A u \in User : userOf[u] # NoProf => userOf[u] \in BProf /\ HasProf(userOf[u])
  BY <1>0 DEF BufTypeOK, BufferChain
<1>24. UsersKnown'
  BY <1>0, <1>21, <1>23 DEF UsersKnown, HasProf
<1>25. \A g \in BProf : HasProf(g) => profs[g].pool \in BPool /\ HasPool(profs[g].pool)
  BY <1>0, NodeFields DEF BufferChain
<1>26. ProfsCounted'
  BY <1>0, <1>14, <1>21, <1>25 DEF ProfsCounted, BufferChain, HasProf, HasPool
<1>27. PoolsCounted'
  <2> SUFFICES ASSUME NEW q \in BPool, HasPool(q)
               PROVE  pools'[q].ref = Cardinality(ProfsIn(q)') + leaked'[q]
    BY <1>22 DEF PoolsCounted
  <2>1. \A g \in BProf : g \in ProfsIn(q)' <=>
          HasProf(g) /\ (IF g = f THEN p ELSE profs[g].pool) = q
    BY <1>21 DEF ProfsIn
  <2>2. CASE q = p /\ old # p
    <3>1. ProfsIn(p)' = ProfsIn(p) \cup {f}
      BY <1>0, <2>1, <2>2 DEF ProfsIn
    <3>2. f \notin ProfsIn(p)
      BY <1>1, <2>2 DEF ProfsIn
    <3>3. /\ IsFiniteSet(ProfsIn(p)) /\ Cardinality(ProfsIn(p)) \in Nat /\ leaked[p] \in Nat
          /\ pools[p].ref = Cardinality(ProfsIn(p)) + leaked[p]
      BY <1>0, <1>8
    <3>4. Cardinality(ProfsIn(p)') = Cardinality(ProfsIn(p)) + 1
      BY <3>1, <3>2, <3>3, FS_AddElement
    <3>5. pools'[p].ref = pools[p].ref + 1 /\ leaked' = leaked
      BY <1>0, <1>14, <2>2
    <3> QED BY <2>2, <3>3, <3>4, <3>5
  <2>3. CASE q = old /\ old # p
    <3>1. ProfsIn(old)' = ProfsIn(old) \ {f}
      BY <1>1, <2>1, <2>3 DEF ProfsIn
    <3>2. /\ IsFiniteSet(ProfsIn(old)) /\ Cardinality(ProfsIn(old)) \in Nat /\ leaked[old] \in Nat
          /\ pools[old].ref = Cardinality(ProfsIn(old)) + leaked[old]
      BY <1>7, <1>8
    <3>3. Cardinality(ProfsIn(old)') = Cardinality(ProfsIn(old)) - 1
      BY <1>7, <3>1, <3>2, FS_RemoveElement
    <3>4. pools'[old].ref = pools[old].ref - 1 /\ leaked' = leaked
      BY <1>0, <1>14, <2>3
    <3> QED BY <2>3, <3>2, <3>3, <3>4
  <2>4. CASE old = p \/ (q # p /\ q # old)
    <3>1. ProfsIn(q)' = ProfsIn(q)
      BY <1>1, <2>1, <2>4 DEF ProfsIn
    <3>2. pools'[q].ref = pools[q].ref
      BY <1>14, <2>4
    <3> QED BY <1>0, <1>8, <3>1, <3>2
  <2> QED BY <2>2, <2>3, <2>4
<1>28. BufferChain'
  BY <1>24, <1>26, <1>27 DEF BufferChain, UsersKnown, ProfsCounted, PoolsCounted
<1>29. LeakGone'
  BY <1>0, <1>22 DEF LeakGone
<1>30. UsersFollowProfile'
  BY <1>0, <1>21, <1>23 DEF UsersFollowProfile
<1>31. \A g \in BProf : HasProf(g) =>
         Charge(pools', profs'[g]) = IF g = f THEN b ELSE Charge(pools, profs[g])
  <2> SUFFICES ASSUME NEW g \in BProf, HasProf(g), g # f
      PROVE  Charge(pools', profs'[g]) = Charge(pools, profs[g])
    BY <1>18
  <2>1. profs'[g] = profs[g] /\ pools'[profs[g].pool].xoff = pools[profs[g].pool].xoff
    BY <1>14, <1>17, <1>25
  <2> QED BY <2>1 DEF Charge, Reserved
<1>32. PICK c \in [User -> Nat], d \in [User -> Nat] :
         /\ c = ChargeOf /\ d = ChargeOf'
         /\ \A u \in User : d[u] = IF userOf[u] = f THEN b ELSE c[u]
         /\ \A u \in UsersOf(f) : c[u] = a /\ d[u] = b
  <2>1. f # NoProf
    BY BufferAssumption
  <2>2. ChargeOf' = [u \in User |-> IF userOf[u] = NoProf THEN 0 ELSE Charge(pools', profs'[userOf[u]])]
    BY <1>0 DEF ChargeOf, Charge, Reserved
  <2>3. /\ ChargeOf \in [User -> Nat]
        /\ \A u \in User : ChargeOf[u] = IF userOf[u] = NoProf THEN 0 ELSE Charge(pools, profs[userOf[u]])
    BY <1>0, ChargeType
  <2>4. ChargeOf' = [u \in User |-> IF userOf[u] = f THEN b ELSE ChargeOf[u]]
    BY <1>23, <1>31, <2>1, <2>2, <2>3
  <2>5. ChargeOf' \in [User -> Nat]
    BY <2>3, <2>4
  <2>6. \A u \in UsersOf(f) : ChargeOf[u] = a
    BY <1>2, <2>1, <2>3 DEF UsersOf
  <2> QED BY <2>3, <2>4, <2>5, <2>6 DEF UsersOf
<1>33. PICK X \in SUBSET User : X = UsersOf(f)
  BY DEF UsersOf
<1>34. \A q : /\ UsersIn(q) \in SUBSET User
              /\ q # old /\ q # p => UsersIn(q)' = UsersIn(q)
              /\ q = old /\ q # p => UsersIn(q)' = UsersIn(q) \ X
              /\ q # old /\ q = p => UsersIn(q)' = UsersIn(q) \cup X /\ UsersIn(q) \cap X = {}
              /\ q = old /\ q = p => UsersIn(q)' = UsersIn(q)
              /\ q = old => X \subseteq UsersIn(q)
              /\ q # old => UsersIn(q) \cap X = {}
  <2>1. \A u \in User : userOf[u] # NoProf =>
          profs'[userOf[u]].pool = IF userOf[u] = f THEN p ELSE profs[userOf[u]].pool
    BY <1>21, <1>23
  <2>2. f # NoProf
    BY BufferAssumption
  <2>3. \A q : \A u \in User : u \in UsersIn(q)' <=>
          userOf[u] # NoProf /\ (IF userOf[u] = f THEN p ELSE profs[userOf[u]].pool) = q
    BY <1>0, <2>1 DEF UsersIn
  <2>4. \A q : UsersIn(q) \in SUBSET User /\ UsersIn(q)' \in SUBSET User
    BY DEF UsersIn
  <2>5. \A q : \A u \in User : u \in UsersIn(q) <=>
          userOf[u] # NoProf /\ profs[userOf[u]].pool = q
    BY DEF UsersIn
  <2>6. \A u \in User : u \in X <=> userOf[u] = f
    BY <1>33 DEF UsersOf
  <2> SUFFICES ASSUME NEW q
      PROVE   /\ UsersIn(q) \in SUBSET User
              /\ q # old /\ q # p => UsersIn(q)' = UsersIn(q)
              /\ q = old /\ q # p => UsersIn(q)' = UsersIn(q) \ X
              /\ q # old /\ q = p => UsersIn(q)' = UsersIn(q) \cup X /\ UsersIn(q) \cap X = {}
              /\ q = old /\ q = p => UsersIn(q)' = UsersIn(q)
              /\ q = old => X \subseteq UsersIn(q)
              /\ q # old => UsersIn(q) \cap X = {}
    OBVIOUS
  <2>7. PICK V \in SUBSET User, W \in SUBSET User : V = UsersIn(q) /\ W = UsersIn(q)'
    BY <2>4
  <2>8. \A u \in User : u \in W <=> IF u \in X THEN p = q ELSE u \in V
    BY <2>2, <2>3, <2>5, <2>6, <2>7
  <2>9. \A u \in X : u \in V <=> q = old
    BY <1>1, <2>2, <2>5, <2>6, <2>7
  <2>10. q # old /\ q # p => W = V
    BY <2>8, <2>9
  <2>11. q = old /\ q # p => W = V \ X
    BY <2>8
  <2>12. q # old => V \cap X = {}
    BY <2>9
  <2>13. q # old /\ q = p => W = V \cup X
    BY <2>8
  <2>14. q = old => X \subseteq V
    BY <2>9
  <2>15. q = old /\ q = p => W = V
    BY <2>8, <2>9
  <2> QED BY <2>7, <2>10, <2>11, <2>12, <2>13, <2>14, <2>15
<1>35. \A q \in BPool : (q = old <=> q = p) => Booked(q)' = Booked(q)
  <2> SUFFICES ASSUME NEW q \in BPool, q = old <=> q = p
               PROVE  Booked(q)' = Booked(q)
    OBVIOUS
  <2>1. \A u \in UsersIn(q) : c[u] = d[u]
    <3>1. CASE q # old
      BY <1>32, <1>33, <1>34, <3>1 DEF UsersOf
    <3>2. CASE q = old /\ q = p
      <4>1. a = b
        BY <1>1, <1>2, <1>14, <1>15, <1>17, <1>18, <1>7, <3>2 DEF Charge, Reserved
      <4> QED BY <1>32, <1>34, <4>1 DEF UsersOf
    <3> QED BY <3>1, <3>2
  <2>2. Slots(c, UsersIn(q)) = Slots(d, UsersIn(q))
    BY <1>34, <2>1, SlotsSame
  <2>3. UsersIn(q)' = UsersIn(q)
    BY <1>34
  <2> QED BY <1>32, <2>2, <2>3 DEF Booked
<1>36. Cardinality(X) = k
  BY <1>7, <1>33
<1>37. old # p => Booked(old) = Booked(old)' + n
  <2> SUFFICES ASSUME old # p  PROVE Booked(old) = Booked(old)' + n
    OBVIOUS
  <2>1. PICK V \in SUBSET User : V = UsersIn(old)
    BY <1>34
  <2>2. X \in SUBSET V /\ UsersIn(old)' = V \ X
    BY <1>34, <2>1
  <2>3. (\A u \in V \ X : c[u] = d[u]) /\ (\A u \in X : c[u] = a)
    BY <1>32, <1>33 DEF UsersOf
  <2>4. Cardinality(Slots(c, V)) = Cardinality(Slots(d, V \ X)) + Cardinality(X) * a
    BY <2>2, <2>3, SlotsLeave
  <2>5. Booked(old) = Cardinality(Slots(c, V)) /\ Booked(old)' = Cardinality(Slots(d, V \ X))
    BY <1>32, <2>1, <2>2 DEF Booked
  <2> QED BY <1>4, <1>36, <2>4, <2>5
<1>38. old # p => Booked(p)' = Booked(p) + k * b
  <2> SUFFICES ASSUME old # p  PROVE Booked(p)' = Booked(p) + k * b
    OBVIOUS
  <2>1. PICK V \in SUBSET User : V = UsersIn(p)
    BY <1>34
  <2>2. V \cap X = {} /\ UsersIn(p)' = V \cup X
    BY <1>34, <2>1
  <2>3. (\A u \in V : c[u] = d[u]) /\ (\A u \in X : d[u] = b)
    BY <1>32, <1>33, <2>2 DEF UsersOf
  <2>4. Cardinality(Slots(d, V \cup X)) = Cardinality(Slots(c, V)) + Cardinality(X) * b
    BY <2>2, <2>3, SlotsJoin
  <2>5. Booked(p) = Cardinality(Slots(c, V)) /\ Booked(p)' = Cardinality(Slots(d, V \cup X))
    BY <1>32, <2>1, <2>2 DEF Booked
  <2> QED BY <1>36, <2>4, <2>5
<1>39. \A q : Booked(q) \in Nat
  BY <1>0, BookedType
<1>40. \A q : Booked(q)' \in Nat
  <2>1. \A q : UsersIn(q)' \in SUBSET User
    BY DEF UsersIn
  <2>2. \A q : Cardinality(Slots(d, UsersIn(q)')) \in Nat
    BY <2>1, SlotsFinite
  <2> QED BY <1>32, <2>2 DEF Booked
<1>41. PoolBooked'
  <2> SUFFICES ASSUME NEW q \in BPool, HasPool(q), unbooked'[q] = 0
      PROVE  pools'[q].shared >= 0 /\ pools'[q].shared = pools'[q].size - pools'[q].xoff - Booked(q)'
    BY <1>22 DEF PoolBooked
  <2>1. pools[q].shared >= 0 /\ pools[q].shared = pools[q].size - pools[q].xoff - Booked(q)
    BY <1>0, <1>19 DEF PoolBooked
  <2>2. pools[q].shared \in Int /\ pools[q].size \in Nat /\ pools[q].xoff \in Nat /\ Booked(q) \in Nat
    BY <1>8, <1>39
  <2>3. CASE q # old /\ q # p
    <3>1. Booked(q)' = Booked(q)
      BY <1>35, <2>3
    <3>2. pools'[q] = pools[q]
      BY <1>14, <2>3
    <3> QED BY <2>1, <3>1, <3>2
  <2>4. CASE q = old
    <3>1. pools[old].shared >= -n
      BY <2>1, <2>2, <2>4
    <3>2. pl2[old].shared = pools[old].shared + n
      <4>1. pl1[old].shared = pools[old].shared
        BY <1>7, <1>10
      <4>2. pools[old].shared - (-n) = pools[old].shared + n /\ (n = 0 => pools[old].shared = pools[old].shared + n)
        BY <2>2, <2>4
      <4> QED BY <1>12, <1>19, <2>4, <3>1, <4>1, <4>2
    <3>3. CASE old # p
      <4>1. pools'[old].shared = pools[old].shared + n
        BY <1>13, <3>2, <3>3
      <4>2. Booked(old) = Booked(old)' + n /\ Booked(old)' \in Nat
        BY <1>37, <1>40, <3>3
      <4>3. /\ pools[old].shared + n >= 0
            /\ pools[old].shared + n = pools[old].size - pools[old].xoff - Booked(old)'
        BY <2>1, <2>2, <2>4, <4>2
      <4> QED BY <1>7, <1>14, <2>4, <4>1, <4>3
    <3>4. CASE old = p
      <4>1. pl2[p].shared >= n
        BY <2>1, <2>2, <2>4, <3>2, <3>4
      <4>2. pools'[p].shared = pl2[p].shared - n
        <5>1. n = 0 => pl2[p].shared = pl2[p].shared - n
          BY <2>2, <2>4, <3>2, <3>4
        <5> QED BY <1>13, <1>19, <2>4, <3>4, <4>1, <5>1
      <4>3. Booked(q)' = Booked(q)
        BY <1>35, <2>4, <3>4
      <4>4. pools'[q].size = pools[q].size /\ pools'[q].xoff = pools[q].xoff
        BY <1>14
      <4>5. pools'[p].shared = pools[old].shared
        <5>1. pl2[p].shared = pools[old].shared + n
          BY <3>2, <3>4
        <5>2. pools[old].shared \in Int
          BY <2>2, <2>4
        <5> QED BY <4>2, <5>1, <5>2
      <4> QED BY <2>1, <2>4, <3>4, <4>3, <4>4, <4>5
    <3> QED BY <3>3, <3>4
  <2>5. CASE q = p /\ q # old
    <3>1. pl2[p] = pl1[p] /\ pl1[p].shared = pools[p].shared
      BY <1>0, <1>10, <1>12, <2>5
    <3>2. pools[p].shared >= n
      BY <1>6 DEF Available
    <3>3. pools'[p].shared = pools[p].shared - n
      <4>1. n = 0 => pools[p].shared = pools[p].shared - n
        BY <2>2, <2>5
      <4> QED BY <1>13, <1>19, <2>5, <3>1, <3>2, <4>1
    <3>4. Booked(p)' = Booked(p) + n
      BY <1>19, <1>38, <2>5
    <3>5. /\ pools[p].shared - n >= 0
          /\ pools[p].shared - n = pools[p].size - pools[p].xoff - (Booked(p) + n)
      BY <2>1, <2>2, <2>5, <3>2
    <3> QED BY <1>0, <1>14, <2>5, <3>3, <3>4, <3>5
  <2> QED BY <2>3, <2>4, <2>5
<1> QED BY <1>20, <1>28, <1>29, <1>30, <1>41 DEF BufInv

(* A user that leaves a profile of a pool and takes one: the counts.       *)
LEMMA MovedToMeans ==
  ASSUME BufTypeOK, BufferChain, NEW u \in User, NEW f \in BProf \cup {NoProf}, userOf[u] # f
  PROVE  /\ MovedTo(u, f) \in [BProf -> ProfNode \cup {NoNode}]
         /\ \A g \in BProf : HasProf(g) =>
              /\ MovedTo(u, f)[g] # NoNode
              /\ MovedTo(u, f)[g].pool = profs[g].pool /\ MovedTo(u, f)[g].val = profs[g].val
              /\ MovedTo(u, f)[g].size = profs[g].size /\ MovedTo(u, f)[g].xoff = profs[g].xoff
              /\ MovedTo(u, f)[g].ref
                   = profs[g].ref - (IF userOf[u] = g THEN 1 ELSE 0) + (IF f = g THEN 1 ELSE 0)
         /\ \A g \in BProf : ~HasProf(g) => MovedTo(u, f)[g] = NoNode
<1> DEFINE count(g) == profs[g].ref - (IF userOf[u] = g THEN 1 ELSE 0) + (IF f = g THEN 1 ELSE 0)
           node(g) == [profs[g] EXCEPT !.ref = count(g)]
<1>1. MovedTo(u, f) = [g \in BProf |-> IF ~HasProf(g) THEN NoNode ELSE node(g)]
  BY DEF MovedTo
<1>2. ASSUME NEW g \in BProf, HasProf(g)  PROVE profs[g] \in ProfNode /\ count(g) \in Nat
  <2>1. profs[g].ref = Cardinality(UsersOf(g)) /\ profs[g].ref \in Nat
    BY <1>2, NodeFields DEF BufferChain
  <2>2. userOf[u] = g => profs[g].ref > 0
    <3> SUFFICES ASSUME userOf[u] = g  PROVE profs[g].ref > 0
      OBVIOUS
    <3>1. UsersOf(g) # {}
      BY DEF UsersOf
    <3> QED BY <2>1, <3>1, NodeFields, FS_EmptySet
  <2> QED BY <1>2, <2>1, <2>2, NodeFields
<1> HIDE DEF count
<1>3. ASSUME NEW g \in BProf, HasProf(g)
      PROVE  /\ node(g) \in ProfNode /\ node(g).ref = count(g) /\ node(g).pool = profs[g].pool
             /\ node(g).size = profs[g].size /\ node(g).xoff = profs[g].xoff
             /\ node(g).val = profs[g].val /\ node(g) # NoNode
  BY <1>2, <1>3, ProfEdit, BufferAssumption
<1> HIDE DEF node
<1>4. MovedTo(u, f) \in [BProf -> ProfNode \cup {NoNode}]
  BY <1>1, <1>3
<1>5. \A g \in BProf : MovedTo(u, f)[g] = IF ~HasProf(g) THEN NoNode ELSE node(g)
  BY <1>1
<1> QED BY <1>3, <1>4, <1>5 DEF count

(* The slots of a pool change by what the user gave and takes.             *)
LEMMA SlotsOneMoved ==
  ASSUME NEW c \in [User -> Nat], NEW d \in [User -> Nat], NEW u \in User,
         NEW give \in Nat, NEW take \in Nat, c[u] = give, d[u] = take,
         \A w \in User \ {u} : c[w] = d[w],
         NEW V \in SUBSET User, NEW W \in SUBSET User,
         \A w \in User \ {u} : w \in V <=> w \in W
  PROVE  Cardinality(Slots(d, W))
           = Cardinality(Slots(c, V)) - (IF u \in V THEN give ELSE 0) + (IF u \in W THEN take ELSE 0)
<1>1. PICK X \in SUBSET User : X = {u}
  OBVIOUS
<1>2. Cardinality(X) = 1 /\ 1 * give = give /\ 1 * take = take
  <2>1. Cardinality(X) = 1
    BY <1>1, FS_Singleton
  <2> QED BY <2>1
<1>3. /\ \A w \in V \ X : c[w] = d[w]
      /\ \A w \in X : c[w] = give /\ d[w] = take
      /\ \A w \in X : c[w] = give
      /\ \A w \in X : d[w] = take
  BY <1>1
<1>4. Cardinality(Slots(c, V)) \in Nat /\ Cardinality(Slots(d, W)) \in Nat
  BY SlotsFinite
<1>5. CASE u \in V /\ u \in W
  <2>1. V = W /\ X \subseteq V
    BY <1>1, <1>5
  <2>2. /\ Cardinality(Slots(c, V)) = Cardinality(Slots(c, V \ X)) + Cardinality(X) * give
        /\ Cardinality(Slots(d, V)) = Cardinality(Slots(c, V \ X)) + Cardinality(X) * take
        /\ Cardinality(Slots(c, V \ X)) \in Nat
    <3>1. X \in SUBSET V
      BY <2>1
    <3> QED BY <1>3, <3>1, SlotsMoved
  <2> QED BY <1>2, <1>5, <2>1, <2>2
<1>6. CASE u \in V /\ u \notin W
  <2>1. W = V \ X /\ X \subseteq V
    BY <1>1, <1>6
  <2>2. Cardinality(Slots(c, V)) = Cardinality(Slots(d, V \ X)) + Cardinality(X) * give
    BY <1>3, <2>1, SlotsLeave
  <2> QED BY <1>2, <1>4, <1>6, <2>1, <2>2
<1>7. CASE u \notin V /\ u \in W
  <2>1. W = V \cup X /\ V \cap X = {} /\ \A w \in V : c[w] = d[w]
    BY <1>1, <1>7
  <2>2. Cardinality(Slots(d, V \cup X)) = Cardinality(Slots(c, V)) + Cardinality(X) * take
    BY <1>3, <2>1, SlotsJoin
  <2> QED BY <1>2, <1>4, <1>7, <2>1, <2>2
<1>8. CASE u \notin V /\ u \notin W
  <2>1. W = V /\ \A w \in V : c[w] = d[w]
    BY <1>8
  <2>2. Slots(d, W) = Slots(c, V)
    BY <2>1, SlotsSame
  <2> QED BY <1>4, <1>8, <2>2
<1> QED BY <1>5, <1>6, <1>7, <1>8

(* A user changes its profile: its old pool gets back what it gave, its    *)
(* new pool gives what it takes, once if they are the same.                *)
LEMMA UpdateUserInv ==
  ASSUME BufInv, NEW u \in User, NEW f \in BProf \cup {NoProf}, UpdateUser(u, f),
         pgs' \subseteq BPg, UNCHANGED <<req, leaked, unrestored>>
  PROVE  BufInv'
<1>0. BufTypeOK /\ BufferChain /\ LeakGone /\ PoolBooked /\ UsersFollowProfile
  BY DEF BufInv
<1>1. /\ userOf[u] # f
      /\ f # NoProf => HasProf(f)
      /\ userOf' = [userOf EXCEPT ![u] = f]
      /\ applied' = [applied EXCEPT ![u] = IF f = NoProf THEN NoBVal ELSE profs[f].val]
      /\ profs' = MovedTo(u, f)
  BY DEF UpdateUser
<1>2. PICK old \in BProf \cup {NoProf} : old = userOf[u]
  BY <1>0 DEF BufTypeOK
<1>3. \A g \in BProf : HasProf(g) => profs[g].pool \in BPool /\ HasPool(profs[g].pool)
  BY <1>0, NodeFields DEF BufferChain
<1>4. \A w \in User : userOf[w] # NoProf => userOf[w] \in BProf /\ HasProf(userOf[w])
  BY <1>0 DEF BufTypeOK, BufferChain
<1>5. PICK give \in Nat : give = IF old = NoProf THEN 0 ELSE Charge(pools, profs[old])
  BY <1>0, <1>2, <1>4, ChargeType
<1>6. PICK take \in Nat : take = IF f = NoProf THEN 0 ELSE Charge(pools, profs[f])
  BY <1>0, <1>1, ChargeType
<1>7. PICK from : from = IF old = NoProf THEN NoNode ELSE profs[old].pool
  OBVIOUS
<1>8. PICK to : to = IF f = NoProf THEN NoNode ELSE profs[f].pool
  OBVIOUS
<1>9. /\ old = NoProf => give = 0 /\ from = NoNode
      /\ old # NoProf => HasProf(old) /\ from = profs[old].pool /\ from \in BPool /\ HasPool(from)
      /\ f = NoProf => take = 0 /\ to = NoNode
      /\ f # NoProf => HasProf(f) /\ to = profs[f].pool /\ to \in BPool /\ HasPool(to)
      /\ NoNode \notin BPool
  BY <1>1, <1>2, <1>3, <1>4, <1>5, <1>6, <1>7, <1>8, BufferAssumption
<1>10. /\ f # NoProf => Available(to, Needed(old, f))
       /\ \E back, taken \in BOOLEAN :
          IF from = to
          THEN /\ pools' = Recalc(pools, to, take - give, taken)
               /\ unbooked' = Misbooked({q \in {to} : ~taken /\ take # give})
          ELSE /\ pools' = Recalc(Recalc(pools, from, -give, back), to, take, taken)
               /\ unbooked' = Misbooked({q \in {from} \cap BPool : ~back /\ give # 0}
                                       \cup {q \in {to} \cap BPool : ~taken /\ take # 0})
  BY <1>2, <1>5, <1>6, <1>7, <1>8 DEF UpdateUser
<1>11. \A q \in BPool : HasPool(q) =>
         /\ pools[q].shared \in Int /\ pools[q].size \in Nat /\ pools[q].xoff \in Nat
         /\ unbooked[q] = 0 => pools[q].shared >= 0
  BY <1>0, NodeFields DEF PoolBooked
<1>12. /\ f # NoProf /\ from # to => pools[to].shared >= take
       /\ f # NoProf /\ from = to /\ take > give => pools[to].shared >= take - give
  <2> SUFFICES ASSUME f # NoProf
               PROVE  /\ from # to => pools[to].shared >= take
                      /\ from = to /\ take > give => pools[to].shared >= take - give
    OBVIOUS
  <2>1. pools[to].shared >= Needed(old, f)
    BY <1>10 DEF Available
  <2>2. from # to => Needed(old, f) = take
    BY <1>6, <1>9 DEF Needed
  <2>3. from = to /\ take > give => Needed(old, f) = take - give
    BY <1>5, <1>6, <1>9 DEF Needed
  <2> QED BY <2>1, <2>2, <2>3
<1> DEFINE GivenBack(q) == (IF q = from THEN give ELSE 0)
           TakenOut(q) == (IF q = to THEN take ELSE 0)
<1>13. /\ pools' \in [BPool -> PoolNode \cup {NoNode}]
       /\ \A q \in BPool : HasPool(q) =>
            /\ pools'[q] # NoNode /\ pools'[q].ref = pools[q].ref /\ pools'[q].size = pools[q].size
            /\ pools'[q].xoff = pools[q].xoff /\ pools'[q].shared \in Int
       /\ \A q \in BPool : ~HasPool(q) => pools'[q] = NoNode
       /\ unbooked' \in [BPool -> Nat]
       /\ \A q \in BPool : HasPool(q) /\ unbooked'[q] = 0 =>
            /\ unbooked[q] = 0 /\ pools'[q].shared >= 0
            /\ pools'[q].shared = pools[q].shared + GivenBack(q) - TakenOut(q)
  <2>0. unbooked \in [BPool -> Nat] /\ pools \in [BPool -> PoolNode \cup {NoNode}]
    BY <1>0 DEF BufTypeOK
  <2>1. CASE from = to
    <3>1. to \in BPool /\ HasPool(to) /\ f # NoProf
      BY <1>1, <1>2, <1>9, <2>1
    <3>2. PICK taken \in BOOLEAN :
            /\ pools' = Recalc(pools, to, take - give, taken)
            /\ unbooked' = Misbooked({q \in {to} : ~taken /\ take # give})
      BY <1>10, <2>1
    <3>3. take - give \in Int
      OBVIOUS
    <3>4. /\ pools' \in [BPool -> PoolNode \cup {NoNode}]
          /\ \A q \in BPool : q # to => pools'[q] = pools[q]
          /\ \A q \in BPool : HasPool(q) =>
               /\ pools'[q] # NoNode /\ pools'[q].ref = pools[q].ref /\ pools'[q].size = pools[q].size
               /\ pools'[q].xoff = pools[q].xoff /\ pools'[q].shared \in Int
          /\ \A q \in BPool : ~HasPool(q) => pools'[q] = NoNode
          /\ taken /\ pools[to].shared >= take - give => pools'[to].shared = pools[to].shared - (take - give)
          /\ take - give = 0 => pools'[to].shared = pools[to].shared
      BY <2>0, <3>1, <3>2, <3>3, RecalcMeans DEF HasPool
    <3>5. /\ unbooked' \in [BPool -> Nat]
          /\ \A q \in BPool : unbooked'[q] = 0 => unbooked[q] = 0
          /\ unbooked'[to] = 0 => taken \/ take = give
      BY <2>0, <3>1, <3>2 DEF Misbooked
    <3>6. ASSUME NEW q \in BPool, HasPool(q), unbooked'[q] = 0
          PROVE  /\ unbooked[q] = 0 /\ pools'[q].shared >= 0
                 /\ pools'[q].shared = pools[q].shared + GivenBack(q) - TakenOut(q)
      <4>1. unbooked[q] = 0 /\ pools[q].shared >= 0 /\ pools[q].shared \in Int
        BY <1>11, <3>5, <3>6
      <4>2. CASE q # to
        <5>1. pools'[q] = pools[q] /\ GivenBack(q) = 0 /\ TakenOut(q) = 0
          BY <2>1, <3>4, <4>2
        <5> QED BY <4>1, <5>1
      <4>3. CASE q = to
        <5>1. GivenBack(q) = give /\ TakenOut(q) = take
          BY <2>1, <4>3
        <5>2. pools[q].shared >= take - give
          BY <1>12, <2>1, <3>1, <4>1, <4>3
        <5>3. pools'[q].shared = pools[q].shared - (take - give)
          <6>1. take = give => take - give = 0 /\ pools[q].shared - (take - give) = pools[q].shared
            BY <4>1
          <6> QED BY <3>4, <3>5, <3>6, <4>3, <5>2, <6>1
        <5> HIDE DEF GivenBack, TakenOut
        <5> QED BY <4>1, <5>1, <5>2, <5>3
      <4> QED BY <4>2, <4>3
    <3> QED BY <3>4, <3>5, <3>6
  <2>2. CASE from # to
    <3>1. PICK back \in BOOLEAN, taken \in BOOLEAN :
            /\ pools' = Recalc(Recalc(pools, from, -give, back), to, take, taken)
            /\ unbooked' = Misbooked({q \in {from} \cap BPool : ~back /\ give # 0}
                                       \cup {q \in {to} \cap BPool : ~taken /\ take # 0})
      BY <1>10, <2>2
    <3>2. -give \in Int /\ take \in Int
      OBVIOUS
    <3>3. PICK pl \in [BPool -> PoolNode \cup {NoNode}] :
            /\ pl = Recalc(pools, from, -give, back)
            /\ \A q \in BPool : q # from => pl[q] = pools[q]
            /\ \A q \in BPool : HasPool(q) =>
                 /\ pl[q] # NoNode /\ pl[q].ref = pools[q].ref /\ pl[q].size = pools[q].size
                 /\ pl[q].xoff = pools[q].xoff /\ pl[q].shared \in Int
            /\ \A q \in BPool : ~HasPool(q) => pl[q] = NoNode
            /\ from \in BPool /\ back /\ pools[from].shared >= -give =>
                 pl[from].shared = pools[from].shared - (-give)
            /\ from \in BPool /\ -give = 0 => pl[from].shared = pools[from].shared
      <4>1. from \in BPool => pools[from] # NoNode
        BY <1>9 DEF HasPool
      <4> QED BY <2>0, <3>2, <4>1, RecalcMeans DEF HasPool
    <3>4. /\ pools' \in [BPool -> PoolNode \cup {NoNode}]
          /\ \A q \in BPool : q # to => pools'[q] = pl[q]
          /\ \A q \in BPool : HasPool(q) =>
               /\ pools'[q] # NoNode /\ pools'[q].ref = pl[q].ref /\ pools'[q].size = pl[q].size
               /\ pools'[q].xoff = pl[q].xoff /\ pools'[q].shared \in Int
          /\ \A q \in BPool : ~HasPool(q) => pools'[q] = NoNode
          /\ to \in BPool /\ taken /\ pl[to].shared >= take => pools'[to].shared = pl[to].shared - take
          /\ to \in BPool /\ take = 0 => pools'[to].shared = pl[to].shared
      <4>1. to \in BPool => pl[to] # NoNode
        BY <1>9, <3>3
      <4>2. pools' = Recalc(pl, to, take, taken)
        BY <3>1, <3>3
      <4> QED BY <3>2, <3>3, <4>1, <4>2, RecalcMeans
    <3>5. /\ unbooked' \in [BPool -> Nat]
          /\ \A q \in BPool : unbooked'[q] = 0 =>
               /\ unbooked[q] = 0
               /\ q = from => back \/ give = 0
               /\ q = to => taken \/ take = 0
      BY <2>0, <3>1 DEF Misbooked
    <3>6. ASSUME NEW q \in BPool, HasPool(q), unbooked'[q] = 0
          PROVE  /\ unbooked[q] = 0 /\ pools'[q].shared >= 0
                 /\ pools'[q].shared = pools[q].shared + GivenBack(q) - TakenOut(q)
      <4>1. unbooked[q] = 0 /\ pools[q].shared >= 0 /\ pools[q].shared \in Int
        BY <1>11, <3>5, <3>6
      <4>2. CASE q # to /\ q # from
        <5>1. pools'[q] = pools[q] /\ GivenBack(q) = 0 /\ TakenOut(q) = 0
          BY <3>3, <3>4, <4>2
        <5> QED BY <4>1, <5>1
      <4>3. CASE q = from
        <5>1. GivenBack(q) = give /\ TakenOut(q) = 0 /\ pools'[q] = pl[q]
          BY <2>2, <3>4, <4>3
        <5>2. pools[q].shared >= -give /\ pools[q].shared - (-give) = pools[q].shared + give
              /\ pools[q].shared + give >= 0
          BY <4>1
        <5>3. (give = 0 => -give = 0) /\ (give = 0 => pools[q].shared + give = pools[q].shared)
          <6>1. give = 0 => -give = 0
            <7>1. PICK k \in Int : k = -give
              OBVIOUS
            <7>2. k + give = 0
              BY <7>1
            <7>3. give = 0 => k = 0
              BY <7>2
            <7> QED BY <7>1, <7>3
          <6>2. give = 0 => pools[q].shared + give = pools[q].shared
            BY <4>1
          <6> QED BY <6>1, <6>2
        <5>4. pl[q].shared = pools[q].shared + give
          BY <3>3, <3>5, <3>6, <4>3, <5>2, <5>3
        <5> HIDE DEF GivenBack, TakenOut
        <5> QED BY <4>1, <5>1, <5>2, <5>4
      <4>4. CASE q = to
        <5>1. GivenBack(q) = 0 /\ TakenOut(q) = take /\ pl[q] = pools[q]
          BY <2>2, <3>3, <4>4
        <5>2. pools[q].shared >= take
          BY <1>9, <1>12, <2>2, <4>4
        <5>3. take = 0 => pools[q].shared - take = pools[q].shared
          BY <4>1
        <5>4. pools'[q].shared = pools[q].shared - take
          BY <3>4, <3>5, <3>6, <4>4, <5>1, <5>2, <5>3
        <5> HIDE DEF GivenBack, TakenOut
        <5> QED BY <4>1, <5>1, <5>2, <5>4
      <4> QED BY <4>2, <4>3, <4>4
    <3>7. \A q \in BPool : HasPool(q) =>
            /\ pools'[q] # NoNode /\ pools'[q].ref = pools[q].ref /\ pools'[q].size = pools[q].size
            /\ pools'[q].xoff = pools[q].xoff /\ pools'[q].shared \in Int
      BY <3>3, <3>4
    <3> QED BY <3>4, <3>5, <3>6, <3>7
  <2> QED BY <2>1, <2>2
<1>14. /\ profs' \in [BProf -> ProfNode \cup {NoNode}]
       /\ \A g \in BProf : HasProf(g) =>
            /\ profs'[g] # NoNode /\ profs'[g].pool = profs[g].pool /\ profs'[g].val = profs[g].val
            /\ profs'[g].size = profs[g].size /\ profs'[g].xoff = profs[g].xoff
            /\ profs'[g].ref = profs[g].ref - (IF old = g THEN 1 ELSE 0) + (IF f = g THEN 1 ELSE 0)
       /\ \A g \in BProf : ~HasProf(g) => profs'[g] = NoNode
  BY <1>0, <1>1, <1>2, MovedToMeans
<1>15. /\ userOf' \in [User -> BProf \cup {NoProf}] /\ userOf'[u] = f
       /\ \A w \in User \ {u} : userOf'[w] = userOf[w]
  BY <1>0, <1>1 DEF BufTypeOK
<1>16. /\ applied' \in [User -> BVal \cup {NoBVal}]
       /\ f # NoProf => applied'[u] = profs[f].val
       /\ \A w \in User \ {u} : applied'[w] = applied[w]
  <2>1. f # NoProf => profs[f].val \in BVal
    <3>1. f # NoProf => profs[f] \in ProfNode
      BY <1>0, <1>1, NodeFields
    <3> QED BY <3>1 DEF ProfNode
  <2>2. applied \in [User -> BVal \cup {NoBVal}]
    BY <1>0 DEF BufTypeOK
  <2> QED BY <1>1, <2>1, <2>2
<1>17. BufTypeOK'
  BY <1>0, <1>13, <1>14, <1>15, <1>16 DEF BufTypeOK
<1>18. /\ \A g \in BProf : HasProf(g)' = HasProf(g)
       /\ \A q \in BPool : HasPool(q)' = HasPool(q) /\ ProfsIn(q)' = ProfsIn(q)
  <2>1. \A g \in BProf : HasProf(g)' = HasProf(g)
    BY <1>14 DEF HasProf
  <2>2. \A q \in BPool : HasPool(q)' = HasPool(q)
    BY <1>13 DEF HasPool
  <2>3. \A q \in BPool : ProfsIn(q)' = ProfsIn(q)
    BY <1>14, <2>1 DEF ProfsIn
  <2> QED BY <2>1, <2>2, <2>3
<1>19. UsersKnown'
  BY <1>1, <1>4, <1>15, <1>18 DEF UsersKnown, HasProf
<1>20. ProfsCounted'
  <2> SUFFICES ASSUME NEW g \in BProf, HasProf(g)
               PROVE  /\ pools'[profs'[g].pool] # NoNode
                      /\ profs'[g].ref = Cardinality(UsersOf(g)')
    BY <1>18 DEF ProfsCounted, HasPool
  <2>1. pools'[profs'[g].pool] # NoNode
    BY <1>3, <1>13, <1>14
  <2>2. /\ profs[g].ref = Cardinality(UsersOf(g)) /\ IsFiniteSet(UsersOf(g))
        /\ Cardinality(UsersOf(g)) \in Nat
    BY <1>0, NodeFields DEF BufferChain
  <2>3. \A w \in User : w \in UsersOf(g)' <=> IF w = u THEN f = g ELSE w \in UsersOf(g)
    BY <1>15 DEF UsersOf
  <2>4. UsersOf(g) \in SUBSET User /\ UsersOf(g)' \in SUBSET User /\ (u \in UsersOf(g) <=> old = g)
    BY <1>2 DEF UsersOf
  <2>5. CASE g = f
    <3>1. UsersOf(g)' = UsersOf(g) \cup {u} /\ u \notin UsersOf(g) /\ old # g
      BY <1>1, <1>2, <2>3, <2>4, <2>5
    <3>2. Cardinality(UsersOf(g)') = Cardinality(UsersOf(g)) + 1
      BY <2>2, <3>1, FS_AddElement
    <3>3. profs'[g].ref = profs[g].ref - 0 + 1
      BY <1>14, <2>5, <3>1
    <3> QED BY <2>1, <2>2, <3>2, <3>3
  <2>6. CASE g = old
    <3>1. UsersOf(g)' = UsersOf(g) \ {u} /\ u \in UsersOf(g) /\ f # g
      BY <1>1, <1>2, <2>3, <2>4, <2>6
    <3>2. Cardinality(UsersOf(g)') = Cardinality(UsersOf(g)) - 1
      BY <2>2, <3>1, FS_RemoveElement
    <3>3. profs'[g].ref = profs[g].ref - 1 + 0
      BY <1>14, <2>6, <3>1
    <3> QED BY <2>1, <2>2, <3>2, <3>3
  <2>7. CASE g # f /\ g # old
    <3>1. UsersOf(g)' = UsersOf(g)
      BY <2>3, <2>4, <2>7
    <3>2. profs'[g].ref = profs[g].ref - 0 + 0
      BY <1>14, <2>7
    <3> QED BY <2>1, <2>2, <3>1, <3>2
  <2> QED BY <2>5, <2>6, <2>7
<1>21. PoolsCounted'
  BY <1>0, <1>13, <1>18 DEF PoolsCounted, BufferChain
<1>22. BufferChain'
  BY <1>19, <1>20, <1>21 DEF BufferChain, UsersKnown, ProfsCounted, PoolsCounted
<1>23. LeakGone'
  BY <1>0, <1>18 DEF LeakGone
<1>24. UsersFollowProfile'
  <2> SUFFICES ASSUME NEW w \in User, userOf'[w] # NoProf, userOf'[w] \notin unrestored
               PROVE  applied'[w] = profs'[userOf'[w]].val
    BY DEF UsersFollowProfile
  <2>1. CASE w = u
    BY <1>1, <1>14, <1>15, <1>16, <2>1
  <2>2. CASE w # u
    <3>1. userOf'[w] = userOf[w] /\ applied'[w] = applied[w] /\ profs'[userOf[w]].val = profs[userOf[w]].val
      BY <1>4, <1>14, <1>15, <1>16, <2>2
    <3> QED BY <1>0, <3>1 DEF UsersFollowProfile
  <2> QED BY <2>1, <2>2
<1>25. ASSUME NEW g \in BProf, HasProf(g)  PROVE Charge(pools', profs'[g]) = Charge(pools, profs[g])
  BY <1>3, <1>13, <1>14, <1>25 DEF Charge, Reserved
<1>26. PICK c \in [User -> Nat], d \in [User -> Nat] :
         /\ c = ChargeOf /\ d = ChargeOf' /\ c[u] = give /\ d[u] = take
         /\ \A w \in User \ {u} : c[w] = d[w]
  <2>1. /\ ChargeOf \in [User -> Nat]
        /\ \A w \in User : ChargeOf[w] = IF userOf[w] = NoProf THEN 0 ELSE Charge(pools, profs[userOf[w]])
    BY <1>0, ChargeType
  <2>2. ChargeOf' = [w \in User |-> IF userOf'[w] = NoProf THEN 0 ELSE Charge(pools', profs'[userOf'[w]])]
    BY DEF ChargeOf, Charge, Reserved
  <2>3. \A w \in User \ {u} : userOf'[w] # NoProf => userOf'[w] = userOf[w] /\ Charge(pools', profs'[userOf'[w]]) = Charge(pools, profs[userOf[w]])
    BY <1>4, <1>15, <1>25
  <2>4. f # NoProf => Charge(pools', profs'[f]) = Charge(pools, profs[f])
    BY <1>9, <1>25
  <2>5. \A w \in User : ChargeOf'[w] = IF w = u THEN take ELSE ChargeOf[w]
    BY <1>6, <1>15, <2>1, <2>2, <2>3, <2>4
  <2>6. ChargeOf' \in [User -> Nat]
    BY <2>1, <2>2, <2>5
  <2>7. ChargeOf[u] = give
    BY <1>2, <1>5, <2>1
  <2> QED BY <2>1, <2>5, <2>6, <2>7
<1>27. ASSUME NEW q \in BPool  PROVE Booked(q)' = Booked(q) - GivenBack(q) + TakenOut(q)
  <2>1. PICK V \in SUBSET User, W \in SUBSET User : V = UsersIn(q) /\ W = UsersIn(q)'
    BY DEF UsersIn
  <2>2. \A w \in User \ {u} : w \in V <=> w \in W
    BY <1>4, <1>14, <1>15, <2>1 DEF UsersIn
  <2>3. (u \in V <=> q = from) /\ (u \in W <=> q = to)
    BY <1>2, <1>9, <1>14, <1>15, <2>1 DEF UsersIn
  <2>4. Cardinality(Slots(d, W))
          = Cardinality(Slots(c, V)) - (IF u \in V THEN give ELSE 0) + (IF u \in W THEN take ELSE 0)
    BY <1>26, <2>2, SlotsOneMoved
  <2>5. Booked(q) = Cardinality(Slots(c, V)) /\ Booked(q)' = Cardinality(Slots(d, W))
    BY <1>26, <2>1 DEF Booked
  <2> QED BY <2>3, <2>4, <2>5
<1>28. PoolBooked'
  <2> SUFFICES ASSUME NEW q \in BPool, HasPool(q), unbooked'[q] = 0
      PROVE  pools'[q].shared >= 0 /\ pools'[q].shared = pools'[q].size - pools'[q].xoff - Booked(q)'
    BY <1>18 DEF PoolBooked
  <2>1. /\ unbooked[q] = 0 /\ pools'[q].shared >= 0
        /\ pools'[q].shared = pools[q].shared + GivenBack(q) - TakenOut(q)
        /\ pools'[q].size = pools[q].size /\ pools'[q].xoff = pools[q].xoff
    BY <1>13
  <2>2. pools[q].shared = pools[q].size - pools[q].xoff - Booked(q)
    BY <1>0, <2>1 DEF PoolBooked
  <2>3. /\ pools[q].size \in Nat /\ pools[q].xoff \in Nat /\ Booked(q) \in Nat
        /\ GivenBack(q) \in Nat /\ TakenOut(q) \in Nat
    BY <1>0, <1>11, BookedType
  <2>4. Booked(q)' = Booked(q) - GivenBack(q) + TakenOut(q)
    BY <1>27
  <2> HIDE DEF GivenBack, TakenOut
  <2> QED BY <2>1, <2>2, <2>3, <2>4
<1> QED BY <1>17, <1>22, <1>23, <1>24, <1>28 DEF BufInv

LEMMA SetUserInv ==
  ASSUME BufInv, NEW u \in User, NEW f \in BProf \cup {NoProf}, SetUser(u, f)
  PROVE  BufInv'
<1>1. UpdateUser(u, f) /\ pgs' \subseteq BPg /\ UNCHANGED <<req, leaked, unrestored>>
  BY DEF SetUser, BufInv, BufTypeOK
<1> QED BY <1>1, UpdateUserInv

LEMMA DestroyPgInv ==
  ASSUME BufInv, NEW u \in BPg, DestroyPg(u)
  PROVE  BufInv'
<1>1. pgs' \subseteq BPg /\ UNCHANGED <<req, leaked, unrestored>>
  BY DEF DestroyPg, BufInv, BufTypeOK
<1>2. CASE UpdateUser(u, NoProf)
  BY <1>1, <1>2, UpdateUserInv DEF User
<1>3. CASE UNCHANGED <<pools, profs, userOf, applied, unbooked>>
  <2>1. BufTypeOK'
    BY <1>1, <1>3 DEF BufInv, BufTypeOK
  <2>2. BufferChain' /\ LeakGone' /\ PoolBooked'
    BY <1>1, <1>3, ChainSame
  <2>3. UsersFollowProfile'
    BY <1>1, <1>3 DEF BufInv, UsersFollowProfile
  <2> QED BY <2>1, <2>2, <2>3 DEF BufInv
<1> QED BY <1>2, <1>3 DEF DestroyPg

LEMMA BufInvNext == BufInv /\ [BufNext]_bufVars => BufInv'
<1> SUFFICES ASSUME BufInv, [BufNext]_bufVars  PROVE BufInv'
  OBVIOUS
<1>1. CASE UNCHANGED bufVars
  <2>1. BufTypeOK'
    BY <1>1 DEF bufVars, BufInv, BufTypeOK
  <2>2. BufferChain' /\ LeakGone' /\ PoolBooked'
    BY <1>1, ChainSame DEF bufVars
  <2>3. UsersFollowProfile'
    BY <1>1 DEF bufVars, BufInv, UsersFollowProfile
  <2> QED BY <2>1, <2>2, <2>3 DEF BufInv
<1>2. CASE BufNext
  <2>1. ASSUME NEW p \in BPool, CreatePool(p) \/ RemovePool(p) \/ SetPoolSize(p)
        PROVE  BufInv'
    BY <2>1, CreatePoolInv, RemovePoolInv, SetPoolSizeInv
  <2>2. ASSUME NEW f \in BProf, \/ CreateProfile(f) \/ RemoveProfile(f) \/ SetThreshold(f)
                                \/ SetThresholdMode(f) \/ SetProfSize(f)
        PROVE  BufInv'
    BY <2>2, CreateProfileInv, RemoveProfileInv, SetThresholdInv, SetThresholdModeInv, SetProfSizeInv
  <2>3. ASSUME NEW f \in BProf, NEW p \in BPool, SetProfPool(f, p)
        PROVE  BufInv'
    BY <2>3, SetProfPoolInv
  <2>4. ASSUME NEW u \in User, NEW f \in BProf \cup {NoProf}, SetUser(u, f)
        PROVE  BufInv'
    BY <2>4, SetUserInv
  <2>5. ASSUME NEW u \in BPg, CreatePg(u) \/ DestroyPg(u)
        PROVE  BufInv'
    BY <2>5, CreatePgInv, DestroyPgInv
  <2> QED BY <1>2, <2>1, <2>2, <2>3, <2>4, <2>5, CheckProfileInv DEF BufNext
<1> QED BY <1>1, <1>2

---------------------------------------------------------------------------
(* The components side by side                                             *)

QosInv == WredInv /\ BufInv /\ SchedInv /\ MapInv /\ PolInv

LEMMA QosInvInit == QosInit => QosInv
BY WredInvInit, BufInvInit, SchedInvInit, MapInvInit, PolInvInit DEF QosInit, QosInv

(* A step of Qos is a step or a stutter of each component.                 *)
LEMMA QosStep ==
  ASSUME [QosNext]_qosVars
  PROVE  /\ [WredNext]_wredVars /\ [BufNext]_bufVars /\ [SchedNext]_schedVars
         /\ [MapNext]_mapVars /\ [PolNext]_polVars
BY DEF QosNext, qosVars

LEMMA QosInvNext == QosInv /\ [QosNext]_qosVars => QosInv'
BY QosStep, WredInvNext, BufInvNext, SchedInvNext, MapInvNext, PolInvNext DEF QosInv

LEMMA QosInductive == QosSpec => []QosInv
BY QosInvInit, QosInvNext, PTL DEF QosSpec

(* No count of a pool, a profile, a scheduler or a policer goes below 0,   *)
(* and every field keeps its type.                                         *)
THEOREM QosTypes == QosSpec => []QosTypeOK
<1>1. QosInv => QosTypeOK
  BY WredInvMeans DEF QosInv, BufInv, SchedInv, MapInv, PolInv, QosTypeOK
<1> QED BY <1>1, QosInductive, PTL

(* What names a WRED profile, a scheduler profile, a map or a policer is   *)
(* in the list of that object, and the object is in its tree, so the       *)
(* removals that go by the lists (sai_qos_wred.c:613-725,                  *)
(* sai_qos_scheduler.c:552-698, sai_qos_maps.c:287, sai_qos_policer.c:669) *)
(* leave no dangling id; groups list their children; an entry of a map     *)
(* names a queue of its own bank.                                          *)
THEOREM QosLinked == QosSpec => []QosLinks
<1>1. QosInv => QosLinks
  BY WredInvMeans DEF QosInv, SchedInv, MapInv, PolInv, QosLinks
<1> QED BY <1>1, QosInductive, PTL

(* However pools, profiles and users come, move and go, each count is the  *)
(* number of those counted, and what is left of a pool whose bookings all  *)
(* went through is its size less what is set aside and what its users      *)
(* reserve (sai_qos_buffer.c:418-522, 948-1003).                           *)
THEOREM BuffersSound == QosSpec => []BufferSound
<1>1. QosInv => BufferSound
  BY DEF QosInv, BufInv, BufferSound
<1> QED BY <1>1, QosInductive, PTL

(* What uses a buffer or scheduler profile runs with its values, also      *)
(* after a refused change that was set back (sai_qos_buffer.c:703-770,     *)
(* sai_qos_scheduler_util.c:83-246).                                       *)
THEOREM QosFollows == QosSpec => []QosRuns
<1>1. QosInv => QosRuns
  BY DEF QosInv, BufInv, SchedInv, QosRuns
<1> QED BY <1>1, QosInductive, PTL
=============================================================================
