--------------------------- MODULE VlanStpProofs ---------------------------
(* The counter of STP ports of an instance is exact, for any number of     *)
(* instances, ports and threads, except on an instance where a creation    *)
(* has run on a node that was freed (Stp.tla).  On that rests the rest:    *)
(* the VLAN handlers keep the map of VLANs and the lists of the instances  *)
(* in step for any number of threads, VLANs and instances, and implement   *)
(* the abstract specification of VlanTree.                                 *)
(*                                                                         *)
(* The map and the lists are changed with the VLAN lock held.  What holds  *)
(* between the critical sections of the STP lock is stated for the owner   *)
(* of the VLAN lock at each label (AtLabel).                               *)
EXTENDS VlanStp, FiniteSetTheorems, TLAPS

(* The STP ports of an instance in the global tree                         *)
Attached(i) == {s \in StpPort : stpPort[s] # NoInfo /\ stpPort[s].inst = i}

StpTypes ==
  /\ stps \in SUBSET Stp
  /\ vlans \in [Stp -> SUBSET Vlan]
  /\ ports \in [Stp -> SUBSET Port]
  /\ numPorts \in [Stp -> Int]
  /\ stpPort \in [StpPort -> StpPortInfo \cup {NoInfo}]
  /\ portCall \in [Thread -> PortCall \cup {NoCall}]
  /\ tainted \in SUBSET Stp

CountsPositive == \A i \in Stp \ tainted : numPorts[i] >= 0

(* A call whose instance node is still valid has found one that exists.    *)
FreshExists ==
  \A t \in Thread : portCall[t] # NoCall /\ portCall[t].fresh => portCall[t].inst \in stps

(* No port is twice on an instance.                                        *)
PortOnce ==
  \A i \in stps \ tainted : \A r, s \in Attached(i) :
    stpPort[r].port = stpPort[s].port => r = s

Counted(i) ==
  /\ ports[i] = {stpPort[s].port : s \in Attached(i)}
  /\ numPorts[i] = Cardinality(Attached(i))

AllCounted == \A i \in stps \ tainted : Counted(i)

StpInv ==
  /\ StpTypes /\ CountsPositive /\ FreshExists
  /\ PortOnce /\ AllCounted /\ StrayPortOnlyByRace

---------------------------------------------------------------------------
LEMMA StpInvMeans == StpInv => StpTypeOK /\ StpPortsCounted
BY DEF StpInv, StpTypes, CountsPositive, AllCounted, Counted, Attached, StpTypeOK, StpPortsCounted

LEMMA AttachedFinite ==
  \A i : IsFiniteSet(Attached(i)) /\ Cardinality(Attached(i)) \in Nat
<1> SUFFICES ASSUME NEW i  PROVE IsFiniteSet(Attached(i)) /\ Cardinality(Attached(i)) \in Nat
  OBVIOUS
<1>1. Attached(i) \in SUBSET StpPort
  BY DEF Attached
<1>2. IsFiniteSet(Attached(i))
  BY <1>1, FiniteAssumption, FS_Subset
<1> QED BY <1>2, FS_CardinalityType

LEMMA StpInvInit == StpInit => StpInv
<1> SUFFICES ASSUME StpInit  PROVE StpInv
  OBVIOUS
<1>1. \A i : Attached(i) = {}
  BY DEF StpInit, Attached
<1>2. StpTypes /\ CountsPositive /\ FreshExists
  BY DefaultAssumption DEF StpInit, StpTypes, CountsPositive, FreshExists
<1>3. AllCounted
  <2>1. Cardinality({}) = 0
    BY FS_EmptySet
  <2>2. ASSUME NEW i \in stps \ tainted  PROVE Counted(i)
    <3>1. i \in Stp /\ ports[i] = {} /\ numPorts[i] = 0 /\ Attached(i) = {}
      BY <1>1, <1>2, <2>2 DEF StpInit, StpTypes
    <3> QED BY <2>1, <3>1 DEF Counted
  <2> QED BY <2>2 DEF AllCounted
<1>4. PortOnce /\ StrayPortOnlyByRace
  BY <1>1 DEF StpInit, PortOnce, StrayPortOnlyByRace
<1> QED BY <1>2, <1>3, <1>4 DEF StpInv

---------------------------------------------------------------------------
(* Steps that leave the ports of all instances alone                       *)

LEMMA VlansKeepStpInv ==
  ASSUME StpInv, vlans' \in [Stp -> SUBSET Vlan], UNCHANGED <<stps, portVars>>
  PROVE  StpInv'
<1>1. /\ stps' = stps /\ ports' = ports /\ numPorts' = numPorts
      /\ stpPort' = stpPort /\ portCall' = portCall /\ tainted' = tainted
  BY DEF portVars
<1>2. \A i : Attached(i)' = Attached(i)
  BY <1>1 DEF Attached
<1>3. StpTypes' /\ CountsPositive' /\ FreshExists' /\ StrayPortOnlyByRace'
  BY <1>1 DEF StpInv, StpTypes, CountsPositive, FreshExists, StrayPortOnlyByRace
<1>4. PortOnce'
  BY <1>1, <1>2 DEF StpInv, PortOnce
<1>5. AllCounted'
  BY <1>1, <1>2 DEF StpInv, AllCounted, Counted
<1> QED BY <1>3, <1>4, <1>5 DEF StpInv

(* A new instance has no STP port.                                         *)
LEMMA CreateInstanceInv ==
  ASSUME StpInv, NEW i \in Stp, CreateInstance(i)
  PROVE  StpInv'
<1>1. /\ stps' = stps \cup {i} /\ stpPort' = stpPort /\ portCall' = portCall
      /\ tainted' = tainted /\ i \notin stps
  BY DEF CreateInstance
<1>2. \A j : Attached(j)' = Attached(j)
  BY <1>1 DEF Attached
<1>3. StpTypes'
  BY DEF StpInv, StpTypes, CreateInstance
<1>4. CountsPositive' /\ FreshExists' /\ StrayPortOnlyByRace'
  BY DEF StpInv, StpTypes, CountsPositive, FreshExists, StrayPortOnlyByRace, CreateInstance
<1>5. i \notin tainted => Attached(i) = {}
  BY <1>1 DEF StpInv, StrayPortOnlyByRace, Attached
<1>6. PortOnce'
  BY <1>1, <1>2, <1>5 DEF StpInv, PortOnce
<1>7. ASSUME NEW j \in stps' \ tainted'  PROVE Counted(j)'
  <2>1. CASE j = i
    BY <1>1, <1>2, <1>5, <1>7, <2>1, FS_EmptySet DEF CreateInstance, Counted, StpInv, StpTypes
  <2>2. CASE j # i
    BY <1>1, <1>2, <1>7, <2>2 DEF CreateInstance, Counted, AllCounted, StpInv, StpTypes
  <2> QED BY <2>1, <2>2
<1> QED BY <1>3, <1>4, <1>6, <1>7 DEF StpInv, AllCounted

(* An instance that goes has no STP port left, if its counter is exact.    *)
LEMMA RemoveInstanceInv ==
  ASSUME StpInv, NEW i \in Stp, RemoveInstance(i)
  PROVE  StpInv'
<1>1. /\ stps' = stps \ {i} /\ ports' = ports /\ numPorts' = numPorts
      /\ stpPort' = stpPort /\ tainted' = tainted /\ vlans' = vlans
      /\ i \in stps /\ numPorts[i] = 0
  BY DEF RemoveInstance, InstanceFree
<1>2. \A j : Attached(j)' = Attached(j)
  BY <1>1 DEF Attached
<1>3. ASSUME NEW t \in Thread
      PROVE  /\ portCall'[t] \in PortCall \cup {NoCall}
             /\ portCall'[t] # NoCall /\ portCall'[t].fresh => portCall'[t].inst \in stps'
  <2>1. portCall[t] \in PortCall \cup {NoCall}
    BY DEF StpInv, StpTypes
  <2>2. CASE portCall[t] # NoCall /\ portCall[t].inst = i
    BY <2>1, <2>2 DEF RemoveInstance, PortCall
  <2>3. CASE ~ (portCall[t] # NoCall /\ portCall[t].inst = i)
    <3>1. portCall'[t] = portCall[t]
      BY <2>3 DEF RemoveInstance
    <3> QED BY <1>1, <2>1, <2>3, <3>1 DEF StpInv, FreshExists
  <2> QED BY <2>2, <2>3
<1>4. portCall' \in [Thread -> PortCall \cup {NoCall}]
  BY <1>3 DEF RemoveInstance
<1>5. StpTypes' /\ CountsPositive' /\ FreshExists'
  BY <1>1, <1>3, <1>4 DEF StpInv, StpTypes, CountsPositive, FreshExists
<1>6. PortOnce' /\ AllCounted'
  BY <1>1, <1>2 DEF StpInv, PortOnce, AllCounted, Counted
<1>7. i \notin tainted => Attached(i) = {}
  BY <1>1, AttachedFinite, FS_EmptySet DEF StpInv, AllCounted, Counted
<1>8. StrayPortOnlyByRace'
  BY <1>1, <1>7 DEF StpInv, StrayPortOnlyByRace, Attached
<1> QED BY <1>5, <1>6, <1>8 DEF StpInv
---------------------------------------------------------------------------
(* sai_stp_port_create                                                     *)

(* The calls of a thread come and go; what they found is not touched.      *)
LEMMA PortCallInv ==
  ASSUME StpInv, NEW t \in Thread, NEW c \in PortCall \cup {NoCall},
         portCall' = [portCall EXCEPT ![t] = c], c # NoCall => c.inst \in stps,
         UNCHANGED <<stps, vlans, ports, numPorts, stpPort, tainted>>
  PROVE  StpInv'
<1>1. \A i : Attached(i)' = Attached(i)
  BY DEF Attached
<1>2. StpTypes' /\ CountsPositive' /\ FreshExists' /\ StrayPortOnlyByRace'
  BY DEF StpInv, StpTypes, CountsPositive, FreshExists, StrayPortOnlyByRace
<1>3. PortOnce'
  BY <1>1 DEF StpInv, PortOnce
<1>4. AllCounted'
  BY <1>1 DEF StpInv, AllCounted, Counted
<1> QED BY <1>2, <1>3, <1>4 DEF StpInv

LEMMA LookupInv ==
  ASSUME StpInv, NEW t \in Thread, NEW i \in Stp, NEW p \in Port, StpPortLookup(t, i, p)
  PROVE  StpInv'
<1> DEFINE c == [inst |-> i, port |-> p, fresh |-> TRUE]
<1>1. c \in PortCall /\ portCall' = [portCall EXCEPT ![t] = c] /\ c.inst \in stps
  BY DEF StpPortLookup, PortCall
<1>2. UNCHANGED <<stps, vlans, ports, numPorts, stpPort, tainted>>
  BY DEF StpPortLookup
<1> QED BY <1>1, <1>2, PortCallInv

LEMMA CreateFailInv ==
  ASSUME StpInv, NEW t \in Thread, StpPortCreateFail(t)
  PROVE  StpInv'
BY PortCallInv DEF StpPortCreateFail, PortCallDone

(* The global tree gets an STP port of instance i, under an unused id.     *)
LEMMA NewStpPortEffect ==
  ASSUME StpInv, NEW call \in PortCall, NEW s \in StpPort, stpPort[s] = NoInfo,
         stpPort' = [stpPort EXCEPT ![s] = [inst |-> call.inst, port |-> call.port]]
  PROVE  /\ stpPort' \in [StpPort -> StpPortInfo \cup {NoInfo}]
         /\ stpPort'[s] # NoInfo /\ stpPort'[s].inst = call.inst /\ stpPort'[s].port = call.port
         /\ \A r \in StpPort : r # s => stpPort'[r] = stpPort[r]
         /\ \A i : Attached(i)' = IF i = call.inst THEN Attached(i) \cup {s} ELSE Attached(i)
         /\ \A i : s \notin Attached(i)
<1> DEFINE e == [inst |-> call.inst, port |-> call.port]
<1>1. e \in StpPortInfo /\ e # NoInfo /\ e.inst = call.inst /\ e.port = call.port
  BY NullAssumption DEF PortCall, StpPortInfo
<1>2. stpPort \in [StpPort -> StpPortInfo \cup {NoInfo}] /\ stpPort' = [stpPort EXCEPT ![s] = e]
  BY DEF StpInv, StpTypes
<1> HIDE DEF e
<1>3. /\ stpPort' \in [StpPort -> StpPortInfo \cup {NoInfo}] /\ stpPort'[s] = e
      /\ \A r \in StpPort : r # s => stpPort'[r] = stpPort[r]
  BY <1>1, <1>2
<1>4. \A i : Attached(i)' = IF i = call.inst THEN Attached(i) \cup {s} ELSE Attached(i)
  BY <1>1, <1>3 DEF Attached
<1>5. \A i : s \notin Attached(i)
  BY DEF Attached
<1> QED BY <1>1, <1>3, <1>4, <1>5

(* The port joins the tree of an instance that exists, and is counted.     *)
LEMMA CreatePortInv ==
  ASSUME StpInv, NEW t \in Thread, StpPortCreate(t)
  PROVE  StpInv'
<1> DEFINE i == portCall[t].inst
           p == portCall[t].port
<1>1. /\ portCall[t] \in PortCall /\ portCall[t] # NoCall /\ portCall[t].fresh
      /\ i \in Stp /\ p \in Port /\ i \in stps /\ p \notin ports[i]
  BY DEF StpPortCreate, StpInv, StpTypes, FreshExists, PortCall
<1>2. /\ ports' = [ports EXCEPT ![i] = @ \cup {p}] /\ numPorts' = [numPorts EXCEPT ![i] = @ + 1]
      /\ portCall' = [portCall EXCEPT ![t] = NoCall]
      /\ stps' = stps /\ vlans' = vlans /\ tainted' = tainted
  BY DEF StpPortCreate, PortCallDone
<1>3. PICK s \in StpPort : /\ stpPort[s] = NoInfo
                           /\ stpPort' = [stpPort EXCEPT ![s] = [inst |-> i, port |-> p]]
  BY DEF StpPortCreate, NewStpPort
<1>4. /\ stpPort' \in [StpPort -> StpPortInfo \cup {NoInfo}]
      /\ stpPort'[s] # NoInfo /\ stpPort'[s].inst = i /\ stpPort'[s].port = p
      /\ \A r \in StpPort : r # s => stpPort'[r] = stpPort[r]
      /\ \A j : Attached(j)' = IF j = i THEN Attached(j) \cup {s} ELSE Attached(j)
      /\ \A j : s \notin Attached(j)
  BY <1>1, <1>3, NewStpPortEffect
<1> HIDE DEF i, p
<1>5. StpTypes' /\ FreshExists' /\ CountsPositive'
  BY <1>1, <1>2, <1>4 DEF StpInv, StpTypes, FreshExists, CountsPositive
<1>6. StrayPortOnlyByRace'
  BY <1>1, <1>2, <1>4 DEF StpInv, StrayPortOnlyByRace
<1>7. \A j : \A r \in Attached(j) : r # s /\ r \in StpPort /\ stpPort'[r] = stpPort[r]
  BY <1>4 DEF Attached
<1>8. i \notin tainted => Counted(i)
  BY <1>1 DEF StpInv, AllCounted
<1>9. PortOnce'
  <2>1. ASSUME NEW j \in stps \ tainted, NEW q \in Attached(j)', NEW r \in Attached(j)',
               stpPort'[q].port = stpPort'[r].port
        PROVE  q = r
    <3>1. CASE j # i
      BY <1>4, <1>7, <2>1, <3>1 DEF StpInv, PortOnce
    <3>2. CASE j = i
      <4>1. \A u \in Attached(i) : stpPort'[u].port # p
        BY <1>1, <1>7, <1>8, <2>1, <3>2 DEF Counted
      <4> QED BY <1>4, <1>7, <2>1, <3>2, <4>1 DEF StpInv, PortOnce
    <3> QED BY <3>1, <3>2
  <2> QED BY <1>2, <2>1 DEF PortOnce
<1>10. AllCounted'
  <2>1. ASSUME NEW j \in stps \ tainted  PROVE Counted(j)'
    <3>1. CASE j # i
      <4>1. ports'[j] = ports[j] /\ numPorts'[j] = numPorts[j] /\ Attached(j)' = Attached(j)
        BY <1>1, <1>2, <1>4, <2>1, <3>1 DEF StpInv, StpTypes
      <4>2. {stpPort'[u].port : u \in Attached(j)'} = {stpPort[u].port : u \in Attached(j)}
        BY <1>7, <4>1
      <4> QED BY <2>1, <4>1, <4>2 DEF Counted, StpInv, AllCounted
    <3>2. CASE j = i
      <4>1. ports'[i] = ports[i] \cup {p} /\ numPorts'[i] = numPorts[i] + 1
        BY <1>1, <1>2 DEF StpInv, StpTypes
      <4>2. {stpPort'[u].port : u \in Attached(i) \cup {s}} = {stpPort[u].port : u \in Attached(i)} \cup {p}
        BY <1>4, <1>7
      <4>3. Cardinality(Attached(i) \cup {s}) = Cardinality(Attached(i)) + 1
        BY <1>4, AttachedFinite, FS_AddElement
      <4> QED BY <1>4, <1>8, <2>1, <3>2, <4>1, <4>2, <4>3 DEF Counted
    <3> QED BY <3>1, <3>2
  <2> QED BY <1>2, <2>1 DEF AllCounted
<1> QED BY <1>5, <1>6, <1>9, <1>10 DEF StpInv

(* On freed memory the instance becomes tainted: its id is no longer       *)
(* spoken about.                                                           *)
LEMMA CreateDanglingInv ==
  ASSUME StpInv, NEW t \in Thread, StpPortCreateDangling(t)
  PROVE  StpInv'
<1> DEFINE i == portCall[t].inst
           p == portCall[t].port
<1>1. portCall[t] \in PortCall /\ i \in Stp /\ p \in Port
  BY DEF StpPortCreateDangling, StpInv, StpTypes, PortCall
<1>2. /\ ports' = ports /\ numPorts' = numPorts /\ stps' = stps /\ vlans' = vlans
      /\ tainted' = tainted \cup {i} /\ portCall' = [portCall EXCEPT ![t] = NoCall]
  BY DEF StpPortCreateDangling, PortCallDone
<1>3. PICK s \in StpPort : /\ stpPort[s] = NoInfo
                           /\ stpPort' = [stpPort EXCEPT ![s] = [inst |-> i, port |-> p]]
  BY DEF StpPortCreateDangling, NewStpPort
<1>4. /\ stpPort' \in [StpPort -> StpPortInfo \cup {NoInfo}]
      /\ stpPort'[s].inst = i
      /\ \A r \in StpPort : r # s => stpPort'[r] = stpPort[r]
      /\ \A j : Attached(j)' = IF j = i THEN Attached(j) \cup {s} ELSE Attached(j)
      /\ \A j : s \notin Attached(j)
  BY <1>1, <1>3, NewStpPortEffect
<1> HIDE DEF i, p
<1>5. StpTypes' /\ FreshExists' /\ CountsPositive' /\ StrayPortOnlyByRace'
  BY <1>1, <1>2, <1>4 DEF StpInv, StpTypes, FreshExists, CountsPositive, StrayPortOnlyByRace
<1>6. ASSUME NEW j \in stps' \ tainted'
      PROVE  /\ j \in stps \ tainted /\ Attached(j)' = Attached(j)
             /\ \A r \in Attached(j) : stpPort'[r] = stpPort[r]
  BY <1>2, <1>4, <1>6 DEF Attached
<1>7. PortOnce'
  BY <1>6 DEF StpInv, PortOnce
<1>8. AllCounted'
  <2>1. ASSUME NEW j \in stps' \ tainted'  PROVE Counted(j)'
    <3>1. {stpPort'[u].port : u \in Attached(j)'} = {stpPort[u].port : u \in Attached(j)}
      BY <1>6, <2>1
    <3> QED BY <1>2, <1>6, <2>1, <3>1 DEF StpInv, AllCounted, Counted
  <2> QED BY <2>1 DEF AllCounted
<1> QED BY <1>5, <1>7, <1>8 DEF StpInv
---------------------------------------------------------------------------
(* sai_stp_port_remove: the port leaves the trees and is taken off the     *)
(* counter of its instance.                                                *)
LEMMA RemovePortInv ==
  ASSUME StpInv, NEW s \in StpPort, StpPortRemove(s)
  PROVE  StpInv'
<1> DEFINE i == stpPort[s].inst
           p == stpPort[s].port
<1>1. /\ stpPort[s] # NoInfo /\ i \in Stp /\ p \in Port /\ s \in Attached(i)
      /\ stpPort \in [StpPort -> StpPortInfo \cup {NoInfo}]
  BY DEF StpPortRemove, StpInv, StpTypes, StpPortInfo, Attached
<1>2. /\ stpPort' = [stpPort EXCEPT ![s] = NoInfo]
      /\ stps' = stps /\ vlans' = vlans /\ portCall' = portCall /\ tainted' = tainted
  BY DEF StpPortRemove
<1>3. /\ i \notin stps => ports' = ports /\ numPorts' = numPorts
      /\ i \in stps => /\ numPorts' = [numPorts EXCEPT ![i] = @ - 1]
                       /\ \/ ports' = [ports EXCEPT ![i] = @ \ {p}]
                          \/ i \in tainted /\ ports' = ports
  BY DEF StpPortRemove
<1>4. i \notin tainted => i \in stps /\ Counted(i)
  BY <1>1 DEF StpInv, StrayPortOnlyByRace, AllCounted
<1> HIDE DEF i, p
<1>5. \A j : Attached(j)' = IF j = i THEN Attached(j) \ {s} ELSE Attached(j)
  BY <1>1, <1>2 DEF Attached, i
<1>6. \A j : \A r \in Attached(j)' : r \in Attached(j) /\ r # s /\ stpPort'[r] = stpPort[r]
  BY <1>1, <1>2 DEF Attached
<1>7. Cardinality(Attached(i) \ {s}) = Cardinality(Attached(i)) - 1 /\ Cardinality(Attached(i) \ {s}) \in Nat
  <2>1. Cardinality(Attached(i) \ {s}) = Cardinality(Attached(i)) - 1
    BY <1>1, AttachedFinite, FS_RemoveElement
  <2>2. IsFiniteSet(Attached(i) \ {s})
    BY AttachedFinite, FS_RemoveElement
  <2> QED BY <2>1, <2>2, FS_CardinalityType
<1>8. StpTypes' /\ FreshExists' /\ StrayPortOnlyByRace'
  BY <1>1, <1>2, <1>3 DEF StpInv, StpTypes, FreshExists, StrayPortOnlyByRace
<1>9. CountsPositive'
  <2>1. ASSUME NEW j \in Stp \ tainted  PROVE numPorts'[j] >= 0
    <3>1. CASE j # i
      BY <1>1, <1>3, <2>1, <3>1 DEF StpInv, StpTypes, CountsPositive
    <3>2. CASE j = i
      BY <1>1, <1>3, <1>4, <1>7, <2>1, <3>2 DEF StpInv, StpTypes, Counted
    <3> QED BY <3>1, <3>2
  <2> QED BY <1>2, <2>1 DEF CountsPositive
<1>10. PortOnce'
  BY <1>2, <1>6 DEF StpInv, PortOnce
<1>11. AllCounted'
  <2>1. ASSUME NEW j \in stps \ tainted  PROVE Counted(j)'
    <3>1. CASE j # i
      <4>1. ports'[j] = ports[j] /\ numPorts'[j] = numPorts[j] /\ Attached(j)' = Attached(j)
        BY <1>1, <1>3, <1>5, <2>1, <3>1 DEF StpInv, StpTypes
      <4>2. {stpPort'[u].port : u \in Attached(j)'} = {stpPort[u].port : u \in Attached(j)}
        BY <1>6, <4>1
      <4> QED BY <2>1, <4>1, <4>2 DEF Counted, StpInv, AllCounted
    <3>2. CASE j = i
      <4>1. ports'[i] = ports[i] \ {p} /\ numPorts'[i] = numPorts[i] - 1
        BY <1>1, <1>3, <2>1, <3>2 DEF StpInv, StpTypes
      <4>2. \A u \in Attached(i) : u # s => stpPort[u].port # p
        BY <1>1, <2>1, <3>2 DEF StpInv, PortOnce, p
      <4>3. {stpPort'[u].port : u \in Attached(i) \ {s}} = {stpPort[u].port : u \in Attached(i)} \ {p}
        BY <1>5, <1>6, <4>2 DEF p
      <4> QED BY <1>4, <1>5, <1>7, <2>1, <3>2, <4>1, <4>3 DEF Counted
    <3> QED BY <3>1, <3>2
  <2> QED BY <1>2, <2>1 DEF AllCounted
<1> QED BY <1>8, <1>9, <1>10, <1>11 DEF StpInv

---------------------------------------------------------------------------
(* Any step of the component, and the theorems                             *)

LEMMA StpStepsInv ==
  ASSUME StpInv,
         \/ StpInstanceStep
         \/ \E t \in Thread : StpPortStep(t)
         \/ \E s \in StpPort : StpPortRemove(s)
  PROVE  StpInv'
<1>1. CASE StpInstanceStep
  BY <1>1, CreateInstanceInv, RemoveInstanceInv DEF StpInstanceStep
<1>2. ASSUME NEW t \in Thread, StpPortStep(t)  PROVE StpInv'
  BY <1>2, LookupInv, CreatePortInv, CreateFailInv, CreateDanglingInv DEF StpPortStep
<1>3. ASSUME NEW s \in StpPort, StpPortRemove(s)  PROVE StpInv'
  BY <1>3, RemovePortInv
<1> QED BY <1>1, <1>2, <1>3

(* The moves of VLANs touch the lists of the instances only.               *)
LEMMA VlanMoveInv ==
  ASSUME StpInv, NEW v \in Vlan, NEW i \in Stp, StpVlanAdd(v, i) \/ StpVlanRemove(v, i)
  PROVE  StpInv'
<1>1. vlans' \in [Stp -> SUBSET Vlan]
  BY DEF StpInv, StpTypes, StpVlanAdd, StpVlanRemove
<1> QED BY <1>1, VlansKeepStpInv DEF StpVlanAdd, StpVlanRemove

LEMMA StpInvStep ==
  ASSUME StpInv, [StpNext]_stpVars
  PROVE  StpInv'
<1>1. CASE StpInstanceStep \/ (\E t \in Thread : StpPortStep(t)) \/ \E s \in StpPort : StpPortRemove(s)
  BY <1>1, StpStepsInv
<1>2. ASSUME NEW v \in Vlan, NEW i \in Stp, StpVlanAdd(v, i) \/ StpVlanRemove(v, i)  PROVE StpInv'
  BY <1>2, VlanMoveInv
<1>3. CASE UNCHANGED stpVars
  BY <1>3, VlansKeepStpInv DEF stpVars, StpInv, StpTypes
<1> QED BY <1>1, <1>2, <1>3 DEF StpNext

(* num_ports of an instance counts the STP ports of the instance           *)
(* (sai_stp.c:709-741, 795-831), except after a creation that ran on a     *)
(* freed instance.                                                         *)
THEOREM PortsCounted == StpSpec => [](StpTypeOK /\ StpPortsCounted)
<1>1. StpSpec => []StpInv
  BY StpInvInit, StpInvStep, PTL DEF StpSpec
<1> QED BY <1>1, StpInvMeans, PTL

(* The check of num_ports when an instance is removed keeps every STP port *)
(* on an instance that exists, but for that same race (sai_stp.c:657, 711).*)
THEOREM StrayOnlyByRace == StpSpec => []StrayPortOnlyByRace
<1>1. StpSpec => []StpInv
  BY StpInvInit, StpInvStep, PTL DEF StpSpec
<1>2. StpInv => StrayPortOnlyByRace
  BY DEF StpInv
<1> QED BY <1>1, <1>2, PTL

---------------------------------------------------------------------------
(* The VLANs of the instances                                              *)

(* Labels at which a thread holds the VLAN lock                            *)
LockedPc == {"createLeave", "createJoin", "setLeave", "setJoin", "setBack", "delStp", "delNpu"}

VlanTypes ==
  /\ pc \in [Thread -> Pc]
  /\ req \in [Thread -> Req]
  /\ vlanLock \in Thread \cup {NoThread}
  /\ vlanList \in SUBSET Vlan
  /\ members \in [Vlan -> SUBSET Port]
  /\ map \in [Vlan -> Stp \cup {NoStp}]

(* A thread in a call works on a VLAN; where it sets an instance, on one.  *)
WithStp == {<<"STP", "VLAN_ID">>, <<"VLAN_ID", "STP">>, <<"STP">>}
InCall(t) ==
  /\ pc[t] # "idle" => req[t].vlan \in Vlan
  /\ pc[t] \in {"setLock", "setLeave", "setJoin", "setBack"} => req[t].inst \in Stp
  /\ req[t].todo \in WithStp => req[t].inst \in Stp

Unlisted(v) == \A i \in stps : v \notin vlans[i]

(* What the owner of the VLAN lock knows of its VLAN at each label         *)
AtLabel(t) ==
  pc[t] \in LockedPc =>
    /\ vlanLock = t /\ req[t].vlan \in vlanList
    /\ pc[t] \in {"createJoin", "delNpu"} => map[req[t].vlan] = NoStp
    /\ pc[t] \in {"setJoin", "setBack"} => Unlisted(req[t].vlan)
    /\ pc[t] \in {"delStp", "delNpu"} => members[req[t].vlan] = {}

(* An instance lists only VLANs that the map puts there, a free VLAN is    *)
(* mapped nowhere, and what is no instance lists nothing.                  *)
MapSound ==
  /\ \A i \in stps : \A v \in vlans[i] : map[v] = i
  /\ \A v \in Vlan \ vlanList : map[v] = NoStp
  /\ \A i \in Stp \ stps : vlans[i] = {}

VlanInv == StpInv /\ VlanTypes /\ MapSound /\ \A t \in Thread : InCall(t) /\ AtLabel(t)

(* A step of the detailed specification seen in the abstract one           *)
TreeStep == [Tree!Next]_(Tree!vars)

---------------------------------------------------------------------------
(* What the invariant says                                                 *)

LEMMA VlanInvMeans == VlanInv => TypeOK /\ VlanInOneInstance /\ VlanMapExact
<1> SUFFICES ASSUME VlanInv  PROVE TypeOK /\ VlanInOneInstance /\ VlanMapExact
  OBVIOUS
<1>1. TypeOK
  BY StpInvMeans DEF VlanInv, VlanTypes, TypeOK
<1>2. VlanInOneInstance
  BY DEF VlanInv, MapSound, VlanInOneInstance
<1>3. VlanMapExact
  <2>1. \A i \in stps : i # NoStp
    BY NullAssumption DEF VlanInv, StpInv, StpTypes
  <2> QED BY <2>1 DEF VlanInv, MapSound, VlanMapExact, VlanFoundByMap, FreeVlanUnmapped
<1> QED BY <1>1, <1>2, <1>3

LEMMA VlanInvInit == Init => VlanInv
<1> SUFFICES ASSUME Init  PROVE VlanInv
  OBVIOUS
<1>1. StpInv
  BY StpInvInit DEF Init
<1>2. NoReq \in Req /\ NoReq.todo \notin WithStp
  BY DEF NoReq, Req, Attributes, WithStp
<1>3. VlanTypes
  BY <1>2, DefaultAssumption DEF Init, VlanTypes, Pc
<1>4. MapSound
  BY DefaultAssumption DEF Init, StpInit, MapSound
<1>5. \A t \in Thread : InCall(t) /\ AtLabel(t)
  BY <1>2 DEF Init, InCall, AtLabel, LockedPc
<1> QED BY <1>1, <1>3, <1>4, <1>5 DEF VlanInv

(* The instance of a VLAN in the abstract specification                    *)
LEMMA InstanceIs ==
  ASSUME MapSound, NEW v \in Vlan
  PROVE  /\ \A i \in stps : v \in vlans[i] => InstanceOf(v) = i
         /\ Unlisted(v) => InstanceOf(v) = NoStp
BY DEF MapSound, InstanceOf, Unlisted

LEMMA InstanceIsNext ==
  ASSUME MapSound', NEW v \in Vlan
  PROVE  /\ \A i \in stps' : v \in vlans'[i] => InstanceOf(v)' = i
         /\ Unlisted(v)' => InstanceOf(v)' = NoStp
BY DEF MapSound, InstanceOf, Unlisted

(* A VLAN whose lists stay keeps its instance.                             *)
LEMMA InstanceKept ==
  ASSUME MapSound, MapSound', NEW v \in Vlan,
         \A i : i \in stps /\ v \in vlans[i] <=> i \in stps' /\ v \in vlans'[i]
  PROVE  InstanceOf(v)' = InstanceOf(v)
<1>1. CASE Unlisted(v)
  BY <1>1, InstanceIs, InstanceIsNext DEF Unlisted
<1>2. CASE ~ Unlisted(v)
  <2>1. PICK i \in stps : v \in vlans[i]
    BY <1>2 DEF Unlisted
  <2> QED BY <2>1, InstanceIs, InstanceIsNext
<1> QED BY <1>1, <1>2

---------------------------------------------------------------------------
(* The moves of a VLAN in the STP component                                *)

(* Nothing happens there.                                                  *)
LEMMA StpStays ==
  ASSUME StpInv, UNCHANGED stpVars
  PROVE  StpInv' /\ stps' = stps /\ vlans' = vlans
BY VlansKeepStpInv DEF stpVars, StpInv, StpTypes

(* Leaving the instance of the map leaves the VLAN in no instance.         *)
LEMMA LeaveEffect ==
  ASSUME StpInv, MapSound, NEW v \in Vlan, CanLeaveMapped(v), StpVlanRemove(v, map[v])
  PROVE  /\ StpInv' /\ stps' = stps
         /\ \A i \in stps : vlans'[i] = vlans[i] \ {v}
         /\ \A i \in Stp \ stps : vlans'[i] = vlans[i]
         /\ Unlisted(v)'
<1>1. map[v] \in stps /\ map[v] \in Stp
  BY DEF CanLeaveMapped, CanLeave, StpInv, StpTypes
<1>2. StpInv' /\ stps' = stps
  BY <1>1, VlanMoveInv DEF StpVlanRemove
<1>3. vlans' = [vlans EXCEPT ![map[v]] = vlans[map[v]] \ {v}]
  BY DEF StpVlanRemove
<1>4. \A i \in stps : i # map[v] => v \notin vlans[i]
  BY DEF MapSound
<1>5. \A i \in stps : vlans'[i] = vlans[i] \ {v}
  BY <1>1, <1>3, <1>4 DEF StpInv, StpTypes
<1>6. \A i \in Stp \ stps : vlans'[i] = vlans[i]
  BY <1>1, <1>3 DEF StpInv, StpTypes
<1> QED BY <1>2, <1>5, <1>6 DEF Unlisted

LEMMA JoinEffect ==
  ASSUME StpInv, NEW v \in Vlan, NEW i, StpVlanAdd(v, i)
  PROVE  /\ StpInv' /\ stps' = stps /\ i \in stps /\ i \in Stp
         /\ \A j \in Stp : vlans'[j] = IF j = i THEN vlans[i] \cup {v} ELSE vlans[j]
<1>1. i \in stps /\ i \in Stp
  BY DEF StpVlanAdd, CanJoin, StpInv, StpTypes
<1>2. StpInv' /\ stps' = stps
  BY <1>1, VlanMoveInv DEF StpVlanAdd
<1> QED BY <1>1, <1>2 DEF StpVlanAdd, StpInv, StpTypes
---------------------------------------------------------------------------
(* Where a step takes its thread                                           *)

(* The other threads stay where they are.                                  *)
OthersWait(t) == \A u \in Thread \ {t} : pc'[u] = pc[u] /\ req'[u] = req[u]

(* The thread is where its locals are typed.                               *)
Arrives(t) ==
  /\ pc' \in [Thread -> Pc] /\ req' \in [Thread -> Req]
  /\ OthersWait(t)
  /\ InCall(t)'

LEMMA GotoArrives ==
  ASSUME VlanTypes, NEW t \in Thread, InCall(t), NEW label \in Pc, Goto(t, label), req' = req,
         pc[t] # "idle",
         label \in {"setLock", "setLeave", "setJoin", "setBack"} => req[t].inst \in Stp
  PROVE  Arrives(t) /\ pc'[t] = label /\ req'[t] = req[t]
<1>1. /\ pc' \in [Thread -> Pc] /\ pc'[t] = label
      /\ \A u \in Thread \ {t} : pc'[u] = pc[u]
  BY DEF VlanTypes, Goto
<1>2. InCall(t)'
  BY <1>1 DEF InCall
<1> QED BY <1>1, <1>2 DEF Arrives, OthersWait, VlanTypes

(* A call that ends leaves nothing behind.                                 *)
LEMMA DoneArrives ==
  ASSUME VlanTypes, NEW t \in Thread, Done(t)
  PROVE  Arrives(t) /\ pc'[t] = "idle"
<1>1. NoReq \in Req /\ NoReq.todo \notin WithStp
  BY DEF NoReq, Req, Attributes, WithStp
<1>2. /\ pc' \in [Thread -> Pc] /\ req' \in [Thread -> Req] /\ pc'[t] = "idle" /\ req'[t] = NoReq
      /\ OthersWait(t)
  BY <1>1 DEF VlanTypes, Done, Goto, Pc, OthersWait
<1> QED BY <1>1, <1>2 DEF Arrives, InCall

LEMMA ReturnArrives ==
  ASSUME VlanTypes, NEW t \in Thread, InCall(t), pc[t] # "idle", Return(t) \/ Fail(t)
  PROVE  Arrives(t) /\ pc'[t] \notin LockedPc
<1>1. CASE Done(t)
  BY <1>1, DoneArrives DEF LockedPc
<1>2. ASSUME NEW label \in {"apply", "delLock"}, Goto(t, label), req' = req
      PROVE  Arrives(t) /\ pc'[t] \notin LockedPc
  BY <1>2, GotoArrives DEF Pc, LockedPc
<1> QED BY <1>1, <1>2 DEF Return, Fail

(* What the other threads know stays true: either none of them has the     *)
(* VLAN lock, or nothing it guards has changed.                            *)
LEMMA OthersKept ==
  ASSUME VlanInv, NEW t \in Thread, OthersWait(t), stps' = stps,
         vlanLock \in {t, NoThread} \/ UNCHANGED <<vlanLock, vlanList, members, map, vlans>>,
         NEW u \in Thread \ {t}
  PROVE  InCall(u)' /\ AtLabel(u)'
<1>1. InCall(u)'
  BY DEF VlanInv, OthersWait, InCall
<1>2. ASSUME vlanLock \in {t, NoThread}  PROVE AtLabel(u)'
  BY <1>2, NoThreadAssumption DEF VlanInv, OthersWait, AtLabel
<1>3. ASSUME UNCHANGED <<vlanLock, vlanList, members, map, vlans>>  PROVE AtLabel(u)'
  BY <1>3 DEF VlanInv, OthersWait, AtLabel, Unlisted
<1> QED BY <1>1, <1>2, <1>3

(* The parts of the invariant put together after a step of thread t        *)
LEMMA StepKeepsInv ==
  ASSUME VlanInv, NEW t \in Thread, Arrives(t), StpInv', stps' = stps,
         vlanLock \in {t, NoThread} \/ UNCHANGED <<vlanLock, vlanList, members, map, vlans>>,
         vlanLock' \in Thread \cup {NoThread}, vlanList' \in SUBSET Vlan, members' = members,
         map' \in [Vlan -> Stp \cup {NoStp}], MapSound', AtLabel(t)'
  PROVE  VlanInv'
<1>1. \A u \in Thread \ {t} : InCall(u)' /\ AtLabel(u)'
  BY OthersKept DEF Arrives
<1>2. VlanTypes'
  BY DEF VlanInv, VlanTypes, Arrives
<1> QED BY <1>1, <1>2 DEF VlanInv, Arrives

(* A step that leaves the lists of VLANs alone, of a thread that holds the *)
(* lock, or takes it, or changes nothing that it guards                    *)
LEMMA QuietStep ==
  ASSUME VlanInv, NEW t \in Thread, Arrives(t), AtLabel(t)',
         UNCHANGED <<vlanList, members, map, stpVars>>,
         vlanLock \in {t, NoThread} \/ vlanLock' = vlanLock, vlanLock' \in {t, NoThread, vlanLock}
  PROVE  VlanInv' /\ TreeStep
<1>1. StpInv' /\ stps' = stps /\ vlans' = vlans
  BY StpStays DEF VlanInv
<1>2. MapSound'
  BY <1>1 DEF VlanInv, MapSound
<1>3. VlanInv'
  BY <1>1, <1>2, StepKeepsInv DEF VlanInv, VlanTypes
<1>4. \A v \in Vlan : InstanceOf(v)' = InstanceOf(v)
  BY <1>1, <1>2, InstanceKept DEF VlanInv
<1>5. TreeStep
  BY <1>1, <1>4 DEF TreeStep, Tree!vars
<1> QED BY <1>3, <1>5
---------------------------------------------------------------------------
(* Calls that begin                                                        *)

LEMMA CallArrives ==
  ASSUME VlanTypes, NEW t \in Thread, NEW v \in Vlan, NEW i \in Stp \cup {NoStp},
         NEW creating \in BOOLEAN, NEW todo \in Attributes,
         NEW label \in {"createLeave", "apply", "setLock", "delLock"},
         label = "setLock" \/ todo \in WithStp => i \in Stp,
         Call(t, label, v, i, creating, todo)
  PROVE  Arrives(t) /\ pc'[t] = label /\ req'[t].vlan = v
<1> DEFINE r == [vlan |-> v, inst |-> i, creating |-> creating, todo |-> todo]
<1>1. r \in Req /\ r.vlan = v /\ r.inst = i /\ r.todo = todo
  BY DEF Req
<1>2. pc' = [pc EXCEPT ![t] = label] /\ req' = [req EXCEPT ![t] = r]
  BY DEF Call, Goto
<1> HIDE DEF r
<1>3. /\ pc' \in [Thread -> Pc] /\ req' \in [Thread -> Req]
      /\ pc'[t] = label /\ req'[t] = r /\ OthersWait(t)
  BY <1>1, <1>2 DEF VlanTypes, Pc, OthersWait
<1>4. InCall(t)'
  BY <1>1, <1>3 DEF InCall
<1> QED BY <1>1, <1>3, <1>4 DEF Arrives

(* A new VLAN is in no instance and is not mapped.                         *)
LEMMA CreateVlanInv ==
  ASSUME VlanInv, NEW t \in Thread, NEW v \in Vlan, NEW i \in Stp \cup {NoStp},
         NEW todo \in Attributes, todo \in WithStp => i \in Stp, CreateVlan(t, v, i, todo)
  PROVE  VlanInv' /\ TreeStep
<1>1. CASE /\ vlanLock = NoThread /\ v \notin vlanList /\ vlanList' = vlanList \cup {v}
           /\ vlanLock' = t /\ Call(t, "createLeave", v, i, TRUE, todo)
           /\ UNCHANGED <<members, map, stpVars>>
  <2>1. Arrives(t) /\ pc'[t] = "createLeave" /\ req'[t].vlan = v
    BY <1>1, CallArrives DEF VlanInv
  <2>2. StpInv' /\ stps' = stps /\ vlans' = vlans
    BY <1>1, StpStays DEF VlanInv
  <2>3. MapSound'
    BY <1>1, <2>2 DEF VlanInv, MapSound
  <2>4. AtLabel(t)'
    BY <1>1, <2>1 DEF AtLabel
  <2>5. VlanInv'
    BY <1>1, <2>1, <2>2, <2>3, <2>4, StepKeepsInv DEF VlanInv, VlanTypes
  <2>6. \A u \in Vlan : InstanceOf(u)' = InstanceOf(u)
    BY <2>2, <2>3, InstanceKept DEF VlanInv
  <2>7. Tree!CreateVlan(v)
    BY <1>1, <2>2, <2>6 DEF Tree!CreateVlan
  <2> QED BY <2>5, <2>7 DEF TreeStep, Tree!Next
<1>2. CASE /\ vlanLock = NoThread /\ Call(t, "apply", v, i, TRUE, todo)
           /\ UNCHANGED <<vlanList, vlanLock, members, map, stpVars>>
  <2>1. Arrives(t) /\ pc'[t] = "apply"
    BY <1>2, CallArrives DEF VlanInv
  <2>2. AtLabel(t)'
    BY <2>1 DEF AtLabel, LockedPc
  <2> QED BY <1>2, <2>1, <2>2, QuietStep
<1> QED BY <1>1, <1>2 DEF CreateVlan

LEMMA SetStpInv ==
  ASSUME VlanInv, NEW t \in Thread, NEW v \in Vlan, NEW i \in Stp, SetStp(t, v, i)
  PROVE  VlanInv' /\ TreeStep
<1>1. <<>> \in Attributes /\ <<>> \notin WithStp
  BY DEF Attributes, WithStp
<1>2. Arrives(t) /\ pc'[t] = "setLock"
  BY <1>1, CallArrives DEF SetStp, VlanInv
<1>3. AtLabel(t)'
  BY <1>2 DEF AtLabel, LockedPc
<1> QED BY <1>2, <1>3, QuietStep DEF SetStp

LEMMA DeleteVlanInv ==
  ASSUME VlanInv, NEW t \in Thread, NEW v \in Vlan, DeleteVlan(t, v)
  PROVE  VlanInv' /\ TreeStep
<1>1. <<>> \in Attributes /\ <<>> \notin WithStp
  BY DEF Attributes, WithStp
<1>2. Arrives(t) /\ pc'[t] = "delLock"
  BY <1>1, CallArrives DEF DeleteVlan, VlanInv
<1>3. AtLabel(t)'
  BY <1>2 DEF AtLabel, LockedPc
<1> QED BY <1>2, <1>3, QuietStep DEF DeleteVlan

LEMMA VlanCallInv ==
  ASSUME VlanInv, NEW t \in Thread, VlanCall(t)
  PROVE  VlanInv' /\ TreeStep
<1>1. <<>> \in Attributes /\ <<>> \notin WithStp
  BY DEF Attributes, WithStp
<1>2. ASSUME NEW v \in Vlan, CreateVlan(t, v, NoStp, <<>>)  PROVE VlanInv' /\ TreeStep
  BY <1>1, <1>2, CreateVlanInv
<1>3. ASSUME NEW v \in Vlan, NEW i \in Stp, NEW todo \in Attributes \ {<<>>}, CreateVlan(t, v, i, todo)
      PROVE  VlanInv' /\ TreeStep
  BY <1>3, CreateVlanInv
<1>4. ASSUME NEW v \in Vlan, NEW i \in Stp, SetStp(t, v, i)  PROVE VlanInv' /\ TreeStep
  BY <1>4, SetStpInv
<1>5. ASSUME NEW v \in Vlan, DeleteVlan(t, v)  PROVE VlanInv' /\ TreeStep
  BY <1>5, DeleteVlanInv
<1> QED BY <1>2, <1>3, <1>4, <1>5 DEF VlanCall

---------------------------------------------------------------------------
(* A VLAN leaves its instance, or joins one: the map follows, or is not    *)
(* wrong by staying.                                                       *)

LEMMA LeaveStep ==
  ASSUME VlanInv, NEW t \in Thread, Arrives(t), NEW v \in vlanList,
         CanLeaveMapped(v), StpVlanRemove(v, map[v]),
         vlanLock = t, vlanLock' = t, vlanList' = vlanList, members' = members,
         map' = map \/ map' = [map EXCEPT ![v] = NoStp], Unlisted(v)' => AtLabel(t)'
  PROVE  VlanInv' /\ TreeStep
<1>1. v \in Vlan
  BY DEF VlanInv, VlanTypes
<1>2. /\ StpInv' /\ stps' = stps /\ \A i \in stps : vlans'[i] = vlans[i] \ {v}
      /\ \A i \in Stp \ stps : vlans'[i] = vlans[i]
      /\ Unlisted(v)'
  BY <1>1, LeaveEffect DEF VlanInv
<1>3. map' \in [Vlan -> Stp \cup {NoStp}] /\ \A u \in Vlan \ {v} : map'[u] = map[u]
  BY DEF VlanInv, VlanTypes
<1>4. MapSound'
  <2>1. \A i \in stps : \A u \in vlans'[i] : map'[u] = i
    <3>1. \A i \in stps : \A u \in vlans'[i] : u \in Vlan \ {v} /\ u \in vlans[i]
      BY <1>2 DEF VlanInv, StpInv, StpTypes
    <3> QED BY <1>3, <3>1 DEF VlanInv, MapSound
  <2> QED BY <1>2, <1>3, <2>1 DEF VlanInv, MapSound
<1>5. VlanInv'
  BY <1>2, <1>3, <1>4, StepKeepsInv DEF VlanInv, VlanTypes
<1>6. \A u \in Vlan : InstanceOf(u)' = IF u = v THEN NoStp ELSE InstanceOf(u)
  <2>1. InstanceOf(v)' = NoStp
    BY <1>1, <1>2, <1>4, InstanceIsNext
  <2>2. ASSUME NEW u \in Vlan \ {v}  PROVE InstanceOf(u)' = InstanceOf(u)
    <3>1. \A i : i \in stps /\ u \in vlans[i] <=> i \in stps' /\ u \in vlans'[i]
      BY <1>2
    <3> QED BY <1>4, <3>1, InstanceKept DEF VlanInv
  <2> QED BY <2>1, <2>2
<1>7. Tree!Leave(v)
  BY <1>1, <1>2, <1>6 DEF Tree!Leave
<1> QED BY <1>1, <1>5, <1>7 DEF TreeStep, Tree!Next

LEMMA JoinStep ==
  ASSUME VlanInv, NEW t \in Thread, Arrives(t), NEW v \in vlanList, NEW i,
         StpVlanAdd(v, i), Unlisted(v), map' = [map EXCEPT ![v] = i],
         vlanLock = t, vlanLock' = NoThread, vlanList' = vlanList, members' = members,
         pc'[t] \notin LockedPc
  PROVE  VlanInv' /\ TreeStep
<1>1. v \in Vlan
  BY DEF VlanInv, VlanTypes
<1>2. /\ StpInv' /\ stps' = stps /\ i \in stps /\ i \in Stp
      /\ \A j \in Stp : vlans'[j] = IF j = i THEN vlans[i] \cup {v} ELSE vlans[j]
  BY <1>1, JoinEffect DEF VlanInv
<1>3. /\ map' \in [Vlan -> Stp \cup {NoStp}] /\ map'[v] = i
      /\ \A u \in Vlan \ {v} : map'[u] = map[u]
  BY <1>1, <1>2 DEF VlanInv, VlanTypes
<1>4. stps \subseteq Stp /\ \A j \in stps : vlans[j] \subseteq Vlan
  BY DEF VlanInv, StpInv, StpTypes
<1>5. MapSound'
  <2>1. \A j \in stps : \A u \in vlans'[j] : map'[u] = j
    BY <1>2, <1>3, <1>4 DEF VlanInv, MapSound, Unlisted
  <2> QED BY <1>2, <1>3, <2>1 DEF VlanInv, MapSound
<1>6. VlanInv'
  BY <1>2, <1>3, <1>5, StepKeepsInv DEF VlanInv, VlanTypes, AtLabel
<1>7. \A u \in Vlan : InstanceOf(u)' = IF u = v THEN i ELSE InstanceOf(u)
  <2>1. InstanceOf(v)' = i
    BY <1>1, <1>2, <1>5, InstanceIsNext
  <2>2. ASSUME NEW u \in Vlan \ {v}  PROVE InstanceOf(u)' = InstanceOf(u)
    <3>1. \A j : j \in stps /\ u \in vlans[j] <=> j \in stps' /\ u \in vlans'[j]
      BY <1>2, <1>4
    <3> QED BY <1>5, <3>1, InstanceKept DEF VlanInv
  <2> QED BY <2>1, <2>2
<1>8. InstanceOf(v) = NoStp
  BY <1>1, InstanceIs DEF VlanInv
<1>9. Tree!Join(v, i)
  BY <1>1, <1>2, <1>7, <1>8 DEF Tree!Join
<1> QED BY <1>1, <1>2, <1>6, <1>9 DEF TreeStep, Tree!Next
---------------------------------------------------------------------------
(* The steps of the handlers                                               *)

(* A step that only moves its thread, and drops the lock                   *)
LEMMA DropStep ==
  ASSUME VlanInv, NEW t \in Thread, pc[t] \in LockedPc, Arrives(t), pc'[t] \notin LockedPc,
         DropVlanLock, UNCHANGED <<vlanList, members, map, stpVars>>
  PROVE  VlanInv' /\ TreeStep
<1>1. vlanLock = t
  BY DEF VlanInv, AtLabel
<1>2. AtLabel(t)'
  BY DEF AtLabel
<1> QED BY <1>1, <1>2, QuietStep DEF DropVlanLock

LEMMA CreateLeaveInv ==
  ASSUME VlanInv, NEW t \in Thread, CreateVlanLeave(t)
  PROVE  VlanInv' /\ TreeStep
<1> DEFINE v == req[t].vlan
<1>1. /\ pc[t] = "createLeave" /\ vlanLock = t /\ v \in vlanList /\ v \in Vlan
      /\ InCall(t) /\ VlanTypes /\ req' = req /\ vlanList' = vlanList /\ members' = members
  BY DEF CreateVlanLeave, VlanInv, VlanTypes, AtLabel, LockedPc
<1>2. CASE Goto(t, "createJoin")
  <2>1. Arrives(t) /\ pc'[t] = "createJoin" /\ req'[t] = req[t]
    BY <1>1, <1>2, GotoArrives DEF Pc
  <2>2. vlanLock' = t
    BY <1>1, <1>2, <2>1 DEF CreateVlanLeave, Goto, VlanTypes
  <2>3. CASE /\ map[v] = NoStp /\ UNCHANGED <<map, stpVars>>
    <3>1. AtLabel(t)'
      BY <1>1, <2>1, <2>2, <2>3 DEF AtLabel
    <3> QED BY <1>1, <2>1, <2>2, <2>3, <3>1, QuietStep
  <2>4. CASE CanLeaveMapped(v) /\ StpVlanRemove(v, map[v]) /\ MapVlan(v, NoStp)
    <3>1. map' = [map EXCEPT ![v] = NoStp] /\ map'[v] = NoStp
      BY <1>1, <2>4 DEF MapVlan, VlanTypes
    <3>2. AtLabel(t)'
      BY <1>1, <2>1, <2>2, <3>1 DEF AtLabel
    <3> QED BY <1>1, <2>1, <2>2, <2>4, <3>1, <3>2, LeaveStep
  <2> QED BY <1>1, <1>2, <2>1, <2>3, <2>4 DEF CreateVlanLeave, Goto, VlanTypes
<1>3. CASE DropVlanLock /\ Goto(t, "apply") /\ UNCHANGED <<map, stpVars>>
  <2>1. Arrives(t) /\ pc'[t] \notin LockedPc
    BY <1>1, <1>3, GotoArrives DEF Pc, LockedPc
  <2> QED BY <1>1, <1>3, <2>1, DropStep DEF LockedPc
<1> QED BY <1>2, <1>3 DEF CreateVlanLeave

LEMMA CreateJoinInv ==
  ASSUME VlanInv, NEW t \in Thread, CreateVlanJoin(t)
  PROVE  VlanInv' /\ TreeStep
<1> DEFINE v == req[t].vlan
<1>1. /\ pc[t] = "createJoin" /\ vlanLock = t /\ v \in vlanList /\ map[v] = NoStp
      /\ DropVlanLock /\ req' = req /\ vlanList' = vlanList /\ members' = members
  BY DEF CreateVlanJoin, VlanInv, AtLabel, LockedPc
<1>2. Arrives(t) /\ pc'[t] \notin LockedPc
  BY <1>1, GotoArrives DEF CreateVlanJoin, VlanInv, Pc, LockedPc
<1>3. CASE StpVlanAdd(v, DefaultStp) /\ MapVlan(v, DefaultStp)
  <2>1. Unlisted(v)
    BY <1>1, NullAssumption DEF VlanInv, MapSound, Unlisted, StpInv, StpTypes
  <2> QED BY <1>1, <1>2, <1>3, <2>1, JoinStep DEF DropVlanLock, MapVlan
<1>4. CASE UNCHANGED <<map, stpVars>>
  BY <1>1, <1>2, <1>4, DropStep DEF LockedPc
<1> QED BY <1>3, <1>4 DEF CreateVlanJoin

(* The attributes that are left, one less each time                        *)
LEMMA Attribute ==
  ASSUME NEW todo \in Attributes \cup {<<"STP">>, <<"VLAN_ID">>}, todo # <<>>
  PROVE  /\ Tail(todo) \in Attributes \cup {<<"STP">>, <<"VLAN_ID">>}
         /\ Head(todo) = "STP" \/ Tail(todo) \in WithStp => todo \in WithStp
<1>1. CASE todo = <<"STP", "VLAN_ID">>
  BY <1>1 DEF WithStp
<1>2. CASE todo = <<"VLAN_ID", "STP">>
  BY <1>2 DEF WithStp
<1>3. CASE todo = <<"STP">>
  BY <1>3 DEF WithStp, Attributes
<1>4. CASE todo = <<"VLAN_ID">>
  BY <1>4 DEF WithStp, Attributes
<1> QED BY <1>1, <1>2, <1>3, <1>4 DEF Attributes

LEMMA ApplyInv ==
  ASSUME VlanInv, NEW t \in Thread, ApplyAttribute(t)
  PROVE  VlanInv' /\ TreeStep
<1>1. /\ VlanTypes /\ InCall(t) /\ req[t] \in Req /\ req[t].vlan \in Vlan
      /\ vlanLock' = vlanLock /\ UNCHANGED <<vlanList, members, map, stpVars>>
  BY DEF ApplyAttribute, VlanInv, VlanTypes, InCall
<1>2. Arrives(t) /\ pc'[t] \notin LockedPc
  <2>1. CASE req[t].todo = <<>>
    BY <1>1, <2>1, DoneArrives DEF ApplyAttribute, LockedPc
  <2>2. CASE req[t].todo # <<>>
    <3> DEFINE r == [req[t] EXCEPT !.todo = Tail(req[t].todo)]
               label == IF Head(req[t].todo) = "STP" THEN "setLock" ELSE "delLock"
    <3>1. /\ req' = [req EXCEPT ![t] = r] /\ pc' = [pc EXCEPT ![t] = label]
          /\ label \in {"setLock", "delLock"}
      BY <2>2 DEF ApplyAttribute, Goto
    <3>2. /\ r \in Req /\ r.vlan = req[t].vlan /\ r.inst = req[t].inst
          /\ label = "setLock" \/ r.todo \in WithStp => r.inst \in Stp
      BY <1>1, <2>2, Attribute DEF Req, InCall
    <3> HIDE DEF r, label
    <3>3. /\ pc' \in [Thread -> Pc] /\ req' \in [Thread -> Req]
          /\ pc'[t] = label /\ req'[t] = r /\ OthersWait(t)
      BY <1>1, <3>1, <3>2 DEF VlanTypes, Pc, OthersWait
    <3>4. InCall(t)'
      BY <1>1, <3>1, <3>2, <3>3 DEF InCall
    <3> QED BY <3>1, <3>3, <3>4 DEF Arrives, LockedPc
  <2> QED BY <2>1, <2>2
<1>3. AtLabel(t)'
  BY <1>2 DEF AtLabel
<1> QED BY <1>1, <1>2, <1>3, QuietStep

LEMMA SetLockInv ==
  ASSUME VlanInv, NEW t \in Thread, SetStpLock(t)
  PROVE  VlanInv' /\ TreeStep
<1>1. /\ pc[t] = "setLock" /\ vlanLock = NoThread /\ VlanTypes /\ InCall(t)
      /\ UNCHANGED <<vlanList, members, map, stpVars>>
  BY DEF SetStpLock, VlanInv
<1>2. CASE req[t].vlan \in vlanList /\ vlanLock' = t /\ Goto(t, "setLeave") /\ req' = req
  <2>1. Arrives(t) /\ pc'[t] = "setLeave" /\ req'[t] = req[t]
    BY <1>1, <1>2, GotoArrives DEF Pc, InCall
  <2>2. AtLabel(t)'
    BY <1>1, <1>2, <2>1 DEF AtLabel
  <2> QED BY <1>1, <1>2, <2>1, <2>2, QuietStep
<1>3. CASE Fail(t) /\ vlanLock' = vlanLock
  <2>1. Arrives(t) /\ pc'[t] \notin LockedPc
    BY <1>1, <1>3, ReturnArrives
  <2>2. AtLabel(t)'
    BY <2>1 DEF AtLabel
  <2> QED BY <1>1, <1>3, <2>1, <2>2, QuietStep
<1> QED BY <1>2, <1>3 DEF SetStpLock
LEMMA SetLeaveInv ==
  ASSUME VlanInv, NEW t \in Thread, SetStpLeave(t)
  PROVE  VlanInv' /\ TreeStep
<1> DEFINE v == req[t].vlan
<1>1. /\ pc[t] = "setLeave" /\ vlanLock = t /\ v \in vlanList /\ VlanTypes /\ InCall(t)
      /\ UNCHANGED <<vlanList, members, map>>
  BY DEF SetStpLeave, VlanInv, AtLabel, LockedPc
<1>2. CASE /\ CanLeaveMapped(v) /\ StpVlanRemove(v, map[v]) /\ Goto(t, "setJoin")
           /\ UNCHANGED <<req, vlanLock>>
  <2>1. Arrives(t) /\ pc'[t] = "setJoin" /\ req'[t] = req[t]
    BY <1>1, <1>2, GotoArrives DEF Pc, InCall
  <2>2. Unlisted(v)' => AtLabel(t)'
    BY <1>1, <1>2, <2>1 DEF AtLabel, Unlisted
  <2> QED BY <1>1, <1>2, <2>1, <2>2, LeaveStep
<1>3. CASE DropVlanLock /\ Fail(t) /\ UNCHANGED stpVars
  <2>1. Arrives(t) /\ pc'[t] \notin LockedPc
    BY <1>1, <1>3, ReturnArrives
  <2> QED BY <1>1, <1>3, <2>1, DropStep DEF LockedPc
<1> QED BY <1>2, <1>3 DEF SetStpLeave

LEMMA SetJoinInv ==
  ASSUME VlanInv, NEW t \in Thread, SetStpJoin(t)
  PROVE  VlanInv' /\ TreeStep
<1> DEFINE v == req[t].vlan
<1>1. /\ pc[t] = "setJoin" /\ vlanLock = t /\ v \in vlanList /\ Unlisted(v)
      /\ VlanTypes /\ InCall(t) /\ UNCHANGED <<vlanList, members>>
  BY DEF SetStpJoin, VlanInv, AtLabel, LockedPc
<1>2. CASE StpVlanAdd(v, req[t].inst) /\ MapVlan(v, req[t].inst) /\ DropVlanLock /\ Return(t)
  <2>1. Arrives(t) /\ pc'[t] \notin LockedPc
    BY <1>1, <1>2, ReturnArrives
  <2> QED BY <1>1, <1>2, <2>1, JoinStep DEF DropVlanLock, MapVlan
<1>3. CASE Goto(t, "setBack") /\ UNCHANGED <<req, vlanLock, map, stpVars>>
  <2>1. Arrives(t) /\ pc'[t] = "setBack" /\ req'[t] = req[t]
    BY <1>1, <1>3, GotoArrives DEF Pc, InCall
  <2>2. Unlisted(v)'
    BY <1>1, <1>3 DEF Unlisted, stpVars
  <2>3. AtLabel(t)'
    BY <1>1, <1>3, <2>1, <2>2 DEF AtLabel, Unlisted
  <2> QED BY <1>1, <1>3, <2>1, <2>3, QuietStep
<1> QED BY <1>2, <1>3 DEF SetStpJoin

LEMMA SetBackInv ==
  ASSUME VlanInv, NEW t \in Thread, SetStpBack(t)
  PROVE  VlanInv' /\ TreeStep
<1> DEFINE v == req[t].vlan
<1>1. /\ pc[t] = "setBack" /\ vlanLock = t /\ v \in vlanList /\ Unlisted(v) /\ v \in Vlan
      /\ VlanTypes /\ InCall(t) /\ DropVlanLock /\ UNCHANGED <<vlanList, members, map>>
  BY DEF SetStpBack, VlanInv, VlanTypes, AtLabel, LockedPc
<1>2. Arrives(t) /\ pc'[t] \notin LockedPc
  BY <1>1, ReturnArrives DEF SetStpBack
<1>3. CASE StpVlanAdd(v, map[v])
  <2>1. map' = [map EXCEPT ![v] = map[v]]
    BY <1>1 DEF VlanTypes
  <2> QED BY <1>1, <1>2, <1>3, <2>1, JoinStep DEF DropVlanLock
<1>4. CASE UNCHANGED stpVars
  BY <1>1, <1>2, <1>4, DropStep DEF LockedPc
<1> QED BY <1>3, <1>4 DEF SetStpBack

LEMMA DeleteLockInv ==
  ASSUME VlanInv, NEW t \in Thread, DeleteVlanLock(t)
  PROVE  VlanInv' /\ TreeStep
<1>1. /\ pc[t] = "delLock" /\ vlanLock = NoThread /\ VlanTypes /\ InCall(t)
      /\ UNCHANGED <<vlanList, members, map, stpVars>>
  BY DEF DeleteVlanLock, VlanInv
<1>2. CASE Return(t) /\ vlanLock' \in {vlanLock, t}
  <2>1. Arrives(t) /\ pc'[t] \notin LockedPc
    BY <1>1, <1>2, ReturnArrives
  <2>2. AtLabel(t)'
    BY <2>1 DEF AtLabel
  <2> QED BY <1>1, <1>2, <2>1, <2>2, QuietStep
<1>3. CASE /\ req[t].vlan \in vlanList /\ members[req[t].vlan] = {} /\ vlanLock' = t
           /\ Goto(t, "delStp") /\ req' = req
  <2>1. Arrives(t) /\ pc'[t] = "delStp" /\ req'[t] = req[t]
    BY <1>1, <1>3, GotoArrives DEF Pc
  <2>2. AtLabel(t)'
    BY <1>1, <1>3, <2>1 DEF AtLabel
  <2> QED BY <1>1, <1>3, <2>1, <2>2, QuietStep
<1> QED BY <1>2, <1>3 DEF DeleteVlanLock

LEMMA DeleteStpInv ==
  ASSUME VlanInv, NEW t \in Thread, DeleteVlanStp(t)
  PROVE  VlanInv' /\ TreeStep
<1> DEFINE v == req[t].vlan
<1>1. /\ pc[t] = "delStp" /\ vlanLock = t /\ v \in vlanList /\ v \in Vlan /\ members[v] = {}
      /\ VlanTypes /\ InCall(t) /\ UNCHANGED <<vlanList, members>>
  BY DEF DeleteVlanStp, VlanInv, VlanTypes, AtLabel, LockedPc
<1>2. CASE /\ CanLeaveMapped(v) /\ StpVlanRemove(v, map[v]) /\ MapVlan(v, NoStp)
           /\ Goto(t, "delNpu") /\ UNCHANGED <<req, vlanLock>>
  <2>1. Arrives(t) /\ pc'[t] = "delNpu" /\ req'[t] = req[t]
    BY <1>1, <1>2, GotoArrives DEF Pc
  <2>2. map' = [map EXCEPT ![v] = NoStp] /\ map'[v] = NoStp
    BY <1>1, <1>2 DEF MapVlan, VlanTypes
  <2>3. AtLabel(t)'
    BY <1>1, <1>2, <2>1, <2>2 DEF AtLabel
  <2> QED BY <1>1, <1>2, <2>1, <2>2, <2>3, LeaveStep
<1>3. CASE DropVlanLock /\ Return(t) /\ UNCHANGED <<map, stpVars>>
  <2>1. Arrives(t) /\ pc'[t] \notin LockedPc
    BY <1>1, <1>3, ReturnArrives
  <2> QED BY <1>1, <1>3, <2>1, DropStep DEF LockedPc
<1> QED BY <1>2, <1>3 DEF DeleteVlanStp

(* The VLAN that goes has left its instance, and the map.                  *)
LEMMA DeleteNpuInv ==
  ASSUME VlanInv, NEW t \in Thread, DeleteVlanNpu(t)
  PROVE  VlanInv' /\ TreeStep
<1> DEFINE v == req[t].vlan
<1>1. /\ pc[t] = "delNpu" /\ vlanLock = t /\ v \in vlanList /\ v \in Vlan /\ map[v] = NoStp
      /\ VlanTypes /\ InCall(t) /\ DropVlanLock /\ UNCHANGED <<members, map, stpVars>>
  BY DEF DeleteVlanNpu, VlanInv, VlanTypes, AtLabel, LockedPc
<1>2. Arrives(t) /\ pc'[t] \notin LockedPc
  BY <1>1, ReturnArrives DEF DeleteVlanNpu
<1>3. CASE vlanList' = vlanList \ {v}
  <2>1. StpInv' /\ stps' = stps /\ vlans' = vlans
    BY <1>1, StpStays DEF VlanInv
  <2>2. MapSound'
    BY <1>1, <1>3, <2>1 DEF VlanInv, MapSound
  <2>3. VlanInv'
    BY <1>1, <1>2, <1>3, <2>1, <2>2, StepKeepsInv DEF VlanTypes, DropVlanLock, AtLabel
  <2>4. \A u \in Vlan : InstanceOf(u)' = InstanceOf(u)
    BY <2>1, <2>2, InstanceKept DEF VlanInv
  <2>5. Unlisted(v)
    BY <1>1, NullAssumption DEF VlanInv, MapSound, Unlisted, StpInv, StpTypes
  <2>6. InstanceOf(v) = NoStp
    BY <1>1, <2>5, InstanceIs DEF VlanInv
  <2>7. Tree!DeleteVlan(v)
    BY <1>1, <1>3, <2>1, <2>4, <2>6 DEF Tree!DeleteVlan
  <2> QED BY <1>1, <2>3, <2>7 DEF TreeStep, Tree!Next
<1>4. CASE vlanList' = vlanList
  BY <1>1, <1>2, <1>4, DropStep DEF LockedPc
<1> QED BY <1>3, <1>4 DEF DeleteVlanNpu

LEMMA VlanStepInv ==
  ASSUME VlanInv, NEW t \in Thread, VlanStep(t)
  PROVE  VlanInv' /\ TreeStep
BY CreateLeaveInv, CreateJoinInv, ApplyInv, SetLockInv, SetLeaveInv, SetJoinInv, SetBackInv,
   DeleteLockInv, DeleteStpInv, DeleteNpuInv DEF VlanStep
---------------------------------------------------------------------------
(* Members come and go only while no handler has the VLAN lock.            *)

LEMMA MemberInv ==
  ASSUME VlanInv, NEW v \in Vlan, NEW p \in Port, AddMember(v, p) \/ RemoveMember(v, p)
  PROVE  VlanInv' /\ TreeStep
<1>1. /\ vlanLock = NoThread /\ UNCHANGED <<pc, req, vlanLock, vlanList, map, stpVars>>
      /\ members' \in [Vlan -> SUBSET Port]
  BY DEF AddMember, RemoveMember, VlanInv, VlanTypes
<1>2. StpInv' /\ stps' = stps /\ vlans' = vlans
  BY <1>1, StpStays DEF VlanInv
<1>3. MapSound'
  BY <1>1, <1>2 DEF VlanInv, MapSound
<1>4. \A t \in Thread : pc[t] \notin LockedPc
  BY <1>1, NoThreadAssumption DEF VlanInv, AtLabel
<1>5. \A t \in Thread : InCall(t)' /\ AtLabel(t)'
  BY <1>1, <1>4 DEF VlanInv, InCall, AtLabel
<1>6. VlanInv'
  BY <1>1, <1>2, <1>3, <1>5 DEF VlanInv, VlanTypes
<1>7. \A u \in Vlan : InstanceOf(u)' = InstanceOf(u)
  BY <1>2, <1>3, InstanceKept DEF VlanInv
<1> QED BY <1>1, <1>2, <1>6, <1>7 DEF TreeStep, Tree!vars

---------------------------------------------------------------------------
(* The calls of the STP API                                                *)

(* Instances come and go with empty lists: the VLANs see no difference.    *)
LEMMA StpPartInv ==
  ASSUME VlanInv, StpPart
  PROVE  VlanInv' /\ TreeStep
<1>1. StpInv'
  BY StpStepsInv DEF StpPart, VlanInv
<1>2. UNCHANGED <<pc, req, vlanLock, vlanList, members, map>>
  BY DEF StpPart, vlanVars
<1>3. \/ stps' = stps /\ vlans' = vlans
      \/ \E i \in Stp : CreateInstance(i) \/ RemoveInstance(i)
  BY DEF StpPart, StpInstanceStep, StpPortStep, StpPortLookup, StpPortCreate, StpPortCreateFail,
         StpPortCreateDangling, StpPortRemove
<1>4. ASSUME \A i : \A v : i \in stps /\ v \in vlans[i] <=> i \in stps' /\ v \in vlans'[i],
             \A i \in Stp \ stps' : vlans'[i] = {}
      PROVE  VlanInv' /\ \A v \in Vlan : InstanceOf(v)' = InstanceOf(v)
  <2>1. MapSound'
    BY <1>2, <1>4 DEF VlanInv, MapSound
  <2>2. \A t \in Thread : InCall(t)' /\ AtLabel(t)'
    BY <1>2, <1>4 DEF VlanInv, InCall, AtLabel, Unlisted
  <2>3. VlanInv'
    BY <1>1, <1>2, <2>1, <2>2 DEF VlanInv, VlanTypes
  <2>4. \A v \in Vlan : InstanceOf(v)' = InstanceOf(v)
    BY <1>4, <2>1, InstanceKept DEF VlanInv
  <2> QED BY <2>3, <2>4
<1>5. CASE stps' = stps /\ vlans' = vlans
  <2>1. VlanInv' /\ \A v \in Vlan : InstanceOf(v)' = InstanceOf(v)
    BY <1>4, <1>5 DEF VlanInv, MapSound
  <2> QED BY <1>2, <1>5, <2>1 DEF TreeStep, Tree!vars
<1>6. ASSUME NEW i \in Stp, CreateInstance(i)  PROVE VlanInv' /\ TreeStep
  <2>1. /\ i \notin stps /\ stps' = stps \cup {i} /\ vlans[i] = {}
        /\ \A j \in Stp : vlans'[j] = vlans[j]
    BY <1>6 DEF CreateInstance, VlanInv, MapSound, StpInv, StpTypes
  <2>2. stps' \subseteq Stp
    BY <1>1 DEF StpInv, StpTypes
  <2>3. VlanInv' /\ \A v \in Vlan : InstanceOf(v)' = InstanceOf(v)
    BY <1>4, <2>1, <2>2 DEF VlanInv, MapSound
  <2>4. Tree!CreateInstance(i)
    BY <1>2, <2>1, <2>3 DEF Tree!CreateInstance
  <2> QED BY <2>3, <2>4 DEF TreeStep, Tree!Next
<1>7. ASSUME NEW i \in Stp, RemoveInstance(i)  PROVE VlanInv' /\ TreeStep
  <2>1. i \in stps /\ stps' = stps \ {i} /\ vlans[i] = {} /\ vlans' = vlans
    BY <1>7 DEF RemoveInstance, InstanceFree
  <2>2. VlanInv' /\ \A v \in Vlan : InstanceOf(v)' = InstanceOf(v)
    BY <1>4, <2>1 DEF VlanInv, MapSound
  <2>3. \A v \in Vlan : InstanceOf(v) # i
    <3>1. ASSUME NEW v \in Vlan  PROVE InstanceOf(v) # i
      <4>1. CASE Unlisted(v)
        BY <2>1, <4>1, InstanceIs, NullAssumption DEF VlanInv
      <4>2. CASE ~ Unlisted(v)
        BY <2>1, <4>2, InstanceIs DEF VlanInv, Unlisted
      <4> QED BY <4>1, <4>2
    <3> QED BY <3>1
  <2>4. Tree!RemoveInstance(i)
    BY <1>2, <2>1, <2>2, <2>3 DEF Tree!RemoveInstance
  <2> QED BY <2>2, <2>4 DEF TreeStep, Tree!Next
<1> QED BY <1>3, <1>5, <1>6, <1>7

---------------------------------------------------------------------------
(* The theorems                                                            *)

LEMMA VlanInvStep ==
  ASSUME VlanInv, [Next]_vars
  PROVE  VlanInv' /\ TreeStep
<1>1. ASSUME NEW t \in Thread, VlanCall(t) \/ VlanStep(t)  PROVE VlanInv' /\ TreeStep
  BY <1>1, VlanCallInv, VlanStepInv
<1>2. ASSUME NEW v \in Vlan, NEW p \in Port, AddMember(v, p) \/ RemoveMember(v, p)
      PROVE  VlanInv' /\ TreeStep
  BY <1>2, MemberInv
<1>3. ASSUME UNCHANGED vars  PROVE VlanInv' /\ TreeStep
  <2>1. UNCHANGED <<pc, req, vlanLock, vlanList, members, map, stpVars>>
    BY <1>3 DEF vars, vlanVars
  <2>2. StpInv' /\ stps' = stps /\ vlans' = vlans
    BY <2>1, StpStays DEF VlanInv
  <2>3. MapSound' /\ VlanTypes'
    BY <2>1, <2>2 DEF VlanInv, MapSound, VlanTypes
  <2>4. \A t \in Thread : InCall(t)' /\ AtLabel(t)'
    BY <2>1, <2>2 DEF VlanInv, InCall, AtLabel, Unlisted
  <2>5. \A v \in Vlan : InstanceOf(v)' = InstanceOf(v)
    BY <2>2, <2>3, InstanceKept DEF VlanInv
  <2> QED BY <2>1, <2>2, <2>3, <2>4, <2>5 DEF VlanInv, TreeStep, Tree!vars
<1> QED BY <1>1, <1>2, <1>3, StpPartInv DEF Next

LEMMA VlanInvariance == Spec => []VlanInv
<1>1. VlanInv /\ [Next]_vars => VlanInv'
  BY VlanInvStep
<1> QED BY <1>1, VlanInvInit, PTL DEF Spec

(* The state of the VLAN and STP components stays well typed, and a        *)
(* counter of STP ports never goes below zero but through the race.        *)
THEOREM VlanTypeCorrect == Spec => []TypeOK
BY VlanInvariance, VlanInvMeans, PTL

(* A VLAN is listed by one instance at most, also while it moves           *)
(* (sai_stp.c:1073-1105).                                                  *)
THEOREM OneInstance == Spec => []VlanInOneInstance
BY VlanInvariance, VlanInvMeans, PTL

(* The map and the lists agree about every VLAN, whichever steps of a move *)
(* or a deletion failed (sai_stp.c:1061-1119).                             *)
THEOREM MapExact == Spec => []VlanMapExact
BY VlanInvariance, VlanInvMeans, PTL

(* No member joins a VLAN between the check that it has none and its       *)
(* deletion (sai_vlan.c:303-308): all of it is under the VLAN lock.        *)
THEOREM InUseNotDeleted == Spec => VlanInUseNotDeleted
<1> DEFINE Goes == \A v \in vlanList \ vlanList' : members[v] = {} /\ members'[v] = {}
<1>1. ASSUME VlanInv, [Next]_vars  PROVE Goes
  <2>1. ASSUME NEW t \in Thread, DeleteVlanNpu(t)  PROVE Goes
    BY <1>1, <2>1 DEF DeleteVlanNpu, VlanInv, AtLabel, LockedPc
  <2>2. CASE ~ \E t \in Thread : DeleteVlanNpu(t)
    <3>1. vlanList \subseteq vlanList'
      BY <1>1, <2>2 DEF Next, VlanCall, VlanStep, CreateVlan, SetStp, DeleteVlan, CreateVlanLeave,
         CreateVlanJoin, ApplyAttribute, SetStpLock, SetStpLeave, SetStpJoin, SetStpBack,
         DeleteVlanLock, DeleteVlanStp, AddMember, RemoveMember, StpPart, vlanVars, vars
    <3> QED BY <3>1
  <2> QED BY <2>1, <2>2
<1>2. VlanInv /\ [Next]_vars => [Goes]_vars
  BY <1>1
<1> QED BY <1>2, VlanInvariance, PTL DEF VlanInUseNotDeleted, Spec

(* VLAN handlers and the STP API, run by any number of threads, do to the  *)
(* outside what VlanTree promises: a VLAN leaves an instance before it     *)
(* joins another, and is deleted outside of any.                           *)
THEOREM TreeRefinement == Spec => ImplementsVlanTree
<1>1. Init => Tree!Init
  <2> SUFFICES ASSUME Init  PROVE Tree!Init
    OBVIOUS
  <2>1. VlanInv
    BY VlanInvInit
  <2>2. \A v \in Vlan : InstanceOf(v) = IF v = DefaultVlan THEN DefaultStp ELSE NoStp
    <3>1. /\ stps = {DefaultStp} /\ DefaultStp \in Stp /\ vlans[DefaultStp] = {DefaultVlan}
      BY DefaultAssumption DEF Init, StpInit
    <3>2. ASSUME NEW v \in Vlan
          PROVE  InstanceOf(v) = IF v = DefaultVlan THEN DefaultStp ELSE NoStp
      BY <2>1, <3>1, InstanceIs DEF VlanInv, Unlisted
    <3> QED BY <3>2
  <2> QED BY <2>2 DEF Init, StpInit, Tree!Init
<1>2. VlanInv /\ [Next]_vars => TreeStep
  BY VlanInvStep
<1> QED BY <1>1, <1>2, VlanInvariance, PTL DEF Spec, ImplementsVlanTree, Tree!Spec, TreeStep
=============================================================================
