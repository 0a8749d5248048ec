------------------------------ MODULE VlanStp -------------------------------
(***************************************************************************)
(* VLANs on spanning tree instances: src/src/switching/sai_vlan.c composed *)
(* with the STP component of Stp.tla.                                      *)
(*                                                                         *)
(* A VLAN handler runs under the VLAN lock and moves the VLAN between      *)
(* instances with calls that each take and release the STP lock; between   *)
(* two of them it sees instances come and go.  g_stp_vlan_map, which names *)
(* the instance of each VLAN, is written with the VLAN lock held.          *)
(*                                                                         *)
(* Left out: the MAC limit, learning and tagging attributes, statistics,   *)
(* and the tables of the NPU.  A port that is created or deleted enters or *)
(* leaves the default VLAN by the ordinary member calls.                   *)
(***************************************************************************)
EXTENDS Stp, Sequences

CONSTANTS
  NoThread,     \* owner of a lock that is free
  NoVlan        \* no VLAN

ASSUME NoThreadAssumption == NoThread \notin Thread
ASSUME NoVlanAssumption == NoVlan \notin Vlan

VARIABLES
  pc,        \* where each thread is
  req,       \* the VLAN call it works on
  vlanLock,  \* the thread that holds sai_vlan_lock
  vlanList,  \* VLANs that exist
  members,   \* member ports of each VLAN
  map        \* g_stp_vlan_map: the instance of each VLAN

vlanVars == <<pc, req, vlanLock, vlanList, members, map>>
vars == <<stpVars, vlanVars>>

(* The attributes a creation applies after it: none when the VLAN id is    *)
(* the only one, or both when an instance is passed too.                   *)
Attributes == {<<>>, <<"STP", "VLAN_ID">>, <<"VLAN_ID", "STP">>}

(* todo: the attributes a creation has yet to apply; creating: whether the *)
(* handler runs as part of a creation.                                     *)
Req == [vlan : Vlan \cup {NoVlan}, inst : Stp \cup {NoStp}, creating : BOOLEAN,
        todo : Attributes \cup {<<"STP">>, <<"VLAN_ID">>}]

NoReq == [vlan |-> NoVlan, inst |-> NoStp, creating |-> FALSE, todo |-> <<>>]

Pc == {"idle", "createLeave", "createJoin", "apply", "setLock", "setLeave", "setJoin",
       "setBack", "delLock", "delStp", "delNpu"}

TypeOK ==
  /\ StpTypeOK
  /\ pc \in [Thread -> Pc]
  /\ req \in [Thread -> Req]
  /\ vlanLock \in Thread \cup {NoThread}
  /\ vlanList \in SUBSET Vlan
  /\ members \in [Vlan -> SUBSET Port]
  /\ map \in [Vlan -> Stp \cup {NoStp}]

(* After sai_vlan_init.                                                    *)
Init ==
  /\ StpInit
  /\ pc = [t \in Thread |-> "idle"]
  /\ req = [t \in Thread |-> NoReq]
  /\ vlanLock = NoThread
  /\ vlanList = {DefaultVlan}
  /\ members = [v \in Vlan |-> {}]
  /\ map = [v \in Vlan |-> IF v = DefaultVlan THEN DefaultStp ELSE NoStp]

---------------------------------------------------------------------------
(* Helpers                                                                 *)

Goto(t, label) == pc' = [pc EXCEPT ![t] = label]

TakeVlanLock(t) == vlanLock = NoThread /\ vlanLock' = t
DropVlanLock == vlanLock' = NoThread

(* Begins a call of thread t.                                              *)
Call(t, label, v, i, creating, todo) ==
  /\ pc[t] = "idle"
  /\ portCall[t] = NoCall
  /\ Goto(t, label)
  /\ req' = [req EXCEPT ![t] = [vlan |-> v, inst |-> i,
                                creating |-> creating, todo |-> todo]]

Done(t) == Goto(t, "idle") /\ req' = [req EXCEPT ![t] = NoReq]

(* A handler that runs for an attribute of a creation goes on with the     *)
(* next attribute; called by the application it returns.                   *)
Return(t) ==
  IF req[t].creating THEN Goto(t, "apply") /\ UNCHANGED req ELSE Done(t)

(* When an attribute of a creation fails the VLAN is removed.              *)
Fail(t) ==
  IF req[t].creating THEN Goto(t, "delLock") /\ UNCHANGED req ELSE Done(t)

(* Mutant: the entry of the map is given the VLAN instead of the instance. *)
MapVlanItself(v, i) == map' = [map EXCEPT ![v] = v]

(* An entry of g_stp_vlan_map is written, always with the VLAN lock held.  *)
MapVlan(v, i) == map' = [map EXCEPT ![v] = i]

(* sai_stp_vlan_remove of the instance in the map, 0 being refused.        *)
CanLeaveMapped(v) == map[v] # NoStp /\ CanLeave(v, map[v])

---------------------------------------------------------------------------
(* sai_l2_create_vlan                                                      *)

(* With more than one attribute all of them, the VLAN id included, are     *)
(* applied after the creation, whether it succeeded or not.                *)
CreateVlan(t, v, i, todo) ==
  /\ vlanLock = NoThread
  /\ \/ /\ v \notin vlanList
        /\ vlanList' = vlanList \cup {v}
        /\ vlanLock' = t
        /\ Call(t, "createLeave", v, i, TRUE, todo)
     \/ /\ NpuMayFail \/ v \in vlanList
        /\ Call(t, "apply", v, i, TRUE, todo)
        /\ UNCHANGED <<vlanList, vlanLock>>
  /\ UNCHANGED <<members, map, stpVars>>

(* sai_stp_default_stp_vlan_update, not called for VLAN 1: the VLAN leaves *)
(* the instance the map names, if it names one, ...                        *)
CreateVlanLeave(t) ==
  LET v == req[t].vlan IN
  /\ pc[t] = "createLeave"
  /\ \/ /\ v # DefaultVlan /\ map[v] = NoStp
        /\ Goto(t, "createJoin")
        /\ UNCHANGED <<vlanLock, map, stpVars>>
     \/ /\ v # DefaultVlan /\ CanLeaveMapped(v)
        /\ StpVlanRemove(v, map[v])
        /\ MapVlan(v, NoStp)
        /\ Goto(t, "createJoin")
        /\ UNCHANGED vlanLock
     \/ /\ v = DefaultVlan \/ (map[v] # NoStp /\ (NpuMayFail \/ ~ CanLeaveMapped(v)))
        /\ DropVlanLock
        /\ Goto(t, "apply")
        /\ UNCHANGED <<map, stpVars>>
  /\ UNCHANGED <<req, vlanList, members>>

(* ... and joins the default instance.  Failure is logged only.            *)
CreateVlanJoin(t) ==
  LET v == req[t].vlan IN
  /\ pc[t] = "createJoin"
  /\ \/ StpVlanAdd(v, DefaultStp) /\ MapVlan(v, DefaultStp)
     \/ /\ NpuMayFail \/ ~ CanJoin(v, DefaultStp)
        /\ UNCHANGED <<map, stpVars>>
  /\ DropVlanLock
  /\ Goto(t, "apply")
  /\ UNCHANGED <<req, vlanList, members>>

(* The loop over the attributes.  The VLAN id can never be set, so that    *)
(* the VLAN is removed.                                                    *)
ApplyAttribute(t) ==
  LET todo == req[t].todo IN
  /\ pc[t] = "apply"
  /\ IF todo = <<>>
     THEN Done(t)
     ELSE /\ Goto(t, IF Head(todo) = "STP" THEN "setLock" ELSE "delLock")
          /\ req' = [req EXCEPT ![t].todo = Tail(todo)]
  /\ UNCHANGED <<vlanLock, vlanList, members, map, stpVars>>

---------------------------------------------------------------------------
(* sai_l2_set_vlan_attribute of STP_INSTANCE, sai_stp_vlan_handle          *)

SetStp(t, v, i) ==
  /\ Call(t, "setLock", v, i, FALSE, <<>>)
  /\ UNCHANGED <<vlanLock, vlanList, members, map, stpVars>>

(* The VLAN must exist, and sai_stp_is_valid_stp_instance.                 *)
SetStpLock(t) ==
  /\ pc[t] = "setLock"
  /\ vlanLock = NoThread
  /\ IF req[t].vlan \in vlanList /\ req[t].inst \in stps
     THEN vlanLock' = t /\ Goto(t, "setLeave") /\ UNCHANGED req
     ELSE Fail(t) /\ UNCHANGED vlanLock
  /\ UNCHANGED <<vlanList, members, map, stpVars>>

(* Mutant: a VLAN that cannot leave its instance joins the new one.        *)
SetStpLeaveIgnored(t) ==
  LET v == req[t].vlan IN
  /\ pc[t] = "setLeave"
  /\ vlans' \in {vlans} \cup {[vlans EXCEPT ![i] = @ \ {v}] : i \in {map[v]} \cap stps}
  /\ Goto(t, "setJoin")
  /\ UNCHANGED <<req, vlanLock, vlanList, members, map, stps, portVars>>

SetStpLeave(t) ==
  LET v == req[t].vlan IN
  /\ pc[t] = "setLeave"
  /\ \/ /\ CanLeaveMapped(v)
        /\ StpVlanRemove(v, map[v])
        /\ Goto(t, "setJoin")
        /\ UNCHANGED <<req, vlanLock>>
     \/ /\ NpuMayFail \/ ~ CanLeaveMapped(v)
        /\ DropVlanLock
        /\ Fail(t)
        /\ UNCHANGED stpVars
  /\ UNCHANGED <<vlanList, members, map>>

(* Mutant: the map is not updated.                                         *)
SetStpJoinUnmapped(t) ==
  /\ pc[t] = "setJoin"
  /\ StpVlanAdd(req[t].vlan, req[t].inst)
  /\ DropVlanLock
  /\ Return(t)
  /\ UNCHANGED <<vlanList, members, map>>

SetStpJoin(t) ==
  LET v == req[t].vlan
      i == req[t].inst
  IN /\ pc[t] = "setJoin"
     /\ \/ /\ StpVlanAdd(v, i)
           /\ MapVlan(v, i)
           /\ DropVlanLock
           /\ Return(t)
        \/ /\ NpuMayFail \/ ~ CanJoin(v, i)
           /\ Goto(t, "setBack")
           /\ UNCHANGED <<req, vlanLock, map, stpVars>>
     /\ UNCHANGED <<vlanList, members>>

(* Back to the old instance; the outcome is not looked at, and the map     *)
(* keeps naming the old instance.                                          *)
SetStpBack(t) ==
  LET v == req[t].vlan IN
  /\ pc[t] = "setBack"
  /\ \/ StpVlanAdd(v, map[v])
     \/ /\ NpuMayFail \/ ~ CanJoin(v, map[v])
        /\ UNCHANGED stpVars
  /\ DropVlanLock
  /\ Fail(t)
  /\ UNCHANGED <<vlanList, members, map>>

---------------------------------------------------------------------------
(* sai_l2_remove_vlan, sai_l2_delete_vlan, sai_stp_vlan_destroy            *)

DeleteVlan(t, v) ==
  /\ Call(t, "delLock", v, NoStp, FALSE, <<>>)
  /\ UNCHANGED <<vlanLock, vlanList, members, map, stpVars>>

(* Mutant: the deletion goes on without the lock.                          *)
DeleteVlanUnlocked(t) ==
  LET v == req[t].vlan IN
  /\ pc[t] = "delLock"
  /\ vlanLock = NoThread
  /\ IF v \in vlanList /\ members[v] = {}
     THEN Goto(t, "delStp") /\ UNCHANGED req
     ELSE Return(t)
  /\ UNCHANGED <<vlanLock, vlanList, members, map, stpVars>>

(* A VLAN with members is not removed, and the handler returns without     *)
(* releasing the lock.                                                     *)
DeleteVlanLock(t) ==
  LET v == req[t].vlan IN
  /\ pc[t] = "delLock"
  /\ vlanLock = NoThread
  /\ \/ /\ v \notin vlanList
        /\ Return(t)
        /\ UNCHANGED vlanLock
     \/ /\ v \in vlanList /\ members[v] # {}
        /\ vlanLock' = t
        /\ Return(t)
     \/ /\ v \in vlanList /\ members[v] = {}
        /\ vlanLock' = t
        /\ Goto(t, "delStp")
        /\ UNCHANGED req
  /\ UNCHANGED <<vlanList, members, map, stpVars>>

(* Mutant: the map keeps the instance of the VLAN.                         *)
DeleteVlanStpMapped(t) ==
  LET v == req[t].vlan IN
  /\ pc[t] = "delStp"
  /\ CanLeaveMapped(v)
  /\ StpVlanRemove(v, map[v])
  /\ Goto(t, "delNpu")
  /\ UNCHANGED <<req, vlanLock, vlanList, members, map>>

DeleteVlanStp(t) ==
  LET v == req[t].vlan IN
  /\ pc[t] = "delStp"
  /\ \/ /\ CanLeaveMapped(v)
        /\ StpVlanRemove(v, map[v])
        /\ MapVlan(v, NoStp)
        /\ Goto(t, "delNpu")
        /\ UNCHANGED <<req, vlanLock>>
     \/ /\ NpuMayFail \/ ~ CanLeaveMapped(v)
        /\ DropVlanLock
        /\ Return(t)
        /\ UNCHANGED <<map, stpVars>>
  /\ UNCHANGED <<vlanList, members>>

(* When the NPU refuses the VLAN stays, without an instance.               *)
DeleteVlanNpu(t) ==
  /\ pc[t] = "delNpu"
  /\ \/ vlanList' = vlanList \ {req[t].vlan}
     \/ NpuMayFail /\ UNCHANGED vlanList
  /\ DropVlanLock
  /\ Return(t)
  /\ UNCHANGED <<members, map, stpVars>>

---------------------------------------------------------------------------
(* sai_l2_create_vlan_member, sai_l2_remove_vlan_member: one critical      *)
(* section of the VLAN lock each; a failure changes nothing.               *)

AddMember(v, p) ==
  /\ vlanLock = NoThread
  /\ v \in vlanList
  /\ p \notin members[v]
  /\ members' = [members EXCEPT ![v] = @ \cup {p}]
  /\ UNCHANGED <<pc, req, vlanLock, vlanList, map, stpVars>>

RemoveMember(v, p) ==
  /\ vlanLock = NoThread
  /\ p \in members[v]
  /\ members' = [members EXCEPT ![v] = @ \ {p}]
  /\ UNCHANGED <<pc, req, vlanLock, vlanList, map, stpVars>>

---------------------------------------------------------------------------

VlanCall(t) ==
  \E v \in Vlan :
    \/ CreateVlan(t, v, NoStp, <<>>)
    \/ \E i \in Stp, todo \in Attributes \ {<<>>} : CreateVlan(t, v, i, todo)
    \/ \E i \in Stp : SetStp(t, v, i)
    \/ DeleteVlan(t, v)

VlanStep(t) ==
  \/ CreateVlanLeave(t) \/ CreateVlanJoin(t) \/ ApplyAttribute(t)
  \/ SetStpLock(t) \/ SetStpLeave(t) \/ SetStpJoin(t) \/ SetStpBack(t)
  \/ DeleteVlanLock(t) \/ DeleteVlanStp(t) \/ DeleteVlanNpu(t)

(* The calls of the STP API by the application.                            *)
StpPart ==
  /\ \/ StpInstanceStep
     \/ \E t \in Thread : pc[t] = "idle" /\ StpPortStep(t)
     \/ \E s \in StpPort : StpPortRemove(s)
  /\ UNCHANGED vlanVars

Next ==
  \/ \E t \in Thread : VlanCall(t) \/ VlanStep(t)
  \/ \E v \in Vlan, p \in Port : AddMember(v, p) \/ RemoveMember(v, p)
  \/ StpPart

Spec == Init /\ [][Next]_vars

---------------------------------------------------------------------------
(* Properties                                                              *)

(* A VLAN is listed by at most one instance at any time, also while it is  *)
(* moved, although leaving and joining are separate critical sections of   *)
(* the STP lock (sai_stp.c:1073-1105); and that instance exists.           *)
VlanInOneInstance ==
  /\ \A i, j \in stps : i # j => vlans[i] \cap vlans[j] = {}
  /\ \A i \in Stp \ stps : vlans[i] = {}

(* While no VLAN handler runs, g_stp_vlan_map finds the instance that      *)
(* lists a VLAN: otherwise the VLAN could never leave it (sai_stp.c:1061,  *)
(* 1084).                                                                  *)
VlanFoundByMap ==
  vlanLock = NoThread =>
    \A i \in stps : \A v \in vlans[i] : map[v] = i

(* A VLAN id that is free has left nothing behind in the map or in an      *)
(* instance, whichever steps of its deletion failed before: a later        *)
(* creation of the id starts afresh, so that the removal from an old       *)
(* instance at sai_stp.c:1111-1119 is never needed.                        *)
FreeVlanUnmapped ==
  vlanLock = NoThread =>
    \A v \in Vlan \ vlanList :
      map[v] = NoStp /\ \A i \in stps : v \notin vlans[i]

(* The map and the lists of the instances agree about every VLAN, in use   *)
(* or free, whichever steps of a move or a deletion failed                 *)
(* (sai_stp.c:1061-1119, sai_vlan.c:278, 384).                             *)
VlanMapExact == VlanFoundByMap /\ FreeVlanUnmapped

(* A VLAN is deleted only while it has no member port: none joins between  *)
(* the check and the deletion (sai_vlan.c:303-308).                        *)
VlanInUseNotDeleted ==
  [][\A v \in vlanList \ vlanList' : members[v] = {} /\ members'[v] = {}]_vars

(* Instances and VLANs together implement the abstract specification.      *)
InstanceOf(v) ==
  IF \E i \in stps : v \in vlans[i]
  THEN CHOOSE i \in stps : v \in vlans[i]
  ELSE NoStp

Tree == INSTANCE VlanTree WITH created <- vlanList, insts <- stps,
                               tree <- [v \in Vlan |-> InstanceOf(v)]

ImplementsVlanTree == Tree!Spec
=============================================================================
