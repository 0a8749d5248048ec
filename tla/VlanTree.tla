------------------------------ MODULE VlanTree ------------------------------
(***************************************************************************)
(* What the VLAN and STP components promise together: an abstract          *)
(* specification that VlanStp is shown to implement.                       *)
(*                                                                         *)
(*   - a VLAN belongs to at most one spanning tree instance, and changes   *)
(*     it by leaving the old one first;                                    *)
(*   - only a VLAN that exists belongs to one, and it has left its         *)
(*     instance when it is deleted;                                        *)
(*   - an instance is removed only when no VLAN belongs to it.             *)
(***************************************************************************)
CONSTANTS Vlan, Stp, NoStp, DefaultVlan, DefaultStp

VARIABLES created, insts, tree

vars == <<created, insts, tree>>

Init ==
  /\ created = {DefaultVlan}
  /\ insts = {DefaultStp}
  /\ tree = [v \in Vlan |-> IF v = DefaultVlan THEN DefaultStp ELSE NoStp]

CreateVlan(v) ==
  /\ v \notin created
  /\ created' = created \cup {v}
  /\ UNCHANGED <<insts, tree>>

DeleteVlan(v) ==
  /\ v \in created
  /\ tree[v] = NoStp
  /\ created' = created \ {v}
  /\ UNCHANGED <<insts, tree>>

Join(v, i) ==
  /\ v \in created
  /\ tree[v] = NoStp
  /\ i \in insts
  /\ tree' = [tree EXCEPT ![v] = i]
  /\ UNCHANGED <<created, insts>>

Leave(v) ==
  /\ v \in created
  /\ tree' = [tree EXCEPT ![v] = NoStp]
  /\ UNCHANGED <<created, insts>>

CreateInstance(i) ==
  /\ i \notin insts
  /\ insts' = insts \cup {i}
  /\ UNCHANGED <<created, tree>>

RemoveInstance(i) ==
  /\ i \in insts
  /\ \A v \in Vlan : tree[v] # i
  /\ insts' = insts \ {i}
  /\ UNCHANGED <<created, tree>>

Next ==
  \/ \E v \in Vlan : CreateVlan(v) \/ DeleteVlan(v) \/ Leave(v)
  \/ \E v \in Vlan, i \in Stp : Join(v, i)
  \/ \E i \in Stp : CreateInstance(i) \/ RemoveInstance(i)

Spec == Init /\ [][Next]_vars
=============================================================================
