------------------------------ MODULE RifTable ------------------------------
(***************************************************************************)
(* What the router interface table promises to its users: an abstract      *)
(* specification, without threads, locks, NPU or LAG members, which        *)
(* LagRif is shown to implement.                                           *)
(*                                                                         *)
(*   - an attachment (port, VLAN or LAG) never serves two virtual routers; *)
(*   - a new interface never repeats the attachment and the MAC of another *)
(*     one;                                                                *)
(*   - an interface that a next hop uses is not removed;                   *)
(*   - its attachment and virtual router never change.                     *)
(***************************************************************************)
EXTENDS Naturals

CONSTANTS Rif, NoInfo, Att, Vrf, Mac

VARIABLES rifs, rifRef

vars == <<rifs, rifRef>>

RifInfo == [att : Att, vrf : Vrf, mac : Mac]

Live == {r \in Rif : rifs[r] # NoInfo}

Init ==
  /\ rifs = [r \in Rif |-> NoInfo]
  /\ rifRef = [r \in Rif |-> 0]

Create(r, info) ==
  /\ r \notin Live
  /\ \A s \in Live : rifs[s].att = info.att =>
       rifs[s].vrf = info.vrf /\ rifs[s].mac # info.mac
  /\ rifs' = [rifs EXCEPT ![r] = info]
  /\ rifRef' = [rifRef EXCEPT ![r] = 0]

Remove(r) ==
  /\ r \in Live
  /\ rifRef[r] = 0
  /\ rifs' = [rifs EXCEPT ![r] = NoInfo]
  /\ UNCHANGED rifRef

SetMac(r, m) ==
  /\ r \in Live
  /\ rifs' = [rifs EXCEPT ![r].mac = m]
  /\ UNCHANGED rifRef

Use(r) ==
  /\ r \in Live
  /\ rifRef' = [rifRef EXCEPT ![r] = @ + 1]
  /\ UNCHANGED rifs

Unuse(r) ==
  /\ r \in Live
  /\ rifRef[r] > 0
  /\ rifRef' = [rifRef EXCEPT ![r] = @ - 1]
  /\ UNCHANGED rifs

Next ==
  \E r \in Rif :
    \/ \E info \in RifInfo : Create(r, info)
    \/ Remove(r)
    \/ \E m \in Mac : SetMac(r, m)
    \/ Use(r) \/ Unuse(r)

Spec == Init /\ [][Next]_vars
=============================================================================
