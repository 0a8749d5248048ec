----------------------------- MODULE MCVlanStp -----------------------------
(* VlanStp on small instances.                                             *)
EXTENDS VlanStp, TLC

(* VLANs and instances are not interchangeable, one of each is the         *)
(* default.                                                                *)
Symmetric == Permutations(Thread) \cup Permutations(Port)
=============================================================================
