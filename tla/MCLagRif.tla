------------------------------ MODULE MCLagRif ------------------------------
(* LagRif on small instances.                                              *)
EXTENDS LagRif, TLC

(* Threads, LAGs, RIFs, virtual routers and MACs are interchangeable.  The *)
(* symmetry is used only where no liveness property is checked.            *)
Symmetric ==
  UNION {Permutations(S) : S \in {Thread, Lag, Rif, Vrf, Mac}}
=============================================================================
