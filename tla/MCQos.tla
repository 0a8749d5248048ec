-------------------------------- MODULE MCQos --------------------------------
(* TLC instance of Qos; values and bounds are in MCQos.cfg.  Pools and     *)
(* profiles of the buffers are interchangeable, and no property tells them *)
(* apart; the ids of the scheduler tree are not.                           *)
EXTENDS Qos, TLC

Symm == Permutations(BPool) \cup Permutations(BProf)
===========================================================================
