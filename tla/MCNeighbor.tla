----------------------------- MODULE MCNeighbor -----------------------------
(* Neighbor on small instances.                                            *)
EXTENDS Neighbor, TLC

(* Threads, neighbours, addresses and ports are interchangeable.           *)
Symmetric == UNION {Permutations(S) : S \in {Thread, Nbr, Mac, Port}}
=============================================================================
