----------------------------- MODULE MCServices -----------------------------
(* TLC instance of Services; values and bounds are in MCServices.cfg.  No  *)
(* symmetry: permuting the state of every component costs more than the    *)
(* states it saves.                                                        *)
EXTENDS Services

(* The encapsulating hop has the address of both next hops.                *)
FullBits == [x \in EHop \cup ENode |-> 1]
=============================================================================
