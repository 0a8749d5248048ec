---------------------------- MODULE MCBridgePort ----------------------------
(* BridgePort on small instances.                                          *)
EXTENDS BridgePort, TLC

(* Threads, LAGs, ports, bridge ports and VLANs are interchangeable.       *)
Symmetric ==
  UNION {Permutations(S) : S \in {Thread, Lag, Port, BPort, Vlan}}
=============================================================================
