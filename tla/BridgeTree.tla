----------------------------- MODULE BridgeTree -----------------------------
(***************************************************************************)
(* What the bridge API promises of the 1D bridges and their sub ports      *)
(* (src/src/bridge/sai_bridge.c), without locks, ids or counters: a place, *)
(* which is a port or LAG with a VLAN, is bridged by at most one bridge,   *)
(* and a bridge goes only when nothing is bridged by it.                   *)
(***************************************************************************)
CONSTANTS
  Bridge,    \* the 1D bridges
  Place,     \* attachments with a VLAN
  NoBridge   \* not bridged

VARIABLES
  exists,    \* the bridges that exist
  bridgedBy  \* the bridge of each place

TreeInit ==
  /\ exists = {}
  /\ bridgedBy = [p \in Place |-> NoBridge]

AddBridge(b) ==
  /\ b \notin exists
  /\ exists' = exists \cup {b}
  /\ UNCHANGED bridgedBy

DropBridge(b) ==
  /\ b \in exists
  /\ \A p \in Place : bridgedBy[p] # b
  /\ exists' = exists \ {b}
  /\ UNCHANGED bridgedBy

Connect(p, b) ==
  /\ bridgedBy[p] = NoBridge
  /\ b \in exists
  /\ bridgedBy' = [bridgedBy EXCEPT ![p] = b]
  /\ UNCHANGED exists

Disconnect(p) ==
  /\ bridgedBy[p] # NoBridge
  /\ bridgedBy' = [bridgedBy EXCEPT ![p] = NoBridge]
  /\ UNCHANGED exists

TreeNext ==
  \/ \E b \in Bridge : AddBridge(b) \/ DropBridge(b)
  \/ \E p \in Place, b \in Bridge : Connect(p, b)
  \/ \E p \in Place : Disconnect(p)

TreeSpec == TreeInit /\ [][TreeNext]_<<exists, bridgedBy>>
=============================================================================
