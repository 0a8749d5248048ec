----------------------------- MODULE BridgePort -----------------------------
(***************************************************************************)
(* Bridges and bridge ports: src/src/bridge/sai_bridge.c, composed with    *)
(* the LAG component of Lag.tla.                                           *)
(*                                                                         *)
(* Every handler runs under the bridge lock.  The creation and removal of  *)
(* a bridge port take the lock of the module of its attachment inside it,  *)
(* and count the bridge port in its bridge and in its attachment.  The     *)
(* bridge listens to changes of LAG members, and passes them on to the     *)
(* bridge ports of the LAG.                                                *)
(*                                                                         *)
(* Here are the bridge ports whose attachment is a port or a LAG: those of *)
(* type PORT on the default 1Q bridge, and those of type SUB_PORT, with a  *)
(* VLAN, on a 1D bridge.  sai_port_lock is taken by no one else here and   *)
(* only inside the bridge lock: it is left out.  Attributes that nothing   *)
(* here looks at are left out too, and so is ref_count of a bridge port,   *)
(* which no code of the repository increments.                             *)
(***************************************************************************)
EXTENDS Lag

CONSTANTS
  Bridge,         \* the bridges, the default 1Q bridge included
  DefaultBridge,  \* sai_default_bridge_id
  NoBridge,       \* no bridge
  BPort,          \* the bridge port identifiers the NPU may return
  NoBPort,        \* no bridge port (SAI_NULL_OBJECT_ID)
  NoInfo,         \* content of the cache for an id that does not exist
  Vlan,           \* VLAN ids
  NoVlan,         \* the VLAN of a bridge port of type PORT
  MaxBridgeRef    \* bound on ref_count of a bridge, which failures leak

ASSUME BridgeAssumption == DefaultBridge \in Bridge /\ NoBridge \notin Bridge
ASSUME BPortAssumption == NoBPort \notin BPort /\ IsFiniteSet(BPort)
ASSUME AttachmentAssumption == Port \cap Lag = {}
ASSUME VlanAssumption == NoVlan \notin Vlan

VARIABLES
  bridgeLock,  \* the thread that holds sai_bridge_lock
  bpOp,        \* what the holder of the bridge lock works on
  bridges,     \* the bridges in the cache
  bridgeRef,   \* ref_count of each bridge
  bports,      \* the bridge ports in the cache
  npuBports,   \* bridge ports that exist in the NPU
  npuMembers,  \* the LAG members each bridge port is programmed on
  defBport,    \* default bridge port of each port and LAG (in its node)
  lagBports,   \* the LAG to bridge port map
  vlanBport,   \* the port and VLAN to bridge port map
  portRef      \* ref_count of each port

bridgeData == <<bridges, bridgeRef, bports, npuBports, npuMembers, defBport,
                lagBports, vlanBport, portRef>>
bridgeVars == <<bridgeLock, bpOp, bridgeData>>
vars == <<lagVars, bridgeVars>>

Attachment == Port \cup Lag

BpInfo ==
  [type : {"PORT"}, att : Attachment, vlan : {NoVlan}, bridge : Bridge]
    \cup
  [type : {"SUB_PORT"}, att : Attachment, vlan : Vlan, bridge : Bridge]

ASSUME NoInfoAssumption == NoInfo \notin BpInfo

Cached == {b \in BPort : bports[b] # NoInfo}
On(a) == {b \in Cached : bports[b].att = a}

NoOp == [info |-> NoInfo, bp |-> NoBPort, lagLocked |-> FALSE]

(* What the NPU programs a bridge port on when it creates it.              *)
LagMembers(a) == IF a \in Lag THEN members[a] ELSE {}

BpPc == {"bpCreateLag", "bpCheck", "bpNpu", "bpAttach", "bpRemoveLag", "bpRemove"}

TypeOK ==
  /\ LagTypeOK
  /\ pc \in [Thread -> LagPc \cup BpPc]
  /\ bridgeLock \in Thread \cup {NoThread}
  /\ bpOp \in [info : BpInfo \cup {NoInfo}, bp : BPort \cup {NoBPort},
               lagLocked : BOOLEAN]
  /\ bridges \in SUBSET Bridge
  /\ bridgeRef \in [Bridge -> Nat]
  /\ bports \in [BPort -> BpInfo \cup {NoInfo}]
  /\ npuBports \in SUBSET BPort
  /\ npuMembers \in [BPort -> SUBSET Port]
  /\ defBport \in [Attachment -> BPort \cup {NoBPort}]
  /\ lagBports \in [Lag -> SUBSET BPort]
  /\ vlanBport \in [Attachment \X Vlan -> BPort \cup {NoBPort}]
  /\ portRef \in [Port -> Nat]

(* sai_bridge_init has made the default bridge.  The bridge ports it puts  *)
(* on the ports at start are created and removed like any other here.      *)
Init ==
  /\ LagInit
  /\ bridgeLock = NoThread
  /\ bpOp = NoOp
  /\ bridges = {DefaultBridge}
  /\ bridgeRef = [b \in Bridge |-> 0]
  /\ bports = [b \in BPort |-> NoInfo]
  /\ npuBports = {}
  /\ npuMembers = [b \in BPort |-> {}]
  /\ defBport = [a \in Attachment |-> NoBPort]
  /\ lagBports = [l \in Lag |-> {}]
  /\ vlanBport = [p \in Attachment \X Vlan |-> NoBPort]
  /\ portRef = [p \in Port |-> 0]

---------------------------------------------------------------------------
(* Bridges: one critical section of the bridge lock each                   *)

(* A creation that fails after the NPU has made the bridge takes it back.  *)
BridgeCreate(b) ==
  /\ bridgeLock = NoThread
  /\ b \notin bridges
  /\ bridges' = bridges \cup {b}
  /\ bridgeRef' = [bridgeRef EXCEPT ![b] = 0]
  /\ UNCHANGED <<lagVars, bridgeLock, bpOp, bports, npuBports, npuMembers,
                 defBport, lagBports, vlanBport, portRef>>

(* Mutant: the bridge goes whatever is connected to it.                    *)
BridgeRemovableAlways(b) == b \in bridges /\ b # DefaultBridge

BridgeRemovable(b) ==
  /\ b \in bridges
  /\ b # DefaultBridge
  /\ bridgeRef[b] = 0

BridgeRemove(b) ==
  /\ bridgeLock = NoThread
  /\ BridgeRemovable(b)
  /\ bridges' = bridges \ {b}
  /\ UNCHANGED <<lagVars, bridgeLock, bpOp, bridgeRef, bports, npuBports,
                 npuMembers, defBport, lagBports, vlanBport, portRef>>

---------------------------------------------------------------------------
(* Locks                                                                   *)

TakeBridgeLock(t) == bridgeLock = NoThread /\ bridgeLock' = t

(* sai_bridge_give_module_lock, sai_bridge_unlock.                         *)
BpReturn(t) ==
  /\ bridgeLock' = NoThread
  /\ bpOp' = NoOp
  /\ IF bpOp.lagLocked THEN DropLagLock ELSE UNCHANGED lagLock
  /\ Goto(t, "idle")

(* The lock of the LAG module, when it is taken.                           *)
BpTakeLag(t, from, to) ==
  /\ pc[t] = from
  /\ TakeLagLock(t)
  /\ bpOp' = [bpOp EXCEPT !.lagLocked = TRUE]
  /\ Goto(t, to)
  /\ UNCHANGED <<lagReq, lagRef, lagData, bridgeLock, bridgeData>>

---------------------------------------------------------------------------
(* sai_bridge_port_create                                                  *)

(* sai_bridge_port_get_type_from_attr compares the id of an attribute with *)
(* SAI_BRIDGE_PORT_TYPE_PORT, which is the id of the type attribute: it    *)
(* takes the unset bytes of the type's value for those of an object id, so *)
(* that either lock may be the one taken, whatever the attachment is.      *)
BpCreateLock(t, info, isLag) ==
  /\ pc[t] = "idle"
  /\ bridgeRef[info.bridge] < MaxBridgeRef
  /\ TakeBridgeLock(t)
  /\ bpOp' = [info |-> info, bp |-> NoBPort, lagLocked |-> FALSE]
  /\ Goto(t, IF isLag THEN "bpCreateLag" ELSE "bpCheck")
  /\ UNCHANGED <<lagReq, lagLock, lagRef, lagData, bridgeData>>

BpCreateTakeLag(t) == BpTakeLag(t, "bpCreateLag", "bpCheck")

(* Mutant: the default bridge port of the attachment is not looked for.    *)
FreeSubPortOnly(info) ==
  info.type = "SUB_PORT" => vlanBport[<<info.att, info.vlan>>] = NoBPort

(* sai_bridge_port_validate_and_fill_attachment                            *)
FreeAttachment(info) ==
  IF info.type = "PORT"
  THEN defBport[info.att] = NoBPort
  ELSE vlanBport[<<info.att, info.vlan>>] = NoBPort

(* sai_is_bridge_and_port_type_match                                       *)
TypeMatch(info) == (info.type = "PORT") <=> (info.bridge = DefaultBridge)

BpValid(info) ==
  /\ info.att \in Lag => info.att \in lags
  /\ info.bridge \in bridges
  /\ TypeMatch(info)
  /\ FreeAttachment(info)

BpCheck(t) ==
  /\ pc[t] = "bpCheck"
  /\ IF BpValid(bpOp.info)
     THEN Goto(t, "bpNpu") /\ UNCHANGED <<lagLock, bridgeLock, bpOp>>
     ELSE BpReturn(t)
  /\ UNCHANGED <<lagReq, lagRef, lagData, bridgeData>>

BpNpu(t) ==
  /\ pc[t] = "bpNpu"
  /\ \/ \E b \in BPort \ npuBports :
          /\ npuBports' = npuBports \cup {b}
          /\ npuMembers' = [npuMembers EXCEPT ![b] = LagMembers(bpOp.info.att)]
          /\ bpOp' = [bpOp EXCEPT !.bp = b]
          /\ Goto(t, "bpAttach")
          /\ UNCHANGED <<lagLock, bridgeLock>>
     \/ /\ NpuMayFail \/ npuBports = BPort
        /\ BpReturn(t)
        /\ UNCHANGED <<npuBports, npuMembers>>
  /\ UNCHANGED <<lagReq, lagRef, lagData, bridges, bridgeRef, bports, defBport,
                 lagBports, vlanBport, portRef>>

(* The node of the attachment is there to be counted in.                   *)
Countable(a) == a \in Lag => a \in lags

(* Writes the cache, counts in the bridge and the attachment, fills the    *)
(* maps.                                                                   *)
BpAttach(t) ==
  LET b == bpOp.bp
      info == bpOp.info
      a == info.att
  IN /\ pc[t] = "bpAttach"
     /\ b \notin Cached
     /\ Countable(a)
     /\ bports' = [bports EXCEPT ![b] = info]
     /\ bridgeRef' = [bridgeRef EXCEPT ![info.bridge] = @ + 1]
     /\ IF info.type = "PORT"
        THEN defBport' = [defBport EXCEPT ![a] = b] /\ UNCHANGED vlanBport
        ELSE vlanBport' = [vlanBport EXCEPT ![<<a, info.vlan>>] = b] /\ UNCHANGED defBport
     /\ IF a \in Lag
        THEN /\ lagBports' = [lagBports EXCEPT ![a] = @ \cup {b}]
             /\ lagRef' = [lagRef EXCEPT ![a] = @ + 1]
             /\ UNCHANGED portRef
        ELSE /\ portRef' = [portRef EXCEPT ![a] = @ + 1]
             /\ UNCHANGED <<lagBports, lagRef>>
     /\ BpReturn(t)
     /\ UNCHANGED <<lagReq, lagData, bridges, npuBports, npuMembers>>

(* The rollback removes the bridge port from the NPU, if that call works.  *)
NpuRollback(b) ==
  \/ /\ npuBports' = npuBports \ {b}
     /\ npuMembers' = [npuMembers EXCEPT ![b] = {}]
  \/ NpuMayFail /\ UNCHANGED <<npuBports, npuMembers>>

(* Mutant: the rollback forgets the count of the attachment.               *)
BpAttachFailCounted(t) ==
  LET a == bpOp.info.att IN
  /\ pc[t] = "bpAttach"
  /\ NpuMayFail
  /\ NpuRollback(bpOp.bp)
  /\ lagRef' = [l \in Lag |-> lagRef[l] + IF l = a /\ l \in lags THEN 1 ELSE 0]
  /\ portRef' = [p \in Port |-> portRef[p] + IF p = a THEN 1 ELSE 0]
  /\ BpReturn(t)
  /\ UNCHANGED <<lagReq, lagData, bridges, bridgeRef, bports, defBport,
                 lagBports, vlanBport>>

(* The creation fails and takes everything back: the cache, an attribute   *)
(* or the VLAN map fails, or the LAG of a sub port has gone.               *)
BpAttachFail(t) ==
  /\ pc[t] = "bpAttach"
  /\ \/ NpuMayFail
     \/ bpOp.bp \in Cached
     \/ bpOp.info.type = "SUB_PORT" /\ ~ Countable(bpOp.info.att)
  /\ NpuRollback(bpOp.bp)
  /\ BpReturn(t)
  /\ UNCHANGED <<lagReq, lagRef, lagData, bridges, bridgeRef, bports, defBport,
                 lagBports, vlanBport, portRef>>

(* sai_bridge_port_incr_attachment_ref_counter returns early, after it has *)
(* counted in the bridge: the LAG of a bridge port of type PORT has gone,  *)
(* or the LAG to bridge port map fails, with the default set already.      *)
BpAttachLeak(t) ==
  LET info == bpOp.info
      a == info.att
  IN /\ pc[t] = "bpAttach"
     /\ a \in Lag
     /\ bpOp.bp \notin Cached
     /\ NpuMayFail \/ (info.type = "PORT" /\ ~ Countable(a))
     /\ bridgeRef' = [bridgeRef EXCEPT ![info.bridge] = @ + 1]
     /\ IF info.type = "PORT" /\ Countable(a)
        THEN defBport' = [defBport EXCEPT ![a] = bpOp.bp]
        ELSE UNCHANGED defBport
     /\ NpuRollback(bpOp.bp)
     /\ BpReturn(t)
     /\ UNCHANGED <<lagReq, lagRef, lagData, bridges, bports,
                    lagBports, vlanBport, portRef>>

---------------------------------------------------------------------------
(* sai_bridge_port_remove                                                  *)

BpRemoveLock(t, b) ==
  /\ pc[t] = "idle"
  /\ b \in Cached
  /\ TakeBridgeLock(t)
  /\ bpOp' = [info |-> bports[b], bp |-> b, lagLocked |-> FALSE]
  /\ Goto(t, IF bports[b].att \in Lag THEN "bpRemoveLag" ELSE "bpRemove")
  /\ UNCHANGED <<lagReq, lagLock, lagRef, lagData, bridgeData>>

BpRemoveTakeLag(t) == BpTakeLag(t, "bpRemoveLag", "bpRemove")

(* Mutant: what is counted out is not looked at.                           *)
UncountableNever(info) == FALSE

(* Counting a bridge port out fails when its LAG is not the one that it    *)
(* was counted in, or its bridge counts none.                              *)
Uncountable(info) ==
  \/ bridgeRef[info.bridge] = 0
  \/ info.att \in Lag /\ (info.att \notin lags \/ lagRef[info.att] = 0)

BpRemove(t) ==
  LET b == bpOp.bp
      info == bpOp.info
      a == info.att
  IN /\ pc[t] = "bpRemove"
     /\ ~ Uncountable(info)
     /\ bports' = [bports EXCEPT ![b] = NoInfo]
     /\ npuBports' = npuBports \ {b}
     /\ npuMembers' = [npuMembers EXCEPT ![b] = {}]
     /\ bridgeRef' = [bridgeRef EXCEPT ![info.bridge] = @ - 1]
     /\ IF info.type = "PORT"
        THEN defBport' = [defBport EXCEPT ![a] = NoBPort] /\ UNCHANGED vlanBport
        ELSE vlanBport' = [vlanBport EXCEPT ![<<a, info.vlan>>] = NoBPort] /\ UNCHANGED defBport
     /\ IF a \in Lag
        THEN /\ lagBports' = [lagBports EXCEPT ![a] = @ \ {b}]
             /\ lagRef' = [lagRef EXCEPT ![a] = @ - 1]
             /\ UNCHANGED portRef
        ELSE /\ portRef' = [portRef EXCEPT ![a] = @ - 1]
             /\ UNCHANGED <<lagBports, lagRef>>
     /\ BpReturn(t)
     /\ UNCHANGED <<lagReq, lagData, bridges>>

(* The NPU refuses the removal.                                            *)
BpRemoveFail(t) ==
  /\ pc[t] = "bpRemove"
  /\ NpuMayFail
  /\ BpReturn(t)
  /\ UNCHANGED <<lagReq, lagRef, lagData, bridgeData>>

(* sai_bridge_port_decr_attachment_ref_counter fails.  The NPU is asked    *)
(* for the bridge port again, and may fail or answer with another id.      *)
(* What was counted out of the bridge stays so when the LAG has gone, and  *)
(* the default of the LAG has been reset otherwise.                        *)
BpRemoveUncountable(t) ==
  LET b == bpOp.bp
      info == bpOp.info
      a == info.att
      port == info.type = "PORT" /\ bridgeRef[info.bridge] > 0
  IN /\ pc[t] = "bpRemove"
     /\ Uncountable(info)
     /\ bridgeRef' = IF port /\ a \notin lags
                     THEN [bridgeRef EXCEPT ![info.bridge] = @ - 1]
                     ELSE bridgeRef
     /\ defBport' = IF port /\ a \in lags
                    THEN [defBport EXCEPT ![a] = NoBPort]
                    ELSE defBport
     /\ \/ /\ npuBports' = npuBports \cup {b}
           /\ npuMembers' = [npuMembers EXCEPT ![b] = LagMembers(a)]
        \/ /\ NpuMayFail
           /\ npuBports' = npuBports \ {b}
           /\ npuMembers' = [npuMembers EXCEPT ![b] = {}]
     /\ BpReturn(t)
     /\ UNCHANGED <<lagReq, lagRef, lagData, bridges, bports,
                    lagBports, vlanBport, portRef>>

---------------------------------------------------------------------------
(* sai_bridge_lag_notification_handler, in the thread that changed the LAG. *)
(* The first bridge port that the NPU refuses, or that is not in the       *)
(* cache, ends the loop over the map, which has an order of its own.       *)

BridgeLagNotify(t) ==
  LET l == lagReq[t].lag
      p == lagReq[t].port
      told == lagBports[l] \cap Cached
  IN /\ pc[t] = "notify"
     /\ bridgeLock = NoThread
     /\ \E done \in IF NpuMayFail THEN SUBSET told ELSE {told} :
          npuMembers' = [b \in BPort |->
            IF b \notin done THEN npuMembers[b]
            ELSE IF lagReq[t].oper = "ADD_PORTS" THEN npuMembers[b] \cup {p}
            ELSE npuMembers[b] \ {p}]
     /\ Goto(t, "idle")
     /\ lagReq' = [lagReq EXCEPT ![t] = NoReq]
     /\ UNCHANGED <<lagLock, lagRef, lagData, bridgeLock, bpOp, bridges,
                    bridgeRef, bports, npuBports, defBport, lagBports,
                    vlanBport, portRef>>

---------------------------------------------------------------------------

(* The node of a LAG holds its default bridge port: a new node has none.   *)
(* A removal that the NPU refuses puts a new node back too.                *)
LagPart(t) ==
  /\ LagCall(t) \/ LagStep(t)
  /\ defBport' = [a \in Attachment |->
       IF \/ a \in lags' \ lags
          \/ pc[t] = "removeNode" /\ a = lagReq[t].lag
       THEN NoBPort ELSE defBport[a]]
  /\ UNCHANGED <<bridgeLock, bpOp, bridges, bridgeRef, bports, npuBports,
                 npuMembers, lagBports, vlanBport, portRef>>

BpCall(t) ==
  \/ \E info \in BpInfo, isLag \in BOOLEAN : BpCreateLock(t, info, isLag)
  \/ \E b \in BPort : BpRemoveLock(t, b)

BpStep(t) ==
  \/ BpCreateTakeLag(t) \/ BpCheck(t) \/ BpNpu(t)
  \/ BpAttach(t) \/ BpAttachFail(t) \/ BpAttachLeak(t)
  \/ BpRemoveTakeLag(t) \/ BpRemove(t) \/ BpRemoveFail(t) \/ BpRemoveUncountable(t)
  \/ BridgeLagNotify(t)

Next ==
  \/ \E t \in Thread : LagPart(t) \/ BpCall(t) \/ BpStep(t)
  \/ \E b \in Bridge : BridgeCreate(b) \/ BridgeRemove(b)

Spec == Init /\ [][Next]_vars

---------------------------------------------------------------------------
(* Properties                                                              *)

(* A port counts exactly the bridge ports on it, whichever calls failed on *)
(* the way (sai_bridge.c:477, 560, and the rollbacks at 1041-1051 and      *)
(* 1176-1195).                                                             *)
PortRefExact ==
  \A p \in Port : portRef[p] = Cardinality(On(p))

(* A LAG never counts more bridge ports than are on it: no failure and no  *)
(* race with its removal leaves a LAG that can never be removed again.     *)
LagRefNeverLeaks ==
  \A l \in lags : lagRef[l] <= Cardinality(On(l))

(* A port has at most one bridge port of type PORT, the one it names as    *)
(* its default (sai_bridge.c:240-252).                                     *)
OneDefaultBridgePort ==
  \A b \in Cached : bports[b].type = "PORT" /\ bports[b].att \in Port =>
    defBport[bports[b].att] = b

(* Ports and LAGs agree with the bridge ports on them, whatever failed or  *)
(* was removed at the same time: what decides whether a LAG can be removed *)
(* and whether a port can take another bridge port is right                *)
(* (sai_bridge.c:240-252, 477, 560, 1041-1051, 1176-1195).                 *)
AttachmentsSound == PortRefExact /\ LagRefNeverLeaks /\ OneDefaultBridgePort

(* The bridges and sub ports implement the abstract tree.                  *)
BridgedBy ==
  [p \in Attachment \X Vlan |->
    LET subs == {b \in Cached : bports[b].att = p[1] /\ bports[b].vlan = p[2]}
    IN IF subs = {} THEN NoBridge ELSE bports[CHOOSE b \in subs : TRUE].bridge]

Tree == INSTANCE BridgeTree WITH Bridge <- Bridge \ {DefaultBridge},
                                 Place <- Attachment \X Vlan,
                                 exists <- bridges \ {DefaultBridge},
                                 bridgedBy <- BridgedBy

ImplementsBridgeTree == Tree!TreeSpec

=============================================================================
