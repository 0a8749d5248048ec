-------------------------------- MODULE Lag --------------------------------
(***************************************************************************)
(* The LAG component: src/src/switching/sai_lag.c.                         *)
(*                                                                         *)
(* Every API call runs in the thread of its caller.  A handler takes       *)
(* sai_lag_lock, validates, programs the NPU, updates the LAG cache,       *)
(* releases the lock and only then tells the registered modules (RIF,      *)
(* bridge) that the members of the LAG changed.  A thread that has         *)
(* released the lock after a change of members is left in pc "notify":     *)
(* the module that composes the LAG with its listeners says what the       *)
(* callbacks do.                                                           *)
(*                                                                         *)
(* lag_id and member_id are chosen by the NPU; a member is identified here *)
(* by its LAG and port.  The INGRESS_DISABLE and EGRESS_DISABLE flags of a *)
(* member behave alike, one flag stands for both.                          *)
(***************************************************************************)
EXTENDS Naturals, FiniteSets

CONSTANTS
  Thread,       \* the threads that call the API
  NoThread,     \* owner of a lock that is free
  Lag,          \* the LAG identifiers the NPU may return
  NoLag,        \* no LAG
  Port,         \* the physical ports
  NoPort,       \* no port
  NpuMayFail    \* may a call of the NPU plug-in (or an allocation) fail?

ASSUME NoThreadAssumption == NoThread \notin Thread
ASSUME NoLagAssumption == NoLag \notin Lag /\ NoPort \notin Port
ASSUME NpuMayFailAssumption == NpuMayFail \in BOOLEAN

VARIABLES
  pc,        \* where each thread is
  lagReq,    \* the LAG, port and opcode a thread works on
  lagLock,   \* the thread that holds sai_lag_lock
  lags,      \* LAG nodes of the cache
  members,   \* member ports of each LAG in the cache
  disabled,  \* members whose traffic is disabled, per LAG
  lagRef,    \* ref_count of each LAG node (bridge ports use it)
  npuLags,   \* LAGs that exist in the NPU
  npuLag     \* member ports of each LAG in the NPU

lagData == <<lags, members, disabled, npuLags, npuLag>>
lagVars == <<pc, lagReq, lagLock, lagRef, lagData>>

LagOper == {"none", "ADD_PORTS", "DEL_PORTS"}
LagReq == [lag : Lag \cup {NoLag}, port : Port \cup {NoPort}, oper : LagOper]
NoReq == [lag |-> NoLag, port |-> NoPort, oper |-> "none"]

LagPc == {"idle", "createLag", "removeLag", "removeNode", "addCheck", "addNpu",
          "addCache", "delCheck", "delNpu", "delCache", "setFlag", "notify"}

LagTypeOK ==
  /\ lagReq \in [Thread -> LagReq]
  /\ lagLock \in Thread \cup {NoThread}
  /\ lags \in SUBSET Lag
  /\ members \in [Lag -> SUBSET Port]
  /\ disabled \in [Lag -> SUBSET Port]
  /\ lagRef \in [Lag -> Nat]
  /\ npuLags \in SUBSET Lag
  /\ npuLag \in [Lag -> SUBSET Port]

LagInit ==
  /\ pc = [t \in Thread |-> "idle"]
  /\ lagReq = [t \in Thread |-> NoReq]
  /\ lagLock = NoThread
  /\ lags = {}
  /\ members = [l \in Lag |-> {}]
  /\ disabled = [l \in Lag |-> {}]
  /\ lagRef = [l \in Lag |-> 0]
  /\ npuLags = {}
  /\ npuLag = [l \in Lag |-> {}]

---------------------------------------------------------------------------
(* Helpers                                                                 *)

Goto(t, label) == pc' = [pc EXCEPT ![t] = label]

TakeLagLock(t) == lagLock = NoThread /\ lagLock' = t
DropLagLock == lagLock' = NoThread

(* sai_is_port_part_of_different_lag                                       *)
InDifferentLag(l, p) == \E k \in lags \ {l} : p \in members[k]

(* Mutant: the search of the other LAGs is dropped.                        *)
ValidAddNoOtherLag(l, p) == l \in lags /\ p \notin members[l]

(* sai_l2_validate_lag_port_add: routing mode of the port is only logged.  *)
ValidAdd(l, p) ==
  /\ l \in lags
  /\ p \notin members[l]
  /\ ~ InDifferentLag(l, p)

(* A handler's last step under the lock: release it and return.            *)
Return(t) ==
  /\ DropLagLock
  /\ Goto(t, "idle")
  /\ lagReq' = [lagReq EXCEPT ![t] = NoReq]

(* Mutant: the modules are notified with the lock held.                    *)
NotifyLocked(t, oper) ==
  /\ UNCHANGED lagLock
  /\ Goto(t, "notify")
  /\ lagReq' = [lagReq EXCEPT ![t].oper = oper]

(* ... or release it and go on to sai_lag_notify_modules.                  *)
ReturnNotify(t, oper) ==
  /\ DropLagLock
  /\ Goto(t, "notify")
  /\ lagReq' = [lagReq EXCEPT ![t].oper = oper]

---------------------------------------------------------------------------
(* sai_l2_create_lag, sai_l2_remove_lag                                    *)

CreateLagLock(t) ==
  /\ pc[t] = "idle"
  /\ TakeLagLock(t)
  /\ Goto(t, "createLag")
  /\ UNCHANGED <<lagReq, lagRef, lagData>>

(* The NPU allocates an identifier.  When the cache refuses the node or an *)
(* attribute is passed (every attribute is unknown) the LAG is removed     *)
(* from the NPU again, and the result of that call is not looked at.       *)
CreateLag(t) ==
  /\ pc[t] = "createLag"
  /\ \/ \E l \in Lag \ npuLags :
          /\ npuLags' = npuLags \cup {l}
          /\ lags' = lags \cup {l}
          /\ UNCHANGED <<members, disabled, npuLag>>
          /\ lagRef' = [lagRef EXCEPT ![l] = 0]
     \/ /\ NpuMayFail
        /\ \E l \in Lag \ npuLags : npuLags' \in {npuLags, npuLags \cup {l}}
        /\ UNCHANGED <<npuLag, lags, members, disabled, lagRef>>
     \/ /\ NpuMayFail \/ npuLags = Lag
        /\ UNCHANGED <<lagData, lagRef>>
  /\ Return(t)

RemoveLagLock(t, l) ==
  /\ pc[t] = "idle"
  /\ TakeLagLock(t)
  /\ Goto(t, "removeLag")
  /\ lagReq' = [lagReq EXCEPT ![t].lag = l]
  /\ UNCHANGED <<lagRef, lagData>>

LagRemovable(l) == l \in lags /\ members[l] = {} /\ lagRef[l] = 0

(* ITEM_NOT_FOUND or OBJECT_IN_USE: nothing changes.                       *)
RemoveLagCheck(t) ==
  /\ pc[t] = "removeLag"
  /\ IF LagRemovable(lagReq[t].lag)
     THEN Goto(t, "removeNode") /\ UNCHANGED <<lagReq, lagLock>>
     ELSE Return(t)
  /\ UNCHANGED <<lagRef, lagData>>

(* When the NPU refuses, the node is put back.                             *)
RemoveLag(t) ==
  LET l == lagReq[t].lag IN
  /\ pc[t] = "removeNode"
  /\ \/ /\ lags' = lags \ {l}
        /\ npuLags' = npuLags \ {l}
        /\ npuLag' = [npuLag EXCEPT ![l] = {}]
        /\ UNCHANGED <<members, disabled>>
     \/ /\ NpuMayFail
        /\ UNCHANGED lagData
  /\ Return(t)
  /\ UNCHANGED lagRef

---------------------------------------------------------------------------
(* sai_l2_create_lag_member                                                *)

AddLock(t, l, p) ==
  /\ pc[t] = "idle"
  /\ TakeLagLock(t)
  /\ Goto(t, "addCheck")
  /\ lagReq' = [lagReq EXCEPT ![t].lag = l, ![t].port = p]
  /\ UNCHANGED <<lagRef, lagData>>

AddCheck(t) ==
  /\ pc[t] = "addCheck"
  /\ IF ValidAdd(lagReq[t].lag, lagReq[t].port)
     THEN Goto(t, "addNpu") /\ UNCHANGED <<lagReq, lagLock>>
     ELSE Return(t)
  /\ UNCHANGED <<lagRef, lagData>>

(* Mutant: the port enters the cache although the NPU refused it.          *)
AddNpuUnchecked(t) ==
  LET l == lagReq[t].lag
      p == lagReq[t].port
  IN /\ pc[t] = "addNpu"
     /\ npuLag' \in {npuLag, [npuLag EXCEPT ![l] = @ \cup {p}]}
     /\ Goto(t, "addCache")
     /\ UNCHANGED <<lagReq, lagLock, lagRef, lags, members, disabled, npuLags>>

AddNpu(t) ==
  LET l == lagReq[t].lag
      p == lagReq[t].port
  IN /\ pc[t] = "addNpu"
     /\ \/ /\ npuLag' = [npuLag EXCEPT ![l] = @ \cup {p}]
           /\ Goto(t, "addCache")
           /\ UNCHANGED <<lagReq, lagLock>>
        \/ /\ NpuMayFail
           /\ Return(t)
           /\ UNCHANGED npuLag
     /\ UNCHANGED <<lagRef, lags, members, disabled, npuLags>>

(* The member enters the cache, and the flag the caller passed is set.     *)
AddCacheOk(t) ==
  LET l == lagReq[t].lag
      p == lagReq[t].port
  IN /\ pc[t] = "addCache"
     /\ members' = [members EXCEPT ![l] = @ \cup {p}]
     /\ disabled' \in {disabled, [disabled EXCEPT ![l] = @ \cup {p}]}
     /\ ReturnNotify(t, "ADD_PORTS")
     /\ UNCHANGED <<lagRef, lags, npuLags, npuLag>>

(* The cache or the flag fails: the port leaves the NPU's LAG again, or    *)
(* stays there when that call fails too.                                   *)
AddCacheFail(t) ==
  LET l == lagReq[t].lag
      p == lagReq[t].port
  IN /\ pc[t] = "addCache"
     /\ NpuMayFail
     /\ npuLag' \in {npuLag, [npuLag EXCEPT ![l] = @ \ {p}]}
     /\ Return(t)
     /\ UNCHANGED <<lagRef, lags, members, disabled, npuLags>>

---------------------------------------------------------------------------
(* sai_l2_remove_lag_member                                                *)

DelLock(t, l, p) ==
  /\ pc[t] = "idle"
  /\ TakeLagLock(t)
  /\ Goto(t, "delCheck")
  /\ lagReq' = [lagReq EXCEPT ![t].lag = l, ![t].port = p]
  /\ UNCHANGED <<lagRef, lagData>>

DelCheck(t) ==
  /\ pc[t] = "delCheck"
  /\ IF lagReq[t].port \in members[lagReq[t].lag]
     THEN Goto(t, "delNpu") /\ UNCHANGED <<lagReq, lagLock>>
     ELSE Return(t)
  /\ UNCHANGED <<lagRef, lagData>>

(* remove_ports_from_lag: its failure does not stop the removal.           *)
DelNpu(t) ==
  LET l == lagReq[t].lag
      p == lagReq[t].port
  IN /\ pc[t] = "delNpu"
     /\ \/ npuLag' = [npuLag EXCEPT ![l] = @ \ {p}]
        \/ NpuMayFail /\ UNCHANGED npuLag
     /\ Goto(t, "delCache")
     /\ UNCHANGED <<lagReq, lagLock, lagRef, lags, members, disabled, npuLags>>

DelCache(t) ==
  LET l == lagReq[t].lag
      p == lagReq[t].port
  IN /\ pc[t] = "delCache"
     /\ members' = [members EXCEPT ![l] = @ \ {p}]
     /\ disabled' = [disabled EXCEPT ![l] = @ \ {p}]
     /\ ReturnNotify(t, "DEL_PORTS")
     /\ UNCHANGED <<lagRef, lags, npuLags, npuLag>>

---------------------------------------------------------------------------
(* sai_l2_set_lag_member_attribute: the member is looked up under the lock, *)
(* the lock is released, and taken again to set the flag.                  *)

SetLookup(t, l, p) ==
  /\ pc[t] = "idle"
  /\ lagLock = NoThread
  /\ p \in members[l]
  /\ Goto(t, "setFlag")
  /\ lagReq' = [lagReq EXCEPT ![t].lag = l, ![t].port = p]
  /\ UNCHANGED <<lagLock, lagRef, lagData>>

(* Mutant: the member found by the first lookup is trusted.                *)
FlagSettableStale(l, p) == TRUE

(* sai_lag_member_get_disable_status fails once the member is gone.        *)
FlagSettable(l, p) == p \in members[l]

SetFlag(t) ==
  LET l == lagReq[t].lag
      p == lagReq[t].port
  IN /\ pc[t] = "setFlag"
     /\ lagLock = NoThread
     /\ \/ /\ FlagSettable(l, p)
           /\ disabled' \in {[disabled EXCEPT ![l] = @ \cup {p}],
                             [disabled EXCEPT ![l] = @ \ {p}]}
        \/ /\ NpuMayFail \/ ~ FlagSettable(l, p)
           /\ UNCHANGED disabled
     /\ Goto(t, "idle")
     /\ lagReq' = [lagReq EXCEPT ![t] = NoReq]
     /\ UNCHANGED <<lagLock, lagRef, lags, members, npuLags, npuLag>>

---------------------------------------------------------------------------

(* What thread t may do as a LAG call of its own choice.                   *)
LagCall(t) ==
  \/ CreateLagLock(t)
  \/ \E l \in Lag : RemoveLagLock(t, l)
  \/ \E l \in Lag, p \in Port :
       AddLock(t, l, p) \/ DelLock(t, l, p) \/ SetLookup(t, l, p)

(* The rest of a call that has begun, up to the notification.              *)
LagStep(t) ==
  \/ CreateLag(t) \/ RemoveLagCheck(t) \/ RemoveLag(t)
  \/ AddCheck(t) \/ AddNpu(t) \/ AddCacheOk(t) \/ AddCacheFail(t)
  \/ DelCheck(t) \/ DelNpu(t) \/ DelCache(t)
  \/ SetFlag(t)

(* The LAG lock is held exactly by the thread inside a LAG handler.        *)
LagCritical == {"createLag", "removeLag", "removeNode", "addCheck", "addNpu",
                "addCache", "delCheck", "delNpu", "delCache"}

---------------------------------------------------------------------------
(* Properties                                                              *)

(* A port is a member of at most one LAG (sai_lag.c:335-339), whatever the *)
(* calls of other threads between its validation and its insertion.        *)
PortInOneLag ==
  \A k, l \in Lag : k # l => members[k] \cap members[l] = {}

(* Whenever the LAG lock is free, what the cache says is in the NPU: every *)
(* cached LAG and every cached member, whichever calls failed.  The        *)
(* converse does not hold, since a failed removal from the NPU is ignored  *)
(* (sai_lag.c:122-124).                                                    *)
CachedIsProgrammed ==
  lagLock = NoThread =>
    /\ lags \subseteq npuLags
    /\ \A l \in Lag : members[l] \subseteq npuLag[l]

(* Only a LAG that exists has members, and only a member has its traffic   *)
(* disabled, although sai_l2_set_lag_member_attribute looks the member up  *)
(* in one critical section and sets the flag in another.                   *)
NoOrphanState ==
  \A l \in Lag :
    /\ members[l] # {} => l \in lags
    /\ disabled[l] \subseteq members[l]
=============================================================================
