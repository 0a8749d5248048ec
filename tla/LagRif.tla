------------------------------- MODULE LagRif -------------------------------
(***************************************************************************)
(* Router interfaces on LAGs: src/src/routing/sai_l3_router_interface.c    *)
(* and sai_l3_rif_utils.c, composed with the LAG component of Lag.tla.     *)
(*                                                                         *)
(* A RIF handler runs under the FIB lock, and takes the LAG lock inside it *)
(* when the attachment is a LAG.  A LAG handler takes the LAG lock,        *)
(* releases it, and then calls back into the RIF module, which takes the   *)
(* FIB lock to program the member into the RIF.  The callback finds the    *)
(* RIF in a LAG -> RIF mapping that is written under the FIB lock but read *)
(* without it.                                                             *)
(*                                                                         *)
(* Left out: the forwarding mode of the ports (it only feeds log           *)
(* messages), MTU, admin states and other attributes that nothing here     *)
(* looks at.  Virtual routers are created before the RIFs and stay.        *)
(***************************************************************************)
EXTENDS Lag

CONSTANTS
  Rif,          \* the RIF identifiers the NPU may return
  NoRif,        \* no RIF (SAI_NULL_OBJECT_ID, or an id that is not a RIF's)
  NoInfo,       \* content of the table for a RIF that does not exist
  Other,        \* attachments that are not LAGs: ports and VLANs
  Vrf,          \* virtual routers
  Mac,          \* source MAC addresses
  MaxRef        \* bound on the next hops per RIF

ASSUME RifAssumption == NoRif \notin Rif /\ IsFiniteSet(Rif)
ASSUME OtherAssumption == Other \cap (Lag \cup {NoLag}) = {}
ASSUME MaxRefAssumption == MaxRef \in Nat

VARIABLES
  fibLock,   \* the thread that holds sai_fib_lock
  rifOp,     \* what the holder of the FIB lock works on
  rifs,      \* router_interface_tree
  rifRef,    \* ref_count of each RIF: next hops that use it
  numRif,    \* num_rif of each virtual router
  npuRifs,   \* RIFs that exist in the NPU
  npuRif,    \* the LAG members each RIF is programmed on in the NPU
  mapping,   \* the RIF ids stored under each LAG in the mapping
  cbRif      \* the RIF id a thread in the callback has read

rifData == <<rifs, rifRef, numRif, npuRifs, npuRif, mapping>>
rifVars == <<fibLock, rifOp, cbRif, rifData>>
vars == <<lagVars, rifVars>>

Att == Lag \cup Other

RifInfo == [att : Att, vrf : Vrf, mac : Mac]
NoOp == [info |-> NoInfo, rif |-> NoRif]
ASSUME NoInfoAssumption == NoInfo \notin RifInfo

RifPc == {"rifCreateLag", "rifParse", "rifNpu", "rifCommit", "rifMap",
          "rifRemoveLag", "rifRemove", "rifUnmap", "cbFib"}

Live == {r \in Rif : rifs[r] # NoInfo}

Members(a) == IF a \in Lag THEN members[a] ELSE {}

TypeOK ==
  /\ LagTypeOK
  /\ pc \in [Thread -> LagPc \cup RifPc]
  /\ fibLock \in Thread \cup {NoThread}
  /\ rifOp \in [info : RifInfo \cup {NoInfo}, rif : Rif \cup {NoRif}]
  /\ rifs \in [Rif -> RifInfo \cup {NoInfo}]
  /\ rifRef \in [Rif -> Nat]
  /\ numRif \in [Vrf -> Nat]
  /\ npuRifs \in SUBSET Rif
  /\ npuRif \in [Rif -> SUBSET Port]
  /\ mapping \in [Lag -> SUBSET (Rif \cup {NoRif})]
  /\ cbRif \in [Thread -> Rif \cup {NoRif}]

Init ==
  /\ LagInit
  /\ fibLock = NoThread
  /\ rifOp = NoOp
  /\ rifs = [r \in Rif |-> NoInfo]
  /\ rifRef = [r \in Rif |-> 0]
  /\ numRif = [v \in Vrf |-> 0]
  /\ npuRifs = {}
  /\ npuRif = [r \in Rif |-> {}]
  /\ mapping = [l \in Lag |-> {}]
  /\ cbRif = [t \in Thread |-> NoRif]

---------------------------------------------------------------------------
(* Locks                                                                   *)

TakeFibLock(t) == fibLock = NoThread /\ fibLock' = t

(* The end of a RIF handler.                                               *)
FibReturn(t) ==
  /\ fibLock' = NoThread
  /\ rifOp' = NoOp
  /\ Goto(t, "idle")

(* After the body of a handler: when the attachment is a LAG its lock is   *)
(* released, and label, what follows before the FIB lock is released, is   *)
(* done without it.                                                        *)
LagUnlock(t, label, rif) ==
  IF rifOp.info.att \in Lag
  THEN /\ DropLagLock
       /\ Goto(t, label)
       /\ rifOp' = [rifOp EXCEPT !.rif = rif]
       /\ UNCHANGED fibLock
  ELSE FibReturn(t) /\ UNCHANGED lagLock

---------------------------------------------------------------------------
(* sai_fib_router_interface_create                                         *)

RifCreateLock(t, info) ==
  /\ pc[t] = "idle"
  /\ TakeFibLock(t)
  /\ rifOp' = [info |-> info, rif |-> NoRif]
  /\ Goto(t, IF info.att \in Lag THEN "rifCreateLag" ELSE "rifParse")
  /\ UNCHANGED <<lagReq, lagLock, lagRef, lagData, cbRif, rifData>>

(* Mutant: the LAG lock is not taken.                                      *)
RifCreateNoLagLock(t) ==
  /\ pc[t] = "rifCreateLag"
  /\ Goto(t, "rifParse")
  /\ UNCHANGED <<lagReq, lagLock, lagRef, lagData, rifVars>>

RifCreateTakeLag(t) ==
  /\ pc[t] = "rifCreateLag"
  /\ TakeLagLock(t)
  /\ Goto(t, "rifParse")
  /\ UNCHANGED <<lagReq, lagRef, lagData, rifVars>>

(* Mutant: the other RIFs are compared by attachment and MAC only.         *)
DuplicateSameMac(info) ==
  \E s \in Live : rifs[s].att = info.att /\ rifs[s].mac = info.mac

(* sai_fib_rif_is_duplicate                                                *)
Duplicate(info) ==
  \E s \in Live :
    /\ rifs[s].att = info.att
    /\ rifs[s].vrf # info.vrf \/ rifs[s].mac = info.mac

(* sai_fib_rif_attributes_parse                                            *)
Acceptable(info) ==
  /\ info.att \in Lag => info.att \in lags
  /\ ~ Duplicate(info)

(* When the call fails before the NPU returns an id, the caller's          *)
(* rif_obj_id was never written: it holds anything.                        *)
RifParse(t) ==
  /\ pc[t] = "rifParse"
  /\ IF Acceptable(rifOp.info)
     THEN Goto(t, "rifNpu") /\ UNCHANGED <<lagLock, fibLock, rifOp>>
     ELSE \E r \in Rif \cup {NoRif} : LagUnlock(t, "rifMap", r)
  /\ UNCHANGED <<lagReq, lagRef, lagData, cbRif, rifData>>

(* The NPU creates the RIF on the members the LAG has now.                 *)
RifNpu(t) ==
  /\ pc[t] = "rifNpu"
  /\ \/ \E r \in Rif \ npuRifs :
          /\ npuRifs' = npuRifs \cup {r}
          /\ npuRif' = [npuRif EXCEPT ![r] = Members(rifOp.info.att)]
          /\ rifOp' = [rifOp EXCEPT !.rif = r]
          /\ Goto(t, "rifCommit")
          /\ UNCHANGED <<lagLock, fibLock>>
     \/ /\ NpuMayFail \/ npuRifs = Rif
        /\ \E r \in Rif \cup {NoRif} : LagUnlock(t, "rifMap", r)
        /\ UNCHANGED <<npuRifs, npuRif>>
  /\ UNCHANGED <<lagReq, lagRef, lagData, cbRif, rifs, rifRef, numRif, mapping>>

RifCommit(t) ==
  LET r == rifOp.rif IN
  /\ pc[t] = "rifCommit"
  /\ rifs' = [rifs EXCEPT ![r] = rifOp.info]
  /\ rifRef' = [rifRef EXCEPT ![r] = 0]
  /\ numRif' = [numRif EXCEPT ![rifOp.info.vrf] = @ + 1]
  /\ LagUnlock(t, "rifMap", r)
  /\ UNCHANGED <<lagReq, lagRef, lagData, cbRif, npuRifs, npuRif, mapping>>

(* Mutant: the RIF stays counted by its virtual router.                    *)
RifCommitFailCounted(t) ==
  LET r == rifOp.rif IN
  /\ pc[t] = "rifCommit"
  /\ NpuMayFail
  /\ npuRifs' = npuRifs \ {r}
  /\ npuRif' = [npuRif EXCEPT ![r] = {}]
  /\ numRif' = [numRif EXCEPT ![rifOp.info.vrf] = @ + 1]
  /\ LagUnlock(t, "rifMap", r)
  /\ UNCHANGED <<lagReq, lagRef, lagData, cbRif, rifs, rifRef, mapping>>

(* std_rbtree_insert fails: sai_fib_rif_free_resources takes the RIF off   *)
(* the list of its virtual router and out of the NPU, whose answer it      *)
(* ignores.                                                                *)
RifCommitFail(t) ==
  LET r == rifOp.rif IN
  /\ pc[t] = "rifCommit"
  /\ NpuMayFail
  /\ \/ /\ npuRifs' = npuRifs \ {r}
        /\ npuRif' = [npuRif EXCEPT ![r] = {}]
     \/ UNCHANGED <<npuRifs, npuRif>>
  /\ LagUnlock(t, "rifMap", r)
  /\ UNCHANGED <<lagReq, lagRef, lagData, cbRif, rifs, rifRef, numRif, mapping>>

(* sai_fib_lag_rif_mapping_insert, whether the RIF was created or not.     *)
(* Its failure is only traced.                                             *)
RifMap(t) ==
  /\ pc[t] = "rifMap"
  /\ \/ mapping' = [mapping EXCEPT ![rifOp.info.att] = @ \cup {rifOp.rif}]
     \/ NpuMayFail /\ UNCHANGED mapping
  /\ FibReturn(t)
  /\ UNCHANGED <<lagReq, lagLock, lagRef, lagData, cbRif,
                 rifs, rifRef, numRif, npuRifs, npuRif>>

---------------------------------------------------------------------------
(* sai_fib_router_interface_remove                                         *)

RifRemoveLock(t, r) ==
  /\ pc[t] = "idle"
  /\ r \in Live
  /\ TakeFibLock(t)
  /\ rifOp' = [info |-> rifs[r], rif |-> r]
  /\ Goto(t, IF rifs[r].att \in Lag THEN "rifRemoveLag" ELSE "rifRemove")
  /\ UNCHANGED <<lagReq, lagLock, lagRef, lagData, cbRif, rifData>>

RifRemoveTakeLag(t) ==
  /\ pc[t] = "rifRemoveLag"
  /\ TakeLagLock(t)
  /\ Goto(t, "rifRemove")
  /\ UNCHANGED <<lagReq, lagRef, lagData, rifVars>>

(* Mutant: the reference count is not looked at.                           *)
RifRemovableAlways(r) == TRUE

RifRemovable(r) == rifRef[r] = 0

RifRemove(t) ==
  LET r == rifOp.rif IN
  /\ pc[t] = "rifRemove"
  /\ RifRemovable(r)
  /\ npuRifs' = npuRifs \ {r}
  /\ npuRif' = [npuRif EXCEPT ![r] = {}]
  /\ numRif' = [numRif EXCEPT ![rifs[r].vrf] = @ - 1]
  /\ rifs' = [rifs EXCEPT ![r] = NoInfo]
  /\ LagUnlock(t, "rifUnmap", r)
  /\ UNCHANGED <<lagReq, lagRef, lagData, cbRif, rifRef, mapping>>

(* Mutant: the NPU is told before the reference count is looked at.        *)
RifRemoveFailLate(t) ==
  LET r == rifOp.rif IN
  /\ pc[t] = "rifRemove"
  /\ ~ RifRemovable(r)
  /\ npuRifs' = npuRifs \ {r}
  /\ npuRif' = [npuRif EXCEPT ![r] = {}]
  /\ IF rifOp.info.att \in Lag THEN DropLagLock ELSE UNCHANGED lagLock
  /\ FibReturn(t)
  /\ UNCHANGED <<lagReq, lagRef, lagData, cbRif, rifs, rifRef, numRif, mapping>>

(* OBJECT_IN_USE, or the NPU refuses.                                      *)
RifRemoveFail(t) ==
  /\ pc[t] = "rifRemove"
  /\ NpuMayFail \/ ~ RifRemovable(rifOp.rif)
  /\ IF rifOp.info.att \in Lag THEN DropLagLock ELSE UNCHANGED lagLock
  /\ FibReturn(t)
  /\ UNCHANGED <<lagReq, lagRef, lagData, cbRif, rifData>>

(* sai_fib_lag_rif_mapping_remove: everything stored under the LAG goes.   *)
RifUnmap(t) ==
  /\ pc[t] = "rifUnmap"
  /\ mapping' = [mapping EXCEPT ![rifOp.info.att] = {}]
  /\ FibReturn(t)
  /\ UNCHANGED <<lagReq, lagLock, lagRef, lagData, cbRif,
                 rifs, rifRef, numRif, npuRifs, npuRif>>

---------------------------------------------------------------------------
(* Calls that are one critical section of the FIB lock                     *)

(* sai_fib_router_interface_attribute_set of SRC_MAC_ADDRESS: no search    *)
(* for duplicates.                                                         *)
RifSetMac(r, m) ==
  /\ fibLock = NoThread
  /\ r \in Live
  /\ rifs' = [rifs EXCEPT ![r].mac = m]
  /\ UNCHANGED <<lagVars, fibLock, rifOp, cbRif,
                 rifRef, numRif, npuRifs, npuRif, mapping>>

(* sai_fib_nh_rif_ref_count_incr and _decr, when a next hop node is        *)
(* created or deleted.                                                     *)
RifUse(r) ==
  /\ fibLock = NoThread
  /\ r \in Live
  /\ rifRef[r] < MaxRef
  /\ rifRef' = [rifRef EXCEPT ![r] = @ + 1]
  /\ UNCHANGED <<lagVars, fibLock, rifOp, cbRif,
                 rifs, numRif, npuRifs, npuRif, mapping>>

(* Mutant: a reference is dropped that was never taken.                    *)
RifUnuseUnchecked(r) ==
  /\ fibLock = NoThread
  /\ r \in Live
  /\ rifRef' = [rifRef EXCEPT ![r] = @ - 1]
  /\ UNCHANGED <<lagVars, fibLock, rifOp, cbRif,
                 rifs, numRif, npuRifs, npuRif, mapping>>

RifUnuse(r) ==
  /\ fibLock = NoThread
  /\ r \in Live
  /\ rifRef[r] > 0
  /\ rifRef' = [rifRef EXCEPT ![r] = @ - 1]
  /\ UNCHANGED <<lagVars, fibLock, rifOp, cbRif,
                 rifs, numRif, npuRifs, npuRif, mapping>>

---------------------------------------------------------------------------
(* sai_rif_lag_callback, in the thread that changed the LAG                *)

(* sai_fib_get_rif_id_from_lag_id: with several ids under the key the one  *)
(* returned, or an error, is the map library's choice.                     *)
MappedRif(l) ==
  mapping[l] \cup (IF Cardinality(mapping[l]) = 1 THEN {} ELSE {NoRif})

CallbackDone(t) ==
  /\ Goto(t, "idle")
  /\ lagReq' = [lagReq EXCEPT ![t] = NoReq]
  /\ cbRif' = [cbRif EXCEPT ![t] = NoRif]

RifCallback(t) ==
  /\ pc[t] = "notify"
  /\ \E r \in MappedRif(lagReq[t].lag) :
       IF r = NoRif
       THEN CallbackDone(t)
       ELSE /\ Goto(t, "cbFib")
            /\ cbRif' = [cbRif EXCEPT ![t] = r]
            /\ UNCHANGED lagReq
  /\ UNCHANGED <<lagLock, lagRef, lagData, fibLock, rifOp, rifData>>

(* Mutant: the RIF is not checked against the LAG that changed.            *)
UpdatesAny(r, l) == r \in Live

(* The id may be stale by now: the RIF must exist, and on this LAG.        *)
Updates(r, l) == r \in Live /\ rifs[r].att = l

(* sai_rif_lag_member_update                                               *)
RifLagMemberUpdate(t) ==
  LET r == cbRif[t]
      p == lagReq[t].port
  IN /\ pc[t] = "cbFib"
     /\ fibLock = NoThread
     /\ \/ /\ Updates(r, lagReq[t].lag)
           /\ npuRif' = [npuRif EXCEPT ![r] =
                IF lagReq[t].oper = "ADD_PORTS" THEN @ \cup {p} ELSE @ \ {p}]
        \/ /\ NpuMayFail \/ ~ Updates(r, lagReq[t].lag)
           /\ UNCHANGED npuRif
     /\ CallbackDone(t)
     /\ UNCHANGED <<lagLock, lagRef, lagData, fibLock, rifOp,
                    rifs, rifRef, numRif, npuRifs, mapping>>

---------------------------------------------------------------------------

LagPart(t) == (LagCall(t) \/ LagStep(t)) /\ UNCHANGED rifVars

RifCall(t) ==
  \/ \E info \in RifInfo : RifCreateLock(t, info)
  \/ \E r \in Rif : RifRemoveLock(t, r)

(* Steps that wait for no lock.                                            *)
RifStep(t) ==
  \/ RifParse(t) \/ RifNpu(t) \/ RifCommit(t) \/ RifCommitFail(t) \/ RifMap(t)
  \/ RifRemove(t) \/ RifRemoveFail(t) \/ RifUnmap(t)
  \/ RifCallback(t)

(* Steps that wait for a lock inside a call.                               *)
RifWait(t) ==
  RifCreateTakeLag(t) \/ RifRemoveTakeLag(t) \/ RifLagMemberUpdate(t)

Next ==
  \/ \E t \in Thread : LagPart(t) \/ RifCall(t) \/ RifStep(t) \/ RifWait(t)
  \/ \E r \in Rif : RifUse(r) \/ RifUnuse(r)
  \/ \E r \in Rif, m \in Mac : RifSetMac(r, m)

Spec == Init /\ [][Next]_vars

(* A thread inside a call keeps running, and a thread that waits for a     *)
(* mutex gets it if it is free again and again (the POSIX mutexes of       *)
(* sai_lag_lock and sai_fib_lock do not starve a waiter).  No call is ever *)
(* obliged to begin.                                                       *)
Fairness ==
  \A t \in Thread :
    /\ WF_vars(RifStep(t))
    /\ WF_vars(LagStep(t) /\ UNCHANGED rifVars)
    /\ SF_vars(RifWait(t))
    /\ SF_vars(SetFlag(t) /\ UNCHANGED rifVars)

FairSpec == Spec /\ Fairness

---------------------------------------------------------------------------
(* Properties                                                              *)

(* All RIFs on an attachment belong to one virtual router                  *)
(* (sai_l3_router_interface.c:566-571), whatever other threads do between  *)
(* the search for duplicates and the insertion.                            *)
OneVrfPerAttachment ==
  \A r, s \in Live : rifs[r].att = rifs[s].att => rifs[r].vrf = rifs[s].vrf

(* num_rif of a virtual router, which decides whether it can be removed,   *)
(* is the number of RIFs of the table that name it, whatever calls of the  *)
(* NPU or of the tree fail on the way.                                     *)
VrfRifCount ==
  \A v \in Vrf : numRif[v] = Cardinality({r \in Live : rifs[r].vrf = v})

(* What the table lists is in the NPU, so that an id the NPU returns for a *)
(* new RIF is never one the table knows.                                   *)
LiveIsProgrammed == Live \subseteq npuRifs

(* The table of RIFs is sound: what is shared on an attachment, counted in *)
(* a virtual router and programmed agrees with it after every step of      *)
(* every thread (sai_l3_router_interface.c:566-571, 875, 1082).            *)
TableSound == OneVrfPerAttachment /\ VrfRifCount /\ LiveIsProgrammed

(* A RIF enters the table programmed on exactly the members its LAG has at *)
(* that moment: the LAG lock keeps them fixed from the call of the NPU on  *)
(* (sai_l3_router_interface.c:958-961).                                    *)
RifBornInSync ==
  [][\A r \in Rif : rifs[r] = NoInfo /\ rifs'[r] # NoInfo =>
       npuRif'[r] = IF rifs'[r].att \in Lag THEN members'[rifs'[r].att]
                                            ELSE {}]_vars

(* A RIF of the table has its ports changed only by the callback of a      *)
(* change to the LAG it is attached to now, although the callback reads    *)
(* the RIF id without a lock and the id may have been removed, reused or   *)
(* never written (sai_l3_router_interface.c:1327).                         *)
MemberUpdateOnlyForOwnLag ==
  [][\A r \in Live : npuRif'[r] # npuRif[r] =>
       \/ rifs'[r] = NoInfo
       \/ \E t \in Thread : /\ pc[t] = "cbFib"
                            /\ cbRif[t] = r
                            /\ lagReq[t].lag = rifs[r].att]_vars

(* The table behind the locks implements the abstract table.               *)
Table == INSTANCE RifTable

ImplementsRifTable == Table!Spec

(* Every call returns: the LAG lock is never held while waiting for the    *)
(* FIB lock, which is the order of RIF creation and removal reversed.      *)
EveryCallReturns ==
  \A t \in Thread : pc[t] # "idle" ~> pc[t] = "idle"

(* The NPU carries a RIF on the members of its LAG: what the comment at    *)
(* sai_l3_router_interface.c:958-961 takes the LAG lock for.  Stated for   *)
(* states in which no call is running.                                     *)
QuietRifMatchesLag ==
  (\A t \in Thread : pc[t] = "idle") =>
    \A r \in Live : npuRif[r] = Members(rifs[r].att)
=============================================================================
