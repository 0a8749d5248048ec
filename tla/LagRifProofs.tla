---------------------------- MODULE LagRifProofs ----------------------------
(***************************************************************************)
(* Safety of LagRif, proved for any number of threads, LAGs, ports, RIFs,  *)
(* virtual routers and MAC addresses.                                      *)
(*                                                                         *)
(* Everything rests on who holds which lock at which label (Locks) and on  *)
(* what the handler that holds it has already established (LagWork,        *)
(* RifWork).  From these follow, one lemma each, the invariants that       *)
(* TLC checks on the instances of MCLagRif.                                *)
(***************************************************************************)
EXTENDS LagRif, FiniteSetTheorems, TLAPS

---------------------------------------------------------------------------
(* The inductive invariant                                                 *)

(* TypeOK but for the range of num_rif, which VrfRifCount gives.           *)
Types ==
  /\ LagTypeOK
  /\ pc \in [Thread -> LagPc \cup RifPc]
  /\ fibLock \in Thread \cup {NoThread}
  /\ rifOp \in [info : RifInfo \cup {NoInfo}, rif : Rif \cup {NoRif}]
  /\ rifs \in [Rif -> RifInfo \cup {NoInfo}]
  /\ rifRef \in [Rif -> Nat]
  /\ numRif \in [Vrf -> Int]
  /\ npuRifs \in SUBSET Rif
  /\ npuRif \in [Rif -> SUBSET Port]
  /\ mapping \in [Lag -> SUBSET (Rif \cup {NoRif})]
  /\ cbRif \in [Thread -> Rif \cup {NoRif}]

(* Labels under the FIB lock, and those of them under the LAG lock too     *)
(* when the attachment is a LAG.                                           *)
FibCritical == {"rifCreateLag", "rifParse", "rifNpu", "rifCommit", "rifMap",
                "rifRemoveLag", "rifRemove", "rifUnmap"}

LagNested == {"rifParse", "rifNpu", "rifCommit", "rifRemove"}

HoldsLag(t) ==
  \/ pc[t] \in LagCritical
  \/ pc[t] \in LagNested /\ rifOp.info.att \in Lag

Locks ==
  \A t \in Thread :
    /\ pc[t] \in FibCritical => fibLock = t
    /\ HoldsLag(t) => lagLock = t

(* What a thread in a LAG handler works on, and what it has validated.     *)
LagWork ==
  \A t \in Thread :
    /\ pc[t] \in LagPc \ {"idle", "createLag"} => lagReq[t].lag \in Lag
    /\ pc[t] \in (LagPc \ {"idle", "createLag", "removeLag", "removeNode"})
            \cup {"cbFib"}
         => lagReq[t].port \in Port /\ lagReq[t].lag \in Lag
    /\ pc[t] = "removeNode" =>
         lagReq[t].lag \in lags /\ members[lagReq[t].lag] = {}
    /\ pc[t] \in {"addNpu", "addCache"}
         => ValidAdd(lagReq[t].lag, lagReq[t].port)
    /\ pc[t] = "addCache" => lagReq[t].port \in npuLag[lagReq[t].lag]
    /\ pc[t] = "cbFib" => cbRif[t] \in Rif

(* What the holder of the FIB lock works on, and what it has validated.    *)
RifWork ==
  \A t \in Thread :
    /\ pc[t] \in FibCritical => rifOp.info \in RifInfo
    /\ pc[t] \in {"rifCreateLag", "rifRemoveLag", "rifMap", "rifUnmap"}
         => rifOp.info.att \in Lag
    /\ pc[t] \in {"rifNpu", "rifCommit"} => ~ Duplicate(rifOp.info)
    /\ pc[t] = "rifCommit" =>
         /\ rifOp.rif \in npuRifs \ Live
         /\ npuRif[rifOp.rif] = Members(rifOp.info.att)
    /\ pc[t] \in {"rifRemoveLag", "rifRemove"} =>
         rifOp.rif \in Live /\ rifs[rifOp.rif] = rifOp.info

(* CachedIsProgrammed also inside the handlers: only the member that is    *)
(* being removed is listed by the cache alone.                             *)
Programmed ==
  /\ lags \subseteq npuLags
  /\ \A l \in Lag : \A p \in members[l] :
       \/ p \in npuLag[l]
       \/ \E t \in Thread : pc[t] = "delCache" /\ lagReq[t].lag = l
                                               /\ lagReq[t].port = p

IInv ==
  /\ Types /\ Locks /\ LagWork /\ RifWork
  /\ Programmed /\ NoOrphanState /\ PortInOneLag
  /\ LiveIsProgrammed /\ OneVrfPerAttachment /\ VrfRifCount
---------------------------------------------------------------------------
(* Types                                                                   *)

(* What the handlers store in the request of a thread is a request.        *)
LEMMA ReqUpdate ==
  ASSUME NEW t \in Thread, lagReq \in [Thread -> LagReq]
  PROVE  /\ [lagReq EXCEPT ![t] = NoReq] \in [Thread -> LagReq]
         /\ \A l \in Lag : [lagReq EXCEPT ![t].lag = l] \in [Thread -> LagReq]
         /\ \A l \in Lag, p \in Port :
              [lagReq EXCEPT ![t].lag = l, ![t].port = p] \in [Thread -> LagReq]
         /\ \A o \in LagOper : [lagReq EXCEPT ![t].oper = o] \in [Thread -> LagReq]
  BY DEF LagReq, NoReq, LagOper

(* LAG handlers keep the types of the LAG component.                       *)
LEMMA LagTypesStep ==
  ASSUME LagTypeOK, pc \in [Thread -> LagPc \cup RifPc], LagWork,
         NEW t \in Thread, LagCall(t) \/ LagStep(t)
  PROVE  LagTypeOK' /\ pc' \in [Thread -> LagPc \cup RifPc]
<1> USE DEF LagTypeOK, LagPc, Goto, TakeLagLock, DropLagLock,
            Return, ReturnNotify, lagData
<1>a. /\ pc[t] \in {"addCheck", "addNpu", "addCache", "delCheck", "delNpu",
                    "delCache", "setFlag"}
             => lagReq[t].lag \in Lag /\ lagReq[t].port \in Port
  BY DEF LagWork
<1>b. {"ADD_PORTS", "DEL_PORTS"} \subseteq LagOper  BY DEF LagOper
<1>1. CASE CreateLagLock(t)  BY <1>1 DEF CreateLagLock
<1>2. ASSUME NEW l \in Lag, RemoveLagLock(t, l)
      PROVE  LagTypeOK' /\ pc' \in [Thread -> LagPc \cup RifPc]
  BY <1>2, ReqUpdate DEF RemoveLagLock
<1>3. ASSUME NEW l \in Lag, NEW p \in Port,
             AddLock(t, l, p) \/ DelLock(t, l, p) \/ SetLookup(t, l, p)
      PROVE  LagTypeOK' /\ pc' \in [Thread -> LagPc \cup RifPc]
  <2>1. lagReq' = [lagReq EXCEPT ![t].lag = l, ![t].port = p]
    BY <1>3 DEF AddLock, DelLock, SetLookup
  <2>2. lagReq' \in [Thread -> LagReq]  BY <2>1, ReqUpdate
  <2> QED BY <1>3, <2>2 DEF AddLock, DelLock, SetLookup
<1>4. CASE CreateLag(t)
  <2>1. lagReq' \in [Thread -> LagReq]  BY <1>4, ReqUpdate DEF CreateLag
  <2>2. lagRef' \in [Lag -> Nat]  BY <1>4 DEF CreateLag
  <2>3. npuLags' \subseteq Lag /\ lags' \subseteq Lag  BY <1>4 DEF CreateLag
  <2> QED BY <1>4, <2>1, <2>2, <2>3 DEF CreateLag
<1>5. CASE RemoveLagCheck(t) \/ RemoveLag(t)
  BY <1>5, ReqUpdate DEF RemoveLagCheck, RemoveLag
<1>6. CASE AddCheck(t)  BY <1>6, ReqUpdate DEF AddCheck
<1>7. CASE AddNpu(t)
  <2>1. lagReq' \in [Thread -> LagReq]  BY <1>7, ReqUpdate DEF AddNpu
  <2>2. npuLag' \in [Lag -> SUBSET Port]  BY <1>7, <1>a DEF AddNpu
  <2> QED BY <1>7, <2>1, <2>2 DEF AddNpu
<1>8. CASE AddCacheOk(t)
  <2>1. lagReq' \in [Thread -> LagReq]
    BY <1>8, <1>b, ReqUpdate DEF AddCacheOk
  <2>2. /\ members' \in [Lag -> SUBSET Port]
        /\ disabled' \in [Lag -> SUBSET Port]
    BY <1>8, <1>a DEF AddCacheOk
  <2> QED BY <1>8, <2>1, <2>2 DEF AddCacheOk
<1>9. CASE AddCacheFail(t)  BY <1>9, ZenonT(40), <1>a, ReqUpdate DEF AddCacheFail
<1>10. CASE DelCheck(t)  BY <1>10, ReqUpdate DEF DelCheck
<1>11. CASE DelNpu(t)  BY <1>11, <1>a DEF DelNpu
<1>12. CASE DelCache(t)  BY <1>12, <1>a, <1>b, ReqUpdate DEF DelCache
<1>13. CASE SetFlag(t)
  <2>1. lagReq' \in [Thread -> LagReq]  BY <1>13, ReqUpdate DEF SetFlag
  <2>2. disabled' \in [Lag -> SUBSET Port]  BY <1>13, <1>a DEF SetFlag
  <2> QED BY <1>13, <2>1, <2>2 DEF SetFlag
<1> QED
  BY <1>1, <1>2, <1>3, <1>4, <1>5, <1>6, <1>7, <1>8, <1>9, <1>10, <1>11,
     <1>12, <1>13 DEF LagCall, LagStep

(* The end of a RIF handler leaves well-typed locks, label and operation.  *)
LEMMA UnlockTypes ==
  ASSUME Types, NEW t \in Thread, NEW label \in RifPc, NEW r \in Rif \cup {NoRif},
         LagUnlock(t, label, r)
  PROVE  /\ lagLock' \in Thread \cup {NoThread}
         /\ fibLock' \in Thread \cup {NoThread}
         /\ pc' \in [Thread -> LagPc \cup RifPc]
         /\ rifOp' \in [info : RifInfo \cup {NoInfo}, rif : Rif \cup {NoRif}]
  BY DEF Types, LagTypeOK, LagUnlock, FibReturn, DropLagLock, Goto, NoOp, LagPc

(* RIF handlers and the callback keep all types.                           *)
LEMMA RifTypesStep ==
  ASSUME Types, LagWork, RifWork, NEW t \in Thread,
         RifCall(t) \/ RifStep(t) \/ RifWait(t)
  PROVE  Types'
<1> USE DEF Types, LagTypeOK, lagData, rifData, rifVars
<1>a. UNCHANGED <<lagRef, lagData>>
  BY DEF RifCall, RifStep, RifWait, RifCreateLock, RifRemoveLock, RifParse,
         RifNpu, RifCommit, RifCommitFail, RifMap, RifRemove, RifRemoveFail,
         RifUnmap, RifCallback, RifCreateTakeLag, RifRemoveTakeLag,
         RifLagMemberUpdate
<1>b. NoOp \in [info : RifInfo \cup {NoInfo}, rif : Rif \cup {NoRif}]
  BY DEF NoOp
<1>c. Live \subseteq Rif /\ \A r \in Live : rifs[r] \in RifInfo  BY DEF Live
<1>1. ASSUME NEW info \in RifInfo, RifCreateLock(t, info) PROVE Types'
  BY <1>1, <1>a DEF RifCreateLock, TakeFibLock, Goto, RifPc
<1>2. ASSUME NEW r \in Rif, RifRemoveLock(t, r) PROVE Types'
  BY <1>2, <1>a, <1>c DEF RifRemoveLock, TakeFibLock, Goto, RifPc
<1>3. CASE RifCreateTakeLag(t) \/ RifRemoveTakeLag(t)
  BY <1>3, <1>a DEF RifCreateTakeLag, RifRemoveTakeLag, TakeLagLock, Goto, RifPc
<1>4. CASE RifParse(t)
  <2>1. CASE Acceptable(rifOp.info)
    BY <1>4, <2>1, <1>a DEF RifParse, Goto, RifPc
  <2>2. CASE ~ Acceptable(rifOp.info)
    BY <1>4, <2>2, <1>a, UnlockTypes DEF RifParse, RifPc
  <2> QED BY <2>1, <2>2
<1>5. CASE RifNpu(t)
  <2>1. ASSUME NEW r \in Rif \ npuRifs,
               npuRifs' = npuRifs \cup {r},
               npuRif' = [npuRif EXCEPT ![r] = Members(rifOp.info.att)],
               rifOp' = [rifOp EXCEPT !.rif = r],
               Goto(t, "rifCommit"), UNCHANGED <<lagLock, fibLock>>
        PROVE Types'
    BY <1>5, <2>1, <1>a DEF RifNpu, Goto, RifPc, Members
  <2>2. CASE (\E r \in Rif \cup {NoRif} : LagUnlock(t, "rifMap", r))
             /\ UNCHANGED <<npuRifs, npuRif>>
    BY <1>5, <2>2, <1>a, UnlockTypes DEF RifNpu, RifPc
  <2> QED BY <1>5, <2>1, <2>2 DEF RifNpu
<1>6. CASE RifCommit(t)
  <2>1. rifOp.info \in RifInfo /\ rifOp.rif \in Rif
    BY <1>6 DEF RifCommit, RifWork, FibCritical
  <2>2. rifOp.info.vrf \in Vrf  BY <2>1 DEF RifInfo
  <2> QED BY <1>6, <2>1, <2>2, <1>a, UnlockTypes DEF RifCommit, RifPc
<1>7. CASE RifCommitFail(t)
  <2>1. rifOp.rif \in Rif  BY <1>7 DEF RifCommitFail, RifWork
  <2> QED BY <1>7, <2>1, <1>a, UnlockTypes DEF RifCommitFail, RifPc
<1>8. CASE RifMap(t)
  BY <1>8, <1>a, <1>b DEF RifMap, FibReturn, Goto, RifWork, LagPc
<1>9. CASE RifRemove(t)
  <2>1. rifOp.rif \in Live /\ rifs[rifOp.rif].vrf \in Vrf
    BY <1>9, <1>c DEF RifRemove, RifWork, RifInfo
  <2> QED BY <1>9, <2>1, <1>a, <1>c, UnlockTypes DEF RifRemove, RifPc
<1>10. CASE RifRemoveFail(t)
  BY <1>10, <1>a, <1>b DEF RifRemoveFail, FibReturn, DropLagLock, Goto, LagPc
<1>11. CASE RifUnmap(t)
  BY <1>11, <1>a, <1>b DEF RifUnmap, FibReturn, Goto, RifWork, LagPc
<1>12. CASE RifCallback(t)
  <2>1. lagReq[t].lag \in Lag  BY <1>12 DEF RifCallback, LagWork, LagPc
  <2>2. MappedRif(lagReq[t].lag) \subseteq Rif \cup {NoRif}
    BY <2>1 DEF MappedRif
  <2>3. lagReq' \in [Thread -> LagReq]
    BY <1>12, ReqUpdate DEF RifCallback, CallbackDone
  <2> QED BY <1>12, <2>2, <2>3, <1>a DEF RifCallback, CallbackDone, Goto, LagPc, RifPc
<1>13. CASE RifLagMemberUpdate(t)
  <2>1. lagReq' \in [Thread -> LagReq]
    BY <1>13, ReqUpdate DEF RifLagMemberUpdate, CallbackDone
  <2>2. npuRif' \in [Rif -> SUBSET Port]
    BY <1>13 DEF RifLagMemberUpdate, LagWork
  <2> QED BY <1>13, <2>1, <2>2, <1>a DEF RifLagMemberUpdate, CallbackDone, Goto, LagPc
<1> QED
  BY <1>1, <1>2, <1>3, <1>4, <1>5, <1>6, <1>7, <1>8, <1>9, <1>10, <1>11,
     <1>12, <1>13 DEF RifCall, RifStep, RifWait

(* Every step does.                                                        *)
LEMMA TypesStep ==
  ASSUME Types, LagWork, RifWork, [Next]_vars
  PROVE  Types'
<1> USE DEF Types, LagTypeOK
<1>1. ASSUME NEW t \in Thread, LagPart(t) PROVE Types'
  BY <1>1, LagTypesStep DEF LagPart, rifVars, rifData
<1>2. ASSUME NEW t \in Thread, RifCall(t) \/ RifStep(t) \/ RifWait(t)
      PROVE  Types'
  BY <1>2, RifTypesStep
<1>3. ASSUME NEW r \in Rif, RifUse(r) \/ RifUnuse(r) PROVE Types'
  BY <1>3 DEF RifUse, RifUnuse, lagVars, lagData
<1>4. ASSUME NEW r \in Rif, NEW m \in Mac, RifSetMac(r, m) PROVE Types'
  <2>1. r \in Live  BY <1>4 DEF RifSetMac
  <2>2. rifs[r] \in RifInfo  BY <2>1 DEF Live
  <2>3. [rifs[r] EXCEPT !.mac = m] \in RifInfo  BY <2>2 DEF RifInfo
  <2>4. rifs' = [rifs EXCEPT ![r] = [rifs[r] EXCEPT !.mac = m]]
    BY <1>4 DEF RifSetMac
  <2> QED BY <1>4, <2>3, <2>4 DEF RifSetMac, lagVars, lagData
<1>5. CASE UNCHANGED vars
  BY <1>5 DEF vars, lagVars, lagData, rifVars, rifData
<1> QED BY <1>1, <1>2, <1>3, <1>4, <1>5 DEF Next

---------------------------------------------------------------------------
(* Locks                                                                   *)

(* A LAG step is taken by the holder of the LAG lock or when it is free,   *)
(* and ends inside a handler only with the lock held.                      *)
LEMMA LagEffect ==
  ASSUME Types, Locks, NEW t \in Thread, LagPart(t)
  PROVE  /\ UNCHANGED rifVars
         /\ \A u \in Thread \ {t} : pc'[u] = pc[u] /\ lagReq'[u] = lagReq[u]
         /\ pc[t] \in LagPc \ {"notify"} /\ pc'[t] \in LagPc
         /\ lagLock \in {NoThread, t} /\ lagLock' \in {NoThread, t}
         /\ pc'[t] \in LagCritical => lagLock' = t
<1> USE DEF Types, LagTypeOK, Locks, HoldsLag, LagCritical, LagPc, Goto,
            TakeLagLock, DropLagLock, Return, ReturnNotify
<1>1. UNCHANGED rifVars
  BY DEF LagPart
<1>2. CASE CreateLagLock(t)
  BY <1>1, <1>2 DEF CreateLagLock
<1>3. ASSUME NEW l \in Lag, RemoveLagLock(t, l)
      PROVE  /\ \A u \in Thread \ {t} : pc'[u] = pc[u] /\ lagReq'[u] = lagReq[u]
             /\ pc[t] \in LagPc \ {"notify"} /\ pc'[t] \in LagPc
             /\ lagLock \in {NoThread, t} /\ lagLock' \in {NoThread, t}
             /\ pc'[t] \in LagCritical => lagLock' = t
  BY <1>3 DEF RemoveLagLock
<1>4. ASSUME NEW l \in Lag, NEW p \in Port, AddLock(t, l, p) \/ DelLock(t, l, p)
      PROVE  /\ \A u \in Thread \ {t} : pc'[u] = pc[u] /\ lagReq'[u] = lagReq[u]
             /\ pc[t] \in LagPc \ {"notify"} /\ pc'[t] \in LagPc
             /\ lagLock \in {NoThread, t} /\ lagLock' \in {NoThread, t}
             /\ pc'[t] \in LagCritical => lagLock' = t
  BY <1>4 DEF AddLock, DelLock
<1>5. ASSUME NEW l \in Lag, NEW p \in Port, SetLookup(t, l, p)
      PROVE  /\ \A u \in Thread \ {t} : pc'[u] = pc[u] /\ lagReq'[u] = lagReq[u]
             /\ pc[t] \in LagPc \ {"notify"} /\ pc'[t] \in LagPc
             /\ lagLock \in {NoThread, t} /\ lagLock' \in {NoThread, t}
             /\ pc'[t] \in LagCritical => lagLock' = t
  BY <1>5 DEF SetLookup
<1>6. CASE CreateLag(t)
  BY <1>1, <1>6 DEF CreateLag
<1>7. CASE RemoveLagCheck(t)
  BY <1>1, <1>7 DEF RemoveLagCheck
<1>8. CASE RemoveLag(t)
  BY <1>1, <1>8 DEF RemoveLag
<1>9. CASE AddCheck(t)
  BY <1>1, <1>9 DEF AddCheck
<1>10. CASE AddNpu(t)
  BY <1>1, <1>10 DEF AddNpu
<1>11. CASE AddCacheOk(t)
  BY <1>1, <1>11 DEF AddCacheOk
<1>12. CASE AddCacheFail(t)
  BY <1>1, <1>12 DEF AddCacheFail
<1>13. CASE DelCheck(t)
  BY <1>1, <1>13 DEF DelCheck
<1>14. CASE DelNpu(t)
  BY <1>1, <1>14 DEF DelNpu
<1>15. CASE DelCache(t)
  BY <1>1, <1>15 DEF DelCache
<1>16. CASE SetFlag(t)
  BY <1>1, <1>16 DEF SetFlag
<1> QED
  BY <1>1, <1>2, <1>3, <1>4, <1>5, <1>6, <1>7, <1>8, <1>9,
     <1>10, <1>11, <1>12, <1>13, <1>14, <1>15, <1>16 DEF LagPart, LagCall, LagStep

(* A RIF step other than a callback is taken by the holder of the FIB lock *)
(* or when it is free, and leaves the LAG alone but for its lock.          *)
LEMMA RifEffect ==
  ASSUME Types, Locks, RifWork, NEW t \in Thread,
         RifCall(t) \/ RifStep(t) \/ RifWait(t)
  PROVE  /\ UNCHANGED <<lagRef, lagData>>
         /\ \A u \in Thread \ {t} : /\ pc'[u] = pc[u]
                                    /\ lagReq'[u] = lagReq[u]
                                    /\ cbRif'[u] = cbRif[u]
         /\ \/ fibLock \in {NoThread, t} /\ fibLock' \in {NoThread, t}
            \/ UNCHANGED <<lagLock, fibLock, rifOp, rifData>>
         /\ pc'[t] \in RifPc \cup {"idle"}
         /\ pc[t] \in RifPc \cup {"idle", "notify"}
         /\ pc'[t] \in FibCritical => fibLock' = t
         /\ lagLock' # lagLock =>
              lagLock \in {NoThread, t} /\ lagLock' \in {NoThread, t}
         /\ HoldsLag(t)' => lagLock' = t
<1> USE DEF Types, LagTypeOK, Locks, HoldsLag, LagCritical, LagNested,
            FibCritical, LagPc, RifPc, Goto, TakeLagLock, DropLagLock,
            TakeFibLock, FibReturn, LagUnlock, rifData
<1>1. CASE RifCall(t)
  BY <1>1 DEF RifCall, RifCreateLock, RifRemoveLock
<1>2. CASE RifCreateTakeLag(t) \/ RifRemoveTakeLag(t)
  BY <1>2 DEF RifCreateTakeLag, RifRemoveTakeLag, RifWork, rifVars
<1>3. CASE RifParse(t)  BY <1>3 DEF RifParse
<1>4. CASE RifNpu(t)  BY <1>4 DEF RifNpu
<1>5. CASE RifCommit(t) \/ RifCommitFail(t)
  BY <1>5 DEF RifCommit, RifCommitFail
<1>6. CASE RifMap(t) \/ RifUnmap(t)  BY <1>6 DEF RifMap, RifUnmap
<1>7. CASE RifRemove(t) \/ RifRemoveFail(t)
  BY <1>7 DEF RifRemove, RifRemoveFail
<1>8. CASE RifCallback(t) \/ RifLagMemberUpdate(t)
  BY <1>8 DEF RifCallback, RifLagMemberUpdate, CallbackDone
<1> QED
  BY <1>1, <1>2, <1>3, <1>4, <1>5, <1>6, <1>7, <1>8 DEF RifStep, RifWait

(* No step puts a thread where it should hold a lock that it does not.     *)
LEMMA LocksStep ==
  ASSUME Types, Locks, RifWork, [Next]_vars
  PROVE  Locks'
<1>1. ASSUME NEW t \in Thread, LagPart(t) PROVE Locks'
  <2> SUFFICES ASSUME NEW u \in Thread
               PROVE  /\ pc'[u] \in FibCritical => fibLock' = u
                      /\ HoldsLag(u)' => lagLock' = u
    BY DEF Locks
  <2>1. CASE u = t
    BY <1>1, <2>1, LagEffect DEF HoldsLag, LagCritical, LagNested, FibCritical, LagPc
  <2>2. CASE u # t
    BY <1>1, <2>2, LagEffect, NoThreadAssumption DEF Locks, HoldsLag, rifVars
  <2> QED BY <2>1, <2>2
<1>2. ASSUME NEW t \in Thread, RifCall(t) \/ RifStep(t) \/ RifWait(t)
      PROVE  Locks'
  <2> SUFFICES ASSUME NEW u \in Thread
               PROVE  /\ pc'[u] \in FibCritical => fibLock' = u
                      /\ HoldsLag(u)' => lagLock' = u
    BY DEF Locks
  <2>1. CASE u = t  BY <1>2, <2>1, RifEffect
  <2>2. CASE u # t
    <3>1. pc[u] \in FibCritical => fibLock = u /\ fibLock' = u /\ rifOp' = rifOp
      BY <1>2, <2>2, RifEffect, NoThreadAssumption DEF Locks
    <3>2. LagNested \subseteq FibCritical  BY DEF LagNested, FibCritical
    <3> QED
      BY <1>2, <2>2, <3>1, <3>2, RifEffect, NoThreadAssumption DEF Locks, HoldsLag
  <2> QED BY <2>1, <2>2
<1>3. ASSUME NEW r \in Rif, RifUse(r) \/ RifUnuse(r) PROVE Locks'
  BY <1>3 DEF RifUse, RifUnuse, lagVars, Locks, HoldsLag
<1>4. ASSUME NEW r \in Rif, NEW m \in Mac, RifSetMac(r, m) PROVE Locks'
  BY <1>4 DEF RifSetMac, lagVars, Locks, HoldsLag
<1>5. CASE UNCHANGED vars
  BY <1>5 DEF vars, lagVars, rifVars, Locks, HoldsLag
<1> QED BY <1>1, <1>2, <1>3, <1>4, <1>5 DEF Next

---------------------------------------------------------------------------
(* The work in progress                                                    *)

(* What a LAG handler has validated stays true until it releases its lock. *)
LEMMA LagWorkStep ==
  ASSUME Types, Locks, LagWork, RifWork, [Next]_vars
  PROVE  LagWork'
<1> DEFINE W(u) ==
      /\ pc[u] \in LagPc \ {"idle", "createLag"} => lagReq[u].lag \in Lag
      /\ pc[u] \in (LagPc \ {"idle", "createLag", "removeLag", "removeNode"})
            \cup {"cbFib"}
           => lagReq[u].port \in Port /\ lagReq[u].lag \in Lag
      /\ pc[u] = "removeNode" =>
           lagReq[u].lag \in lags /\ members[lagReq[u].lag] = {}
      /\ pc[u] \in {"addNpu", "addCache"}
           => ValidAdd(lagReq[u].lag, lagReq[u].port)
      /\ pc[u] = "addCache" => lagReq[u].port \in npuLag[lagReq[u].lag]
      /\ pc[u] = "cbFib" => cbRif[u] \in Rif
<1>a. (\A u \in Thread : W(u)') => LagWork'  BY DEF LagWork
<1>b. \A u \in Thread : W(u)  BY DEF LagWork
<1>1. ASSUME NEW t \in Thread, LagPart(t) PROVE LagWork'
  <2>1. ASSUME NEW u \in Thread \ {t} PROVE W(u)'
    <3>1. CASE pc[u] \in {"removeNode", "addNpu", "addCache"}
      <4>1. lagLock = u  BY <3>1 DEF Locks, HoldsLag, LagCritical
      <4> QED BY <4>1, <1>1, LagEffect, NoThreadAssumption
    <3>2. CASE pc[u] \notin {"removeNode", "addNpu", "addCache"}
      BY <1>1, <1>b, <2>1, <3>2, LagEffect DEF rifVars
    <3> QED BY <3>1, <3>2
  <2>2. W(t)'
    <3> USE <1>1, <1>b DEF Types, LagTypeOK, LagPc, Goto, Return, ReturnNotify,
                           lagData, LagReq
    <3>1. CASE CreateLagLock(t)  BY <3>1 DEF CreateLagLock
    <3>2. CASE \E l \in Lag : RemoveLagLock(t, l)  BY <3>2 DEF RemoveLagLock
    <3>3. CASE \E l \in Lag, p \in Port :
                 AddLock(t, l, p) \/ DelLock(t, l, p) \/ SetLookup(t, l, p)
      BY <3>3 DEF AddLock, DelLock, SetLookup
    <3>4. CASE CreateLag(t) \/ RemoveLag(t) \/ SetFlag(t)
      BY <3>4 DEF CreateLag, RemoveLag, SetFlag
    <3>11. CASE RemoveLagCheck(t)  BY <3>11 DEF RemoveLagCheck, LagRemovable
    <3>5. CASE AddCheck(t)
      BY <3>5 DEF AddCheck, ValidAdd, InDifferentLag
    <3>6. CASE AddNpu(t)
      BY <3>6 DEF AddNpu, ValidAdd, InDifferentLag
    <3>7. CASE AddCacheOk(t) \/ AddCacheFail(t)
      BY <3>7 DEF AddCacheOk, AddCacheFail
    <3>8. CASE DelCheck(t)  BY <3>8 DEF DelCheck
    <3>9. CASE DelNpu(t)  BY <3>9 DEF DelNpu
    <3>10. CASE DelCache(t)  BY <3>10, SMTT(30) DEF DelCache
    <3> QED
      BY <3>1, <3>2, <3>3, <3>4, <3>5, <3>6, <3>7, <3>8, <3>9, <3>10, <3>11
      DEF LagPart, LagCall, LagStep
  <2> QED BY <1>a, <2>1, <2>2
<1>2. ASSUME NEW t \in Thread, RifCall(t) \/ RifStep(t) \/ RifWait(t)
      PROVE  LagWork'
  <2>1. ASSUME NEW u \in Thread \ {t} PROVE W(u)'
    BY <1>2, <1>b, <2>1, RifEffect DEF lagData, ValidAdd, InDifferentLag
  <2>2. W(t)'
    <3>1. CASE RifCallback(t)
      <4>1. lagReq[t].port \in Port /\ lagReq[t].lag \in Lag
        BY <3>1, <1>b DEF RifCallback, LagPc
      <4>2. MappedRif(lagReq[t].lag) \subseteq Rif \cup {NoRif}
        BY <4>1 DEF Types, MappedRif
      <4> QED
        BY <3>1, <4>1, <4>2
        DEF RifCallback, CallbackDone, Goto, Types, LagPc
    <3>2. CASE ~ RifCallback(t)
      <4>1. pc'[t] \in (RifPc \ {"cbFib"}) \cup {"idle"}
        <5> USE DEF Types, RifPc, LagUnlock, FibReturn, Goto
        <5>1. CASE RifCall(t) \/ RifWait(t)
          BY <5>1 DEF RifCall, RifWait, RifCreateLock, RifRemoveLock,
             RifCreateTakeLag, RifRemoveTakeLag, RifLagMemberUpdate, CallbackDone
        <5>2. CASE RifParse(t) \/ RifNpu(t)  BY <5>2 DEF RifParse, RifNpu
        <5>3. CASE RifCommit(t) \/ RifCommitFail(t)
          BY <5>3 DEF RifCommit, RifCommitFail
        <5>4. CASE RifMap(t) \/ RifUnmap(t)  BY <5>4 DEF RifMap, RifUnmap
        <5>5. CASE RifRemove(t) \/ RifRemoveFail(t)
          BY <5>5 DEF RifRemove, RifRemoveFail
        <5> QED
          BY <1>2, <3>2, <5>1, <5>2, <5>3, <5>4, <5>5 DEF RifStep
      <4> QED BY <4>1 DEF RifPc, LagPc
    <3> QED BY <3>1, <3>2
  <2> QED BY <1>a, <2>1, <2>2
<1>3. ASSUME NEW r \in Rif, RifUse(r) \/ RifUnuse(r) PROVE LagWork'
  BY <1>3, <1>a, <1>b DEF RifUse, RifUnuse, lagVars, lagData, ValidAdd, InDifferentLag
<1>4. ASSUME NEW r \in Rif, NEW m \in Mac, RifSetMac(r, m) PROVE LagWork'
  BY <1>4, <1>a, <1>b DEF RifSetMac, lagVars, lagData, ValidAdd, InDifferentLag
<1>5. CASE UNCHANGED vars
  BY <1>5, <1>a, <1>b DEF vars, lagVars, rifVars, lagData, ValidAdd, InDifferentLag
<1> QED BY <1>1, <1>2, <1>3, <1>4, <1>5 DEF Next

(* What a RIF handler has validated stays true until it releases the locks *)
(* that protect it: the FIB lock for the table, the LAG lock for members.  *)
LEMMA RifWorkStep ==
  ASSUME Types, Locks, LagWork, RifWork, LiveIsProgrammed, [Next]_vars
  PROVE  RifWork'
<1> DEFINE W(u) ==
      /\ pc[u] \in FibCritical => rifOp.info \in RifInfo
      /\ pc[u] \in {"rifCreateLag", "rifRemoveLag", "rifMap", "rifUnmap"}
           => rifOp.info.att \in Lag
      /\ pc[u] \in {"rifNpu", "rifCommit"} => ~ Duplicate(rifOp.info)
      /\ pc[u] = "rifCommit" =>
           /\ rifOp.rif \in npuRifs \ Live
           /\ npuRif[rifOp.rif] = Members(rifOp.info.att)
      /\ pc[u] \in {"rifRemoveLag", "rifRemove"} =>
           rifOp.rif \in Live /\ rifs[rifOp.rif] = rifOp.info
<1>a. (\A u \in Thread : W(u)') => RifWork'  BY DEF RifWork
<1>b. \A u \in Thread : W(u)  BY DEF RifWork
<1>c. \A u \in Thread : pc[u] \notin FibCritical => (pc'[u] = pc[u] => W(u)')
  BY DEF FibCritical
<1>1. ASSUME NEW t \in Thread, LagPart(t), NEW u \in Thread PROVE W(u)'
  <2>1. UNCHANGED rifVars  BY <1>1, LagEffect
  <2>2. CASE u = t
    BY <1>1, <2>2, LagEffect DEF LagPc, FibCritical
  <2>3. CASE u # t /\ pc[u] = "rifCommit" /\ rifOp.info.att \in Lag
    BY <1>1, <2>3, LagEffect, NoThreadAssumption DEF Locks, HoldsLag, LagNested
  <2>4. CASE u # t /\ ~ (pc[u] = "rifCommit" /\ rifOp.info.att \in Lag)
    <3>1. pc'[u] = pc[u]  BY <1>1, <2>4, LagEffect
    <3> QED
      BY <1>b, <2>1, <2>4, <3>1
      DEF rifVars, rifData, Live, Duplicate, Members
  <2> QED BY <2>2, <2>3, <2>4
<1>2. ASSUME NEW t \in Thread, RifCall(t) \/ RifStep(t) \/ RifWait(t),
             NEW u \in Thread \ {t}
      PROVE  W(u)'
  <2>1. pc'[u] = pc[u]  BY <1>2, RifEffect
  <2>2. CASE pc[u] \in FibCritical
    <3>1. fibLock = u  BY <2>2 DEF Locks
    <3>2. UNCHANGED <<rifOp, rifData, lagData>>
      BY <1>2, <3>1, RifEffect, NoThreadAssumption
    <3> QED
      BY <1>b, <2>1, <3>2
      DEF rifData, lagData, Live, Duplicate, Members
  <2> QED BY <2>1, <2>2, <1>c
<1>3. ASSUME NEW t \in Thread, RifCall(t) \/ RifStep(t) \/ RifWait(t)
      PROVE  W(t)'
  <2> USE DEF Types, FibCritical, Goto
  <2>a. Live \subseteq Rif /\ \A r \in Live : rifs[r] \in RifInfo
    BY DEF Live
  <2>1. ASSUME NEW info \in RifInfo, RifCreateLock(t, info) PROVE W(t)'
    BY <2>1 DEF RifCreateLock, RifInfo, Att
  <2>2. ASSUME NEW r \in Rif, RifRemoveLock(t, r) PROVE W(t)'
    BY <2>2, <2>a DEF RifRemoveLock, rifData, Live
  <2>3. CASE RifCreateTakeLag(t) \/ RifRemoveTakeLag(t)
    BY <2>3, <1>b DEF RifCreateTakeLag, RifRemoveTakeLag, rifVars, rifData, Live
  <2>4. CASE RifParse(t)
    BY <2>4, <1>b DEF RifParse, LagUnlock, FibReturn, Acceptable, rifData,
                      Duplicate, Live
  <2>5. CASE RifNpu(t)
    <3>1. ASSUME NEW r \in Rif \ npuRifs,
                 npuRifs' = npuRifs \cup {r},
                 npuRif' = [npuRif EXCEPT ![r] = Members(rifOp.info.att)],
                 rifOp' = [rifOp EXCEPT !.rif = r],
                 Goto(t, "rifCommit"), UNCHANGED <<lagLock, fibLock>>
          PROVE  W(t)'
      <4>1. /\ rifOp'.info = rifOp.info /\ rifOp'.rif = r
            /\ UNCHANGED <<rifs, members>>
        BY <2>5, <3>1 DEF RifNpu, lagData
      <4>2. r \notin Live  BY <3>1 DEF LiveIsProgrammed
      <4>3. ~ Duplicate(rifOp.info) /\ rifOp.info \in RifInfo
        BY <1>b, <2>5 DEF RifNpu
      <4> QED
        BY <2>5, <3>1, <4>1, <4>2, <4>3 DEF Duplicate, Live, Members
    <3>2. CASE \E r \in Rif \cup {NoRif} : LagUnlock(t, "rifMap", r)
      BY <2>5, <3>2, <1>b DEF RifNpu, LagUnlock, FibReturn
    <3> QED BY <2>5, <3>1, <3>2 DEF RifNpu
  <2>6. CASE RifCommit(t)
    BY <2>6, <1>b DEF RifCommit, LagUnlock, FibReturn
  <2>7. CASE RifCommitFail(t)
    BY <2>7, <1>b DEF RifCommitFail, LagUnlock, FibReturn
  <2>8. CASE RifMap(t) \/ RifUnmap(t)
    BY <2>8 DEF RifMap, RifUnmap, FibReturn
  <2>9. CASE RifRemove(t)
    BY <2>9, <1>b DEF RifRemove, LagUnlock, FibReturn
  <2>10. CASE RifRemoveFail(t)
    BY <2>10 DEF RifRemoveFail, FibReturn
  <2>11. CASE RifCallback(t) \/ RifLagMemberUpdate(t)
    BY <2>11 DEF RifCallback, RifLagMemberUpdate, CallbackDone
  <2> QED
    BY <1>3, <2>1, <2>2, <2>3, <2>4, <2>5, <2>6, <2>7, <2>8, <2>9, <2>10, <2>11
    DEF RifCall, RifStep, RifWait
<1>4. ASSUME NEW u \in Thread,
             \/ \E r \in Rif : RifUse(r) \/ RifUnuse(r)
             \/ \E r \in Rif, m \in Mac : RifSetMac(r, m)
      PROVE  W(u)'
  <2>1. fibLock = NoThread /\ pc' = pc
    BY <1>4 DEF RifUse, RifUnuse, RifSetMac, lagVars
  <2>2. pc[u] \notin FibCritical  BY <2>1, NoThreadAssumption DEF Locks
  <2> QED BY <2>1, <2>2, <1>c
<1>5. ASSUME UNCHANGED vars, NEW u \in Thread PROVE W(u)'
  BY <1>5, <1>b DEF vars, lagVars, lagData, rifVars, rifData, Live, Duplicate, Members
<1> QED BY <1>a, <1>1, <1>2, <1>3, <1>4, <1>5 DEF Next

---------------------------------------------------------------------------
(* Safety of the LAG                                                       *)

(* Steps that are not a LAG handler's keep the LAG as it is, and whoever   *)
(* is removing a member from it.                                           *)
LEMMA LagFrame ==
  ASSUME Types, Locks, RifWork, [Next]_vars,
         ~ \E t \in Thread : LagPart(t)
  PROVE  /\ UNCHANGED lagData
         /\ \A t \in Thread : pc[t] = "delCache" =>
              pc'[t] = "delCache" /\ lagReq'[t] = lagReq[t]
<1>1. ASSUME NEW t \in Thread, RifCall(t) \/ RifStep(t) \/ RifWait(t)
      PROVE  /\ UNCHANGED lagData
             /\ pc[t] # "delCache"
             /\ \A u \in Thread \ {t} : pc'[u] = pc[u] /\ lagReq'[u] = lagReq[u]
  BY <1>1, RifEffect DEF RifPc
<1>2. CASE \E r \in Rif : RifUse(r) \/ RifUnuse(r)
  BY <1>2 DEF RifUse, RifUnuse, lagVars
<1>3. CASE \E r \in Rif, m \in Mac : RifSetMac(r, m)
  BY <1>3 DEF RifSetMac, lagVars
<1>4. CASE UNCHANGED vars  BY <1>4 DEF vars, lagVars
<1> QED BY <1>1, <1>2, <1>3, <1>4 DEF Next

(* AddCacheOk relies on the validation, SetFlag on its second lookup.      *)
LEMMA NoOrphanStateStep ==
  ASSUME Types, Locks, LagWork, RifWork, Programmed, NoOrphanState, [Next]_vars
  PROVE  NoOrphanState'
<1>1. ASSUME NEW t \in Thread, LagPart(t) PROVE NoOrphanState'
  <2> USE <1>1 DEF NoOrphanState, Types, LagTypeOK, lagData
  <2>1. CASE LagCall(t)
    BY <2>1 DEF LagCall, CreateLagLock, RemoveLagLock, AddLock, DelLock, SetLookup
  <2>2. CASE CreateLag(t)  BY <2>2 DEF CreateLag
  <2>3. CASE RemoveLag(t)  BY <2>3 DEF RemoveLag, LagWork
  <2>4. CASE RemoveLagCheck(t) \/ AddCheck(t) \/ AddNpu(t) \/ AddCacheFail(t) 
          \/ DelCheck(t) \/ DelNpu(t)
    BY <2>4 DEF RemoveLagCheck, AddCheck, AddNpu, AddCacheFail, DelCheck, DelNpu
  <2>5. CASE AddCacheOk(t)
    <3>1. ValidAdd(lagReq[t].lag, lagReq[t].port)
      BY <2>5 DEF AddCacheOk, LagWork
    <3> QED BY <2>5, <3>1 DEF AddCacheOk, ValidAdd
  <2>6. CASE DelCache(t)  BY <2>6 DEF DelCache
  <2>7. CASE SetFlag(t)  BY <2>7 DEF SetFlag, FlagSettable
  <2> QED BY <2>1, <2>2, <2>3, <2>4, <2>5, <2>6, <2>7 DEF LagPart, LagStep
<1>2. CASE ~ \E t \in Thread : LagPart(t)
  BY <1>2, LagFrame DEF NoOrphanState, lagData
<1> QED BY <1>1, <1>2

(* The search for a port covers the LAGs of the cache only: it is complete *)
(* because the others have no members.                                     *)
LEMMA PortInOneLagStep ==
  ASSUME Types, Locks, LagWork, RifWork, NoOrphanState, PortInOneLag, [Next]_vars
  PROVE  PortInOneLag'
<1>1. ASSUME NEW t \in Thread, LagPart(t) PROVE PortInOneLag'
  <2> USE <1>1 DEF PortInOneLag, Types, LagTypeOK, lagData
  <2>1. CASE LagCall(t)
    BY <2>1 DEF LagCall, CreateLagLock, RemoveLagLock, AddLock, DelLock, SetLookup
  <2>2. CASE CreateLag(t) \/ RemoveLag(t) \/ SetFlag(t)
    BY <2>2 DEF CreateLag, RemoveLag, SetFlag
  <2>3. CASE RemoveLagCheck(t) \/ AddCheck(t) \/ AddNpu(t) \/ AddCacheFail(t) 
          \/ DelCheck(t) \/ DelNpu(t)
    BY <2>3 DEF RemoveLagCheck, AddCheck, AddNpu, AddCacheFail, DelCheck, DelNpu
  <2>4. CASE AddCacheOk(t)
    <3>1. PICK a \in Lag, p \in Port :
            ValidAdd(a, p) /\ members' = [members EXCEPT ![a] = @ \cup {p}]
      <4>1. lagReq[t].lag \in Lag /\ lagReq[t].port \in Port
        BY <2>4 DEF AddCacheOk, LagWork, LagPc
      <4>2. ValidAdd(lagReq[t].lag, lagReq[t].port)
        BY <2>4 DEF AddCacheOk, LagWork
      <4> QED BY <2>4, <4>1, <4>2 DEF AddCacheOk
    <3>2. \A k \in Lag \ {a} : p \notin members[k]
      BY <3>1 DEF ValidAdd, InDifferentLag, NoOrphanState
    <3> QED BY <3>1, <3>2
  <2>5. CASE DelCache(t)  BY <2>5 DEF DelCache
  <2> QED BY <2>1, <2>2, <2>3, <2>4, <2>5 DEF LagPart, LagStep
<1>2. CASE ~ \E t \in Thread : LagPart(t)
  BY <1>2, LagFrame DEF PortInOneLag, lagData
<1> QED BY <1>1, <1>2

(* The NPU is told first of a new member, and the cache last of a removal. *)
LEMMA ProgrammedStep ==
  ASSUME Types, Locks, LagWork, RifWork, NoOrphanState, Programmed, [Next]_vars
  PROVE  Programmed'
<1>1. ASSUME NEW t \in Thread, LagPart(t) PROVE Programmed'
  <2> USE <1>1 DEF Types, LagTypeOK, lagData
  <2>a. \A u \in Thread \ {t} : pc[u] # "delCache"
    BY LagEffect, NoThreadAssumption DEF Locks, HoldsLag, LagCritical
  <2>1. CASE LagCall(t)
    <3>1. UNCHANGED lagData /\ pc[t] = "idle"
      BY <2>1 DEF LagCall, CreateLagLock, RemoveLagLock, AddLock, DelLock, SetLookup
    <3> QED BY <2>a, <3>1 DEF Programmed
  <2>2. CASE CreateLag(t)  BY <2>2, <2>a DEF CreateLag, Programmed
  <2>3. CASE RemoveLag(t)
    BY <2>3, <2>a DEF RemoveLag, LagWork, Programmed
  <2>4. CASE RemoveLagCheck(t) \/ AddCheck(t) \/ AddNpu(t) \/ DelCheck(t) \/ SetFlag(t)
    BY <2>4, <2>a DEF RemoveLagCheck, AddCheck, AddNpu, DelCheck, SetFlag, Programmed
  <2>5. CASE AddCacheOk(t)
    BY <2>5, <2>a DEF AddCacheOk, Programmed, LagWork
  <2>6. CASE AddCacheFail(t)
    <3>1. ValidAdd(lagReq[t].lag, lagReq[t].port)
      BY <2>6 DEF AddCacheFail, LagWork
    <3> QED BY <2>6, <2>a, <3>1 DEF AddCacheFail, Programmed, ValidAdd
  <2>7. CASE DelNpu(t)
    <3>1. pc'[t] = "delCache" /\ lagReq' = lagReq
      BY <2>7 DEF DelNpu, Goto
    <3> QED BY <2>7, <2>a, <3>1 DEF DelNpu, Programmed
  <2>8. CASE DelCache(t)
    BY <2>8, <2>a DEF DelCache, Programmed
  <2> QED
    BY <2>1, <2>2, <2>3, <2>4, <2>5, <2>6, <2>7, <2>8 DEF LagPart, LagStep
<1>2. CASE ~ \E t \in Thread : LagPart(t)
  BY <1>2, LagFrame DEF Programmed, lagData
<1> QED BY <1>1, <1>2

---------------------------------------------------------------------------
(* Safety of the router interface table                                    *)

(* The table, the counters and what the NPU knows of RIFs change only in   *)
(* these steps.                                                            *)
TableStep(t) ==
  RifNpu(t) \/ RifCommit(t) \/ RifCommitFail(t) \/ RifRemove(t)

LEMMA TableFrame ==
  ASSUME Types, Locks, RifWork, [Next]_vars,
         ~ \E t \in Thread : TableStep(t),
         ~ \E r \in Rif, m \in Mac : RifSetMac(r, m)
  PROVE  UNCHANGED <<rifs, numRif, npuRifs>>
<1>1. ASSUME NEW t \in Thread, LagPart(t)
      PROVE  UNCHANGED <<rifs, numRif, npuRifs>>
  BY <1>1 DEF LagPart, rifVars, rifData
<1>2. ASSUME NEW t \in Thread, RifCall(t) \/ RifStep(t) \/ RifWait(t)
      PROVE  UNCHANGED <<rifs, numRif, npuRifs>>
  BY <1>2 DEF RifCall, RifStep, RifWait, RifCreateLock, RifRemoveLock, RifParse,
              RifMap, RifRemoveFail, RifUnmap, RifCallback, RifCreateTakeLag,
              RifRemoveTakeLag, RifLagMemberUpdate, TableStep, rifVars, rifData
<1>3. CASE \E r \in Rif : RifUse(r) \/ RifUnuse(r)
  BY <1>3 DEF RifUse, RifUnuse
<1>4. CASE UNCHANGED vars  BY <1>4 DEF vars, rifVars, rifData
<1> QED BY <1>1, <1>2, <1>3, <1>4 DEF Next

(* A new RIF is in the NPU before it is in the table.                      *)
LEMMA LiveIsProgrammedStep ==
  ASSUME Types, Locks, RifWork, LiveIsProgrammed, [Next]_vars
  PROVE  LiveIsProgrammed'
<1> USE DEF LiveIsProgrammed, Live, Types
<1>1. ASSUME NEW t \in Thread, TableStep(t) PROVE LiveIsProgrammed'
  <2>1. CASE RifNpu(t)  BY <2>1 DEF RifNpu
  <2>2. CASE RifCommit(t)  BY <2>2 DEF RifCommit, RifWork
  <2>3. CASE RifCommitFail(t)  BY <2>3 DEF RifCommitFail, RifWork
  <2>4. CASE RifRemove(t)  BY <2>4 DEF RifRemove
  <2> QED BY <1>1, <2>1, <2>2, <2>3, <2>4 DEF TableStep
<1>2. ASSUME NEW r \in Rif, NEW m \in Mac, RifSetMac(r, m)
      PROVE  LiveIsProgrammed'
  BY <1>2 DEF RifSetMac
<1> QED BY <1>1, <1>2, TableFrame

(* The search for duplicates still holds when the RIF is inserted.         *)
LEMMA OneVrfPerAttachmentStep ==
  ASSUME Types, Locks, RifWork, OneVrfPerAttachment, [Next]_vars
  PROVE  OneVrfPerAttachment'
<1> USE DEF OneVrfPerAttachment, Live, Types
<1>1. ASSUME NEW t \in Thread, TableStep(t) PROVE OneVrfPerAttachment'
  <2>1. CASE RifNpu(t) \/ RifCommitFail(t)  BY <2>1 DEF RifNpu, RifCommitFail
  <2>2. CASE RifCommit(t)
    <3>1. rifOp.rif \in Rif \ Live /\ ~ Duplicate(rifOp.info)
      BY <2>2 DEF RifCommit, RifWork
    <3>2. rifs' = [rifs EXCEPT ![rifOp.rif] = rifOp.info]
      BY <2>2 DEF RifCommit
    <3> QED BY <3>1, <3>2 DEF Duplicate
  <2>3. CASE RifRemove(t)  BY <2>3 DEF RifRemove
  <2> QED BY <1>1, <2>1, <2>2, <2>3 DEF TableStep
<1>2. ASSUME NEW r \in Rif, NEW m \in Mac, RifSetMac(r, m)
      PROVE  OneVrfPerAttachment'
  <2>1. r \in Live  BY <1>2 DEF RifSetMac
  <2>2. rifs[r] \in RifInfo  BY <2>1
  <2>3. \A s \in Rif : /\ rifs'[s] # NoInfo => rifs[s] # NoInfo
                       /\ rifs[s] # NoInfo => rifs'[s].att = rifs[s].att
                                           /\ rifs'[s].vrf = rifs[s].vrf
    BY <1>2, <2>2 DEF RifSetMac, RifInfo
  <2> QED BY <2>3
<1> QED BY <1>1, <1>2, TableFrame

(* An element less.                                                        *)
LEMMA OneLess ==
  ASSUME NEW S, IsFiniteSet(S), NEW x \in S
  PROVE  Cardinality(S \ {x}) = Cardinality(S) - 1
  BY FS_RemoveElement

(* The counter follows the table in creation, its failure and removal.     *)
LEMMA VrfRifCountStep ==
  ASSUME Types, Locks, RifWork, VrfRifCount, [Next]_vars
  PROVE  VrfRifCount'
<1> DEFINE RifsOf(v) == {r \in Live : rifs[r].vrf = v}
<1> USE DEF Types
<1>a. \A v \in Vrf : numRif[v] = Cardinality(RifsOf(v)) /\ IsFiniteSet(RifsOf(v))
  BY RifAssumption, FS_Subset DEF VrfRifCount, Live
<1>b. ASSUME \A v \in Vrf : RifsOf(v)' = RifsOf(v) /\ numRif'[v] = numRif[v]
      PROVE  VrfRifCount'
  BY <1>a, <1>b DEF VrfRifCount
<1>c. ASSUME \A v \in Vrf : numRif'[v] = Cardinality(RifsOf(v)')
      PROVE  VrfRifCount'
  BY <1>c DEF VrfRifCount
<1>1. ASSUME NEW t \in Thread, TableStep(t) PROVE VrfRifCount'
  <2>1. CASE RifNpu(t) \/ RifCommitFail(t)
    BY <2>1, <1>b DEF RifNpu, RifCommitFail, Live
  <2>2. CASE RifCommit(t)
    <3>1. PICK r \in Rif \ Live, info \in RifInfo :
            /\ rifs' = [rifs EXCEPT ![r] = info]
            /\ numRif' = [numRif EXCEPT ![info.vrf] = @ + 1]
      BY <2>2 DEF RifCommit, RifWork, FibCritical
    <3>2. info.vrf \in Vrf  BY DEF RifInfo
    <3>3. RifsOf(info.vrf)' = RifsOf(info.vrf) \cup {r}
      BY <3>1, NoInfoAssumption DEF Live
    <3>4. \A v \in Vrf \ {info.vrf} : RifsOf(v)' = RifsOf(v)
      BY <3>1, NoInfoAssumption DEF Live
    <3>5. Cardinality(RifsOf(info.vrf)') = Cardinality(RifsOf(info.vrf)) + 1
      <4>1. r \notin RifsOf(info.vrf)  BY <3>1 DEF Live
      <4>2. IsFiniteSet(RifsOf(info.vrf))  BY <3>2, <1>a
      <4> QED BY <3>3, <4>1, <4>2, FS_AddElement
    <3>6. \A v \in Vrf : numRif'[v] = Cardinality(RifsOf(v)')
      <4>1. numRif'[info.vrf] = numRif[info.vrf] + 1  BY <3>1, <3>2
      <4>2. \A v \in Vrf \ {info.vrf} : numRif'[v] = numRif[v]  BY <3>1, <3>2
      <4>3. numRif'[info.vrf] = Cardinality(RifsOf(info.vrf)')
        <5>1. numRif[info.vrf] = Cardinality(RifsOf(info.vrf))  BY <3>2, <1>a
        <5> QED BY <4>1, <5>1, <3>5
      <4>4. \A v \in Vrf \ {info.vrf} : numRif'[v] = Cardinality(RifsOf(v)')
        <5>1. \A v \in Vrf \ {info.vrf} : numRif[v] = Cardinality(RifsOf(v))  BY <1>a
        <5> QED BY <4>2, <5>1, <3>4
      <4> HIDE DEF RifsOf, Types
      <4>5. ASSUME NEW v \in Vrf  PROVE numRif'[v] = Cardinality(RifsOf(v)')
        <5>1. CASE v = info.vrf  BY <5>1, <4>3
        <5>2. CASE v # info.vrf  BY <5>2, <4>4
        <5> QED BY <5>1, <5>2
      <4> QED BY <4>5
    <3> QED BY <3>6, <1>c
  <2>3. CASE RifRemove(t)
    <3>1. PICK r \in Live, w \in Vrf :
            /\ w = rifs[r].vrf
            /\ rifs' = [rifs EXCEPT ![r] = NoInfo]
            /\ numRif' = [numRif EXCEPT ![w] = @ - 1]
      <4>1. rifOp.rif \in Live  BY <2>3 DEF RifRemove, RifWork
      <4>2. rifs[rifOp.rif] \in RifInfo  BY <4>1 DEF Live
      <4>3. rifs[rifOp.rif].vrf \in Vrf  BY <4>2 DEF RifInfo
      <4> QED BY <2>3, <4>1, <4>3 DEF RifRemove
    <3>2. RifsOf(w)' = RifsOf(w) \ {r}  BY <3>1 DEF Live
    <3>3. \A v \in Vrf \ {w} : RifsOf(v)' = RifsOf(v)  BY <3>1 DEF Live
    <3>4. Cardinality(RifsOf(w)') = Cardinality(RifsOf(w)) - 1
      <4>1. r \in RifsOf(w)  BY <3>1
      <4>2. IsFiniteSet(RifsOf(w))  BY <1>a
      <4> HIDE DEF RifsOf
      <4>3. Cardinality(RifsOf(w) \ {r}) = Cardinality(RifsOf(w)) - 1
        BY <4>1, <4>2, OneLess
      <4> QED BY <4>3, <3>2
    <3>5. \A v \in Vrf : numRif'[v] = Cardinality(RifsOf(v)')
      <4>1. numRif'[w] = numRif[w] - 1  BY <3>1
      <4>2. \A v \in Vrf \ {w} : numRif'[v] = numRif[v]  BY <3>1
      <4>3. \A v \in Vrf : numRif[v] = Cardinality(RifsOf(v))  BY <1>a
      <4>4. w \in Vrf /\ numRif \in [Vrf -> Int]  BY <3>1
      <4> HIDE DEF RifsOf, Types
      <4>5. ASSUME NEW v \in Vrf  PROVE numRif'[v] = Cardinality(RifsOf(v)')
        <5>1. CASE v = w  BY <5>1, <4>1, <4>3, <4>4, <3>4
        <5>2. CASE v # w  BY <5>2, <4>2, <4>3, <3>3
        <5> QED BY <5>1, <5>2
      <4> QED BY <4>5
    <3> QED BY <3>5, <1>c
  <2> QED BY <1>1, <2>1, <2>2, <2>3 DEF TableStep
<1>2. ASSUME NEW r \in Rif, NEW m \in Mac, RifSetMac(r, m)
      PROVE  VrfRifCount'
  <2>1. r \in Live  BY <1>2 DEF RifSetMac
  <2>2. rifs[r] \in RifInfo  BY <2>1 DEF Live
  <2>3. [rifs[r] EXCEPT !.mac = m] \in RifInfo
        /\ [rifs[r] EXCEPT !.mac = m].vrf = rifs[r].vrf
    BY <2>2 DEF RifInfo
  <2>4. rifs' = [rifs EXCEPT ![r] = [rifs[r] EXCEPT !.mac = m]] /\ numRif' = numRif
    BY <1>2 DEF RifSetMac
  <2>5. \A v \in Vrf : RifsOf(v)' = RifsOf(v)
    BY <2>1, <2>3, <2>4, NoInfoAssumption DEF Live
  <2> QED BY <2>4, <2>5, <1>b
<1> QED BY <1>1, <1>2, <1>b, TableFrame DEF Live

---------------------------------------------------------------------------
(* The theorems                                                            *)

(* The inductive invariant holds initially and is kept by every step.      *)
LEMMA InitIInv == Init => IInv
<1> SUFFICES ASSUME Init PROVE IInv  OBVIOUS
<1> USE DEF Init, LagInit
<1>1. Types
  BY DEF Types, LagTypeOK, NoReq, LagReq, LagOper, NoOp, LagPc
<1>2. Locks  BY DEF Locks, HoldsLag, FibCritical, LagCritical, LagNested
<1>3. LagWork  BY DEF LagWork, LagPc
<1>4. RifWork  BY DEF RifWork, FibCritical
<1>5. Programmed /\ NoOrphanState /\ PortInOneLag
  BY DEF Programmed, NoOrphanState, PortInOneLag
<1>6. Live = {}  BY DEF Live
<1>7. LiveIsProgrammed /\ OneVrfPerAttachment
  BY <1>6 DEF LiveIsProgrammed, OneVrfPerAttachment
<1>8. VrfRifCount
  <2>1. \A v \in Vrf : {r \in Live : rifs[r].vrf = v} = {}  BY <1>6
  <2>2. Cardinality({}) = 0  BY FS_EmptySet
  <2> QED BY <2>1, <2>2 DEF VrfRifCount
<1> QED BY <1>1, <1>2, <1>3, <1>4, <1>5, <1>7, <1>8 DEF IInv

LEMMA StepIInv == IInv /\ [Next]_vars => IInv'
<1> SUFFICES ASSUME IInv, [Next]_vars PROVE IInv'  OBVIOUS
<1> QED
  BY TypesStep, LocksStep, LagWorkStep, RifWorkStep, ProgrammedStep,
     NoOrphanStateStep, PortInOneLagStep, LiveIsProgrammedStep,
     OneVrfPerAttachmentStep, VrfRifCountStep DEF IInv

(* The inductive invariant holds in every reachable state.                 *)
THEOREM Invariance == Spec => []IInv
  BY InitIInv, StepIInv, PTL DEF Spec

(* Every variable keeps to its type; in particular the RIF counter of a    *)
(* virtual router never goes below zero.                                   *)
THEOREM TypeCorrectness == Spec => []TypeOK
<1>1. IInv => TypeOK
  <2> SUFFICES ASSUME IInv PROVE TypeOK  OBVIOUS
  <2>1. \A v \in Vrf : numRif[v] \in Nat
    <3> TAKE v \in Vrf
    <3>1. IsFiniteSet({r \in Live : rifs[r].vrf = v})
      BY RifAssumption, FS_Subset DEF Live
    <3> QED BY <3>1, FS_CardinalityType DEF IInv, VrfRifCount
  <2> QED BY <2>1 DEF IInv, Types, TypeOK
<1> QED BY <1>1, Invariance, PTL

(* Whatever calls of the NPU fail, and whichever threads run in between:   *)
(* a free LAG lock means that the NPU has what the cache lists.            *)
THEOREM CachedProgrammed == Spec => []CachedIsProgrammed
<1>1. IInv => CachedIsProgrammed
  BY NoThreadAssumption
  DEF IInv, Programmed, CachedIsProgrammed, Locks, HoldsLag, LagCritical
<1> QED BY <1>1, Invariance, PTL

(* No member without its LAG, no flag without its member, and no port in   *)
(* two LAGs.                                                               *)
THEOREM LagSafety == Spec => [](NoOrphanState /\ PortInOneLag)
<1>1. IInv => NoOrphanState /\ PortInOneLag  BY DEF IInv
<1> QED BY <1>1, Invariance, PTL

(* The RIFs of an attachment share their virtual router, what decides      *)
(* whether a virtual router can be removed is exact, and what the table    *)
(* lists is in the NPU.                                                    *)
THEOREM TableSafety == Spec => []TableSound
<1>1. IInv => TableSound  BY DEF IInv, TableSound
<1> QED BY <1>1, Invariance, PTL

(* Only RifCommit adds to the table, and RifWork knows the members then.   *)
LEMMA BornInSyncStep ==
  ASSUME IInv, [Next]_vars, NEW r \in Rif, rifs[r] = NoInfo, rifs'[r] # NoInfo
  PROVE  npuRif'[r] = IF rifs'[r].att \in Lag THEN members'[rifs'[r].att] ELSE {}
<1> USE DEF IInv, Types
<1>1. ASSUME NEW t \in Thread, TableStep(t)
      PROVE  /\ RifCommit(t) /\ r = rifOp.rif
             /\ npuRif'[r] = Members(rifOp.info.att)
             /\ rifs'[r] = rifOp.info /\ members' = members
  BY <1>1 DEF TableStep, RifNpu, RifCommit, RifCommitFail, RifRemove, RifWork, lagData
<1>2. ASSUME NEW s \in Rif, NEW m \in Mac, RifSetMac(s, m) PROVE FALSE
  BY <1>2 DEF RifSetMac, Live
<1> QED BY <1>1, <1>2, TableFrame DEF Members

(* A RIF enters the table with the members its LAG has then.               *)
THEOREM BornInSync == Spec => RifBornInSync
<1>1. IInv /\ [Next]_vars =>
        [\A r \in Rif : rifs[r] = NoInfo /\ rifs'[r] # NoInfo =>
           npuRif'[r] = IF rifs'[r].att \in Lag THEN members'[rifs'[r].att]
                                                ELSE {}]_vars
  BY BornInSyncStep
<1> QED BY <1>1, Invariance, PTL DEF Spec, RifBornInSync

(* Every step of a handler is a step of the abstract table, or none.       *)
LEMMA TableRefinementStep ==
  ASSUME IInv, [Next]_vars
  PROVE  [Table!Next]_(Table!vars)
<1> USE DEF IInv, Types, Table!vars
<1>a. Table!Live = Live  BY DEF Table!Live, Live
<1>1. ASSUME NEW t \in Thread, TableStep(t) PROVE [Table!Next]_(Table!vars)
  <2>1. CASE RifNpu(t) \/ RifCommitFail(t)
    BY <2>1 DEF RifNpu, RifCommitFail
  <2>2. CASE RifCommit(t)
    <3>1. /\ rifOp.rif \in Rif \ Live
          /\ rifOp.info \in RifInfo
          /\ ~ Duplicate(rifOp.info)
      BY <2>2 DEF RifCommit, RifWork, FibCritical
    <3>2. Table!Create(rifOp.rif, rifOp.info)
      BY <2>2, <3>1, <1>a DEF Table!Create, RifCommit, Duplicate
    <3> QED BY <3>1, <3>2 DEF Table!Next, Table!RifInfo, RifInfo
  <2>3. CASE RifRemove(t)
    <3>1. rifOp.rif \in Live  BY <2>3 DEF RifRemove, RifWork
    <3>2. Table!Remove(rifOp.rif)
      BY <2>3, <3>1, <1>a DEF Table!Remove, RifRemove, RifRemovable
    <3> QED BY <3>1, <3>2 DEF Table!Next, Live
  <2> QED BY <1>1, <2>1, <2>2, <2>3 DEF TableStep
<1>2. ASSUME NEW r \in Rif, NEW m \in Mac, RifSetMac(r, m)
      PROVE  [Table!Next]_(Table!vars)
  BY <1>2, <1>a DEF RifSetMac, Table!SetMac, Table!Next
<1>3. ASSUME NEW r \in Rif, RifUse(r) \/ RifUnuse(r)
      PROVE  [Table!Next]_(Table!vars)
  BY <1>3, <1>a DEF RifUse, RifUnuse, Table!Use, Table!Unuse, Table!Next
<1>4. ASSUME NEW t \in Thread, LagPart(t) PROVE UNCHANGED Table!vars
  BY <1>4 DEF LagPart, rifVars, rifData
<1>5. ASSUME NEW t \in Thread, RifCall(t) \/ RifStep(t) \/ RifWait(t),
             ~ TableStep(t)
      PROVE  UNCHANGED Table!vars
  BY <1>5 DEF RifCall, RifStep, RifWait, RifCreateLock, RifRemoveLock, RifParse,
              RifMap, RifRemoveFail, RifUnmap, RifCallback, RifCreateTakeLag,
              RifRemoveTakeLag, RifLagMemberUpdate, TableStep, rifVars, rifData
<1>6. CASE UNCHANGED vars  BY <1>6 DEF vars, rifVars, rifData
<1> QED BY <1>1, <1>2, <1>3, <1>4, <1>5, <1>6 DEF Next

(* The threads, locks and callbacks together implement the abstract table. *)
THEOREM Refinement == Spec => ImplementsRifTable
<1>1. Init => Table!Init
  BY DEF Init, Table!Init
<1> QED
  BY <1>1, TableRefinementStep, Invariance, PTL
  DEF Spec, ImplementsRifTable, Table!Spec

(* RIF creation and its failure touch only an id the table does not list.  *)
LEMMA MemberUpdateStep ==
  ASSUME IInv, [Next]_vars, NEW r \in Live, npuRif'[r] # npuRif[r]
  PROVE  \/ rifs'[r] = NoInfo
         \/ \E t \in Thread : /\ pc[t] = "cbFib"
                              /\ cbRif[t] = r
                              /\ lagReq[t].lag = rifs[r].att
<1> DEFINE Own == \/ rifs'[r] = NoInfo
                  \/ \E t \in Thread : /\ pc[t] = "cbFib"
                                       /\ cbRif[t] = r
                                       /\ lagReq[t].lag = rifs[r].att
<1> USE DEF IInv, Types
<1>a. r \in Rif /\ r \in npuRifs  BY DEF LiveIsProgrammed, Live
<1>1. ASSUME NEW t \in Thread, RifCall(t) \/ RifStep(t) \/ RifWait(t) PROVE Own
  <2>1. CASE RifNpu(t)  BY <2>1, <1>a DEF RifNpu
  <2>2. CASE RifCommitFail(t)  BY <2>2, <1>a DEF RifCommitFail, RifWork
  <2>3. CASE RifRemove(t)  BY <2>3, <1>a DEF RifRemove, RifWork
  <2>4. CASE RifLagMemberUpdate(t)
    BY <2>4, <1>a DEF RifLagMemberUpdate, Updates
  <2>5. CASE ~ (\/ RifNpu(t) \/ RifCommitFail(t) \/ RifRemove(t)
                \/ RifLagMemberUpdate(t))
    BY <1>1, <2>5
    DEF RifCall, RifStep, RifWait, RifCreateLock, RifRemoveLock, RifParse,
        RifCommit, RifMap, RifRemoveFail, RifUnmap, RifCallback,
        RifCreateTakeLag, RifRemoveTakeLag, rifVars, rifData
  <2> QED BY <2>1, <2>2, <2>3, <2>4, <2>5
<1>2. ASSUME NEW t \in Thread, LagPart(t) PROVE FALSE
  BY <1>2 DEF LagPart, rifVars, rifData
<1>3. CASE \/ \E s \in Rif : RifUse(s) \/ RifUnuse(s)
           \/ \E s \in Rif, m \in Mac : RifSetMac(s, m)
           \/ UNCHANGED vars
  BY <1>3 DEF RifUse, RifUnuse, RifSetMac, vars, rifVars, rifData
<1> QED BY <1>1, <1>2, <1>3 DEF Next

(* However stale the id a callback has read, only the RIF that is on the   *)
(* LAG that changed has its ports changed.                                 *)
THEOREM MemberUpdate == Spec => MemberUpdateOnlyForOwnLag
<1>1. IInv /\ [Next]_vars =>
        [\A r \in Live : npuRif'[r] # npuRif[r] =>
           \/ rifs'[r] = NoInfo
           \/ \E t \in Thread : /\ pc[t] = "cbFib"
                                /\ cbRif[t] = r
                                /\ lagReq[t].lag = rifs[r].att]_vars
  BY MemberUpdateStep
<1> QED BY <1>1, Invariance, PTL DEF Spec, MemberUpdateOnlyForOwnLag
=============================================================================
