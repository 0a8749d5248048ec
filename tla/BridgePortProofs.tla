-------------------------- MODULE BridgePortProofs --------------------------
(***************************************************************************)
(* Safety of BridgePort, proved for any number of threads, LAGs, ports,    *)
(* bridges, bridge ports and VLANs.                                        *)
(*                                                                         *)
(* A handler holds the bridge lock from its checks to its last change, so  *)
(* what it has checked is still so (Work); and the only state it shares    *)
(* with LAG handlers, which do not take that lock, are counts of LAGs and  *)
(* their default bridge ports, of which nothing but an upper bound is      *)
(* claimed.                                                                *)
(***************************************************************************)
EXTENDS BridgePort, FiniteSetTheorems, TLAPS

---------------------------------------------------------------------------
(* The inductive invariant                                                 *)

(* What a thread in a LAG handler, or behind one, works on.                *)
Requests ==
  \A t \in Thread :
    /\ pc[t] \in LagPc \ {"idle", "createLag"} => lagReq[t].lag \in Lag
    /\ pc[t] \in LagPc \ {"idle", "createLag", "removeLag", "removeNode"}
         => lagReq[t].port \in Port

(* What sai_bridge_port_create has validated and no one else can change.   *)
Checked(info) ==
  /\ info.bridge \in bridges /\ TypeMatch(info)
  /\ info.type = "SUB_PORT" => vlanBport[<<info.att, info.vlan>>] = NoBPort
  /\ info.type = "PORT" /\ info.att \in Port => defBport[info.att] = NoBPort

Creating == {"bpCreateLag", "bpCheck", "bpNpu", "bpAttach"}
Removing == {"bpRemoveLag", "bpRemove"}

(* What the holder of the bridge lock works on.                            *)
Work ==
  \A t \in Thread :
    /\ pc[t] \in BpPc => bridgeLock = t
    /\ pc[t] \in Creating => bpOp.info \in BpInfo
    /\ pc[t] \in {"bpNpu", "bpAttach"} => Checked(bpOp.info)
    /\ pc[t] = "bpAttach" => bpOp.bp \in BPort
    /\ pc[t] \in Removing => bpOp.bp \in Cached /\ bports[bpOp.bp] = bpOp.info

(* A bridge port is on a bridge of its kind, and a sub port is the one its *)
(* place leads to.                                                         *)
Connected ==
  \A b \in Cached :
    /\ bports[b].bridge \in bridges /\ TypeMatch(bports[b])
    /\ bports[b].type = "SUB_PORT" => vlanBport[<<bports[b].att, bports[b].vlan>>] = b

(* A 1D bridge counts its sub ports, and what failures have leaked.        *)
OnBridge(d) == {b \in Cached : bports[b].bridge = d}
BridgeCounts ==
  /\ DefaultBridge \in bridges
  /\ \A d \in Bridge \ {DefaultBridge} : Cardinality(OnBridge(d)) <= bridgeRef[d]

Sound == AttachmentsSound /\ Connected /\ BridgeCounts

IInv == TypeOK /\ Requests /\ Work /\ Sound

---------------------------------------------------------------------------
(* Sets of bridge ports                                                    *)

LEMMA OnFinite ==
  /\ \A a : IsFiniteSet(On(a)) /\ Cardinality(On(a)) \in Nat
  /\ \A d : IsFiniteSet(OnBridge(d)) /\ Cardinality(OnBridge(d)) \in Nat
<1>1. ASSUME NEW S, S \subseteq BPort  PROVE IsFiniteSet(S) /\ Cardinality(S) \in Nat
  BY <1>1, BPortAssumption, FS_Subset, FS_CardinalityType
<1> QED BY <1>1 DEF On, OnBridge, Cached

(* A bridge port that enters the cache is one more where it is.            *)
LEMMA OneMore ==
  ASSUME NEW b \in BPort, b \notin Cached, NEW info \in BpInfo,
         bports \in [BPort -> BpInfo \cup {NoInfo}],
         bports' = [bports EXCEPT ![b] = info]
  PROVE  /\ Cached' = Cached \cup {b}
         /\ \A a : Cardinality(On(a)') = IF a = info.att THEN Cardinality(On(a)) + 1
                                         ELSE Cardinality(On(a))
         /\ \A d : Cardinality(OnBridge(d)') = IF d = info.bridge THEN Cardinality(OnBridge(d)) + 1
                                               ELSE Cardinality(OnBridge(d))
<1>1. Cached' = Cached \cup {b}
  BY NoInfoAssumption DEF Cached
<1>2. /\ \A a : On(a)' = IF a = info.att THEN On(a) \cup {b} ELSE On(a)
      /\ \A d : OnBridge(d)' = IF d = info.bridge THEN OnBridge(d) \cup {b} ELSE OnBridge(d)
  BY <1>1 DEF On, OnBridge, Cached
<1>3. \A a : b \notin On(a) /\ b \notin OnBridge(a)
  BY DEF On, OnBridge
<1> QED BY <1>1, <1>2, <1>3, OnFinite, FS_AddElement

(* A bridge port that leaves the cache is one less.                        *)
LEMMA OneLess ==
  ASSUME NEW b \in Cached, bports \in [BPort -> BpInfo \cup {NoInfo}],
         bports' = [bports EXCEPT ![b] = NoInfo]
  PROVE  /\ Cached' = Cached \ {b}
         /\ \A a : /\ Cardinality(On(a)') = IF a = bports[b].att THEN Cardinality(On(a)) - 1
                                            ELSE Cardinality(On(a))
                   /\ a = bports[b].att => Cardinality(On(a)) > 0
         /\ \A d : Cardinality(OnBridge(d)') = IF d = bports[b].bridge
                                               THEN Cardinality(OnBridge(d)) - 1
                                               ELSE Cardinality(OnBridge(d))
<1>1. Cached' = Cached \ {b}
  BY DEF Cached
<1>2. /\ \A a : On(a)' = IF a = bports[b].att THEN On(a) \ {b} ELSE On(a)
      /\ \A d : OnBridge(d)' = IF d = bports[b].bridge THEN OnBridge(d) \ {b} ELSE OnBridge(d)
  BY <1>1 DEF On, OnBridge, Cached
<1>3. \A a : /\ a = bports[b].att => b \in On(a)
             /\ a = bports[b].bridge => b \in OnBridge(a)
  BY DEF On, OnBridge
<1>4. \A a : a = bports[b].att => Cardinality(On(a)) > 0
  BY <1>3, OnFinite, FS_EmptySet
<1> QED BY <1>1, <1>2, <1>3, <1>4, OnFinite, FS_RemoveElement

---------------------------------------------------------------------------
(* The calls of the LAG component                                          *)

(* What the handlers store in the request of a thread is a request.        *)
LEMMA ReqUpdate ==
  ASSUME NEW t \in Thread, lagReq \in [Thread -> LagReq]
  PROVE  /\ [lagReq EXCEPT ![t] = NoReq] \in [Thread -> LagReq]
         /\ \A l \in Lag : [lagReq EXCEPT ![t].lag = l] \in [Thread -> LagReq]
         /\ \A l \in Lag, p \in Port :
              [lagReq EXCEPT ![t].lag = l, ![t].port = p] \in [Thread -> LagReq]
         /\ \A o \in LagOper : [lagReq EXCEPT ![t].oper = o] \in [Thread -> LagReq]
  BY DEF LagReq, NoReq, LagOper

(* LAG handlers keep the types of the LAG component.                       *)
LEMMA LagTypesStep ==
  ASSUME LagTypeOK, pc \in [Thread -> LagPc \cup BpPc], Requests,
         NEW t \in Thread, LagCall(t) \/ LagStep(t)
  PROVE  LagTypeOK' /\ pc' \in [Thread -> LagPc \cup BpPc]
<1> USE DEF LagTypeOK, LagPc, Goto, TakeLagLock, DropLagLock,
            Return, ReturnNotify, lagData
<1>a. /\ pc[t] \in {"addCheck", "addNpu", "addCache", "delCheck", "delNpu",
                    "delCache", "setFlag"}
             => lagReq[t].lag \in Lag /\ lagReq[t].port \in Port
  BY DEF Requests
<1>b. {"ADD_PORTS", "DEL_PORTS"} \subseteq LagOper  BY DEF LagOper
<1>1. CASE CreateLagLock(t)  BY <1>1 DEF CreateLagLock
<1>2. ASSUME NEW l \in Lag, RemoveLagLock(t, l)
      PROVE  LagTypeOK' /\ pc' \in [Thread -> LagPc \cup BpPc]
  BY <1>2, ReqUpdate DEF RemoveLagLock
<1>3. ASSUME NEW l \in Lag, NEW p \in Port,
             AddLock(t, l, p) \/ DelLock(t, l, p) \/ SetLookup(t, l, p)
      PROVE  LagTypeOK' /\ pc' \in [Thread -> LagPc \cup BpPc]
  <2>1. lagReq' = [lagReq EXCEPT ![t].lag = l, ![t].port = p]
    BY <1>3 DEF AddLock, DelLock, SetLookup
  <2>2. lagReq' \in [Thread -> LagReq]  BY <2>1, ReqUpdate
  <2> QED BY <1>3, <2>2 DEF AddLock, DelLock, SetLookup
<1>4. CASE CreateLag(t)
  <2>1. lagReq' \in [Thread -> LagReq]  BY <1>4, ReqUpdate DEF CreateLag
  <2>2. lagRef' \in [Lag -> Nat]  BY <1>4 DEF CreateLag
  <2>3. npuLags' \subseteq Lag /\ lags' \subseteq Lag  BY <1>4 DEF CreateLag
  <2> QED BY <1>4, <2>1, <2>2, <2>3 DEF CreateLag
<1>5. CASE RemoveLagCheck(t) \/ RemoveLag(t)
  BY <1>5, ReqUpdate DEF RemoveLagCheck, RemoveLag
<1>6. CASE AddCheck(t)  BY <1>6, ReqUpdate DEF AddCheck
<1>7. CASE AddNpu(t)
  <2>1. lagReq' \in [Thread -> LagReq]  BY <1>7, ReqUpdate DEF AddNpu
  <2>2. npuLag' \in [Lag -> SUBSET Port]  BY <1>7, <1>a DEF AddNpu
  <2> QED BY <1>7, <2>1, <2>2 DEF AddNpu
<1>8. CASE AddCacheOk(t)
  <2>1. lagReq' \in [Thread -> LagReq]
    BY <1>8, <1>b, ReqUpdate DEF AddCacheOk
  <2>2. /\ members' \in [Lag -> SUBSET Port]
        /\ disabled' \in [Lag -> SUBSET Port]
    BY <1>8, <1>a DEF AddCacheOk
  <2> QED BY <1>8, <2>1, <2>2 DEF AddCacheOk
<1>9. CASE AddCacheFail(t)  BY <1>9, ZenonT(40), <1>a, ReqUpdate DEF AddCacheFail
<1>10. CASE DelCheck(t)  BY <1>10, ReqUpdate DEF DelCheck
<1>11. CASE DelNpu(t)  BY <1>11, <1>a DEF DelNpu
<1>12. CASE DelCache(t)  BY <1>12, <1>a, <1>b, ReqUpdate DEF DelCache
<1>13. CASE SetFlag(t)
  <2>1. lagReq' \in [Thread -> LagReq]  BY <1>13, ReqUpdate DEF SetFlag
  <2>2. disabled' \in [Lag -> SUBSET Port]  BY <1>13, <1>a DEF SetFlag
  <2> QED BY <1>13, <2>1, <2>2 DEF SetFlag
<1> QED
  BY <1>1, <1>2, <1>3, <1>4, <1>5, <1>6, <1>7, <1>8, <1>9, <1>10, <1>11,
     <1>12, <1>13 DEF LagCall, LagStep

(* ... and do to bridge ports no more than to forget those of a new LAG.   *)
LEMMA LagEffect ==
  ASSUME LagTypeOK, pc \in [Thread -> LagPc \cup BpPc], Requests,
         NEW t \in Thread, LagCall(t) \/ LagStep(t)
  PROVE  /\ pc[t] \notin BpPc
         /\ \E x \in LagPc : pc' = [pc EXCEPT ![t] = x]
         /\ \A l \in lags' : (l \in lags /\ lagRef'[l] = lagRef[l]) \/ lagRef'[l] = 0
<1> USE DEF LagPc, BpPc, Goto, Return, ReturnNotify, lagData
<1>1. CASE LagCall(t)
  BY <1>1 DEF LagCall, CreateLagLock, RemoveLagLock, AddLock, DelLock, SetLookup
<1>2. CASE CreateLag(t)
  BY <1>2 DEF CreateLag, LagTypeOK
<1>3. CASE RemoveLagCheck(t) \/ RemoveLag(t)
  BY <1>3 DEF RemoveLagCheck, RemoveLag
<1>4. CASE AddCheck(t) \/ AddNpu(t) \/ AddCacheOk(t) \/ AddCacheFail(t)
  BY <1>4 DEF AddCheck, AddNpu, AddCacheOk, AddCacheFail
<1>5. CASE DelCheck(t) \/ DelNpu(t) \/ DelCache(t) \/ SetFlag(t)
  BY <1>5 DEF DelCheck, DelNpu, DelCache, SetFlag
<1> QED BY <1>1, <1>2, <1>3, <1>4, <1>5 DEF LagStep

(* LAG handlers work on a LAG, and on a port once they have looked it up.  *)
LEMMA LagRequests ==
  ASSUME LagTypeOK, pc \in [Thread -> LagPc \cup BpPc], Requests,
         NEW t \in Thread, LagCall(t) \/ LagStep(t)
  PROVE  Requests'
<1> USE DEF LagPc, BpPc, Goto, Return, ReturnNotify, lagData, Requests, LagTypeOK, LagReq, NoReq
<1>1. CASE CreateLagLock(t)
  BY <1>1 DEF CreateLagLock
<1>2. ASSUME NEW l \in Lag, RemoveLagLock(t, l)  PROVE Requests'
  BY <1>2 DEF RemoveLagLock
<1>3. ASSUME NEW l \in Lag, NEW p \in Port,
             AddLock(t, l, p) \/ DelLock(t, l, p) \/ SetLookup(t, l, p)
      PROVE  Requests'
  BY <1>3 DEF AddLock, DelLock, SetLookup
<1>4. CASE CreateLag(t) \/ RemoveLagCheck(t) \/ RemoveLag(t)
  BY <1>4 DEF CreateLag, RemoveLagCheck, RemoveLag
<1>5. CASE AddCheck(t) \/ AddNpu(t) \/ AddCacheOk(t) \/ AddCacheFail(t)
  BY <1>5 DEF AddCheck, AddNpu, AddCacheOk, AddCacheFail
<1>6. CASE DelCheck(t) \/ DelNpu(t) \/ DelCache(t) \/ SetFlag(t)
  BY <1>6 DEF DelCheck, DelNpu, DelCache, SetFlag
<1> QED BY <1>1, <1>2, <1>3, <1>4, <1>5, <1>6 DEF LagCall, LagStep

---------------------------------------------------------------------------
(* What every handler of the bridge does                                   *)

(* A thread that holds the bridge lock is the only one in a handler.       *)
LEMMA OneHandler ==
  ASSUME Work
  PROVE  /\ \A t, u \in Thread : pc[t] \in BpPc /\ pc[u] \in BpPc => t = u
         /\ bridgeLock = NoThread => \A t \in Thread : pc[t] \notin BpPc
BY NoThreadAssumption DEF Work

(* The end of a handler leaves no one in one.                              *)
LEMMA WorkEnds ==
  ASSUME TypeOK, Work, NEW t \in Thread, pc[t] \in BpPc, BpReturn(t)
  PROVE  Work'
<1>1. \A u \in Thread : pc'[u] \notin BpPc
  BY OneHandler DEF TypeOK, BpReturn, Goto, BpPc
<1> QED BY <1>1 DEF Work, Creating, Removing, BpPc

(* A thread elsewhere leaves the handler what it works on.                 *)
LEMMA WorkAside ==
  ASSUME TypeOK, Work, NEW t \in Thread, pc[t] \notin BpPc,
         NEW x \in LagPc, pc' = [pc EXCEPT ![t] = x],
         UNCHANGED <<bridgeLock, bpOp, bridges, bports, vlanBport>>,
         \A p \in Port : defBport'[p] = defBport[p]
  PROVE  Work'
<1>1. \A u \in Thread : pc'[u] \in BpPc => pc'[u] = pc[u]
  BY DEF TypeOK, LagPc, BpPc
<1>2. ASSUME NEW u \in Thread, pc'[u] \in BpPc
      PROVE  /\ bridgeLock' = u
             /\ pc'[u] \in Creating => bpOp'.info \in BpInfo
             /\ pc'[u] \in {"bpNpu", "bpAttach"} => Checked(bpOp.info)'
             /\ pc'[u] = "bpAttach" => bpOp'.bp \in BPort
             /\ pc'[u] \in Removing => bpOp'.bp \in Cached' /\ bports'[bpOp'.bp] = bpOp'.info
  BY <1>1, <1>2 DEF Work, Checked, TypeMatch, Cached
<1> QED BY <1>2 DEF Work, BpPc, Creating, Removing

(* Handlers of the bridge do not change the requests of LAG handlers.      *)
LEMMA RequestsKept ==
  ASSUME TypeOK, Requests, NEW t \in Thread, NEW x \in BpPc \cup {"idle"}, Goto(t, x),
         lagReq' = lagReq
  PROVE  Requests'
BY DEF TypeOK, Requests, Goto, LagPc, BpPc

(* A step that connects nothing and disconnects nothing: counts of 1D      *)
(* bridges may leak, and LAGs come and go.                                 *)
Kept ==
  /\ UNCHANGED <<bridges, bports, vlanBport, portRef>>
  /\ \A d \in Bridge \ {DefaultBridge} : bridgeRef'[d] >= bridgeRef[d]
  /\ \A p \in Port : defBport'[p] = defBport[p]
  /\ \A l \in lags' : (l \in lags /\ lagRef'[l] = lagRef[l]) \/ lagRef'[l] = 0

TreeStep == [Tree!TreeNext]_<<bridges \ {DefaultBridge}, BridgedBy>>

LEMMA KeptSound ==
  ASSUME TypeOK, TypeOK', Sound, Kept
  PROVE  Sound' /\ TreeStep
<1>1. /\ Cached' = Cached
      /\ \A a : On(a)' = On(a)
      /\ \A d : OnBridge(d)' = OnBridge(d)
  BY DEF Kept, Cached, On, OnBridge
<1>2. PortRefExact' /\ OneDefaultBridgePort'
  BY <1>1 DEF Kept, Sound, AttachmentsSound, PortRefExact, OneDefaultBridgePort
<1>3. LagRefNeverLeaks'
  BY <1>1, OnFinite DEF Kept, Sound, AttachmentsSound, LagRefNeverLeaks
<1>4. Connected'
  BY <1>1 DEF Kept, Sound, Connected, TypeMatch
<1>5. BridgeCounts'
  <2>1. ASSUME NEW d \in Bridge \ {DefaultBridge}  PROVE Cardinality(OnBridge(d)) <= bridgeRef'[d]
    BY OnFinite DEF Kept, Sound, BridgeCounts, TypeOK
  <2> QED BY <1>1, <2>1 DEF Kept, Sound, BridgeCounts
<1>6. BridgedBy' = BridgedBy
  BY <1>1 DEF BridgedBy, Kept
<1> QED BY <1>2, <1>3, <1>4, <1>5, <1>6 DEF Sound, AttachmentsSound, Kept, TreeStep

---------------------------------------------------------------------------
(* Types                                                                   *)

BpOpType == [info : BpInfo \cup {NoInfo}, bp : BPort \cup {NoBPort}, lagLocked : BOOLEAN]

LEMMA ReturnTypes ==
  ASSUME TypeOK, NEW t \in Thread, BpReturn(t)
  PROVE  /\ lagLock' \in Thread \cup {NoThread}
         /\ bridgeLock' \in Thread \cup {NoThread}
         /\ bpOp' \in BpOpType
         /\ pc' \in [Thread -> LagPc \cup BpPc]
BY DEF TypeOK, LagTypeOK, BpReturn, DropLagLock, Goto, NoOp, BpOpType, LagPc

LEMMA InfoType ==
  ASSUME NEW info \in BpInfo
  PROVE  /\ info.att \in Attachment /\ info.bridge \in Bridge
         /\ info.type \in {"PORT", "SUB_PORT"}
         /\ info.type = "SUB_PORT" => info.vlan \in Vlan
         /\ info.type = "PORT" => info.vlan = NoVlan
BY DEF BpInfo

(* A count that is not zero can go down.                                   *)
LEMMA CountDown ==
  ASSUME NEW S, NEW f \in [S -> Nat], NEW a \in S, f[a] # 0
  PROVE  [f EXCEPT ![a] = @ - 1] \in [S -> Nat]
<1>1. f[a] - 1 \in Nat  OBVIOUS
<1> QED BY <1>1

(* What is removed is on its attachment, and counted there.                *)
LEMMA CountedPort ==
  ASSUME TypeOK, Sound, NEW b \in Cached, bports[b].att \in Port
  PROVE  portRef[bports[b].att] > 0
<1>1. b \in On(bports[b].att)
  BY DEF On
<1>2. Cardinality(On(bports[b].att)) > 0
  BY <1>1, OnFinite, FS_EmptySet
<1> QED BY <1>2 DEF Sound, AttachmentsSound, PortRefExact

(* The calls of the bridge API keep all types.                             *)
LEMMA BridgeTypes ==
  ASSUME TypeOK, Requests, Work, Sound, NEW t \in Thread, BpCall(t) \/ BpStep(t)
  PROVE  TypeOK'
<1> USE DEF TypeOK, LagTypeOK, lagData, bridgeData
<1>1. ASSUME NEW info \in BpInfo, NEW isLag \in BOOLEAN, BpCreateLock(t, info, isLag)
      PROVE  TypeOK'
  BY <1>1 DEF BpCreateLock, TakeBridgeLock, Goto, BpPc
<1>2. ASSUME NEW b \in BPort, BpRemoveLock(t, b)  PROVE TypeOK'
  BY <1>2 DEF BpRemoveLock, TakeBridgeLock, Goto, BpPc
<1>3. CASE BpCreateTakeLag(t) \/ BpRemoveTakeLag(t)
  BY <1>3 DEF BpCreateTakeLag, BpRemoveTakeLag, BpTakeLag, TakeLagLock, Goto, BpPc
<1>4. CASE BpCheck(t)
  <2>1. CASE BpValid(bpOp.info)
    BY <1>4, <2>1 DEF BpCheck, Goto, BpPc
  <2>2. CASE ~ BpValid(bpOp.info)
    BY <1>4, <2>2, ReturnTypes DEF BpCheck, BpOpType
  <2> QED BY <2>1, <2>2
<1>5. CASE BpNpu(t)
  <2>1. ASSUME NEW b \in BPort \ npuBports, npuBports' = npuBports \cup {b},
               npuMembers' = [npuMembers EXCEPT ![b] = LagMembers(bpOp.info.att)],
               bpOp' = [bpOp EXCEPT !.bp = b], Goto(t, "bpAttach"),
               UNCHANGED <<lagLock, bridgeLock>>
        PROVE  TypeOK'
    BY <1>5, <2>1 DEF BpNpu, LagMembers, Goto, BpPc
  <2>2. CASE BpReturn(t) /\ UNCHANGED <<npuBports, npuMembers>>
    BY <1>5, <2>2, ReturnTypes DEF BpNpu, BpOpType
  <2> QED BY <1>5, <2>1, <2>2 DEF BpNpu
<1>a. ASSUME NpuRollback(bpOp.bp)
      PROVE  npuBports' \in SUBSET BPort /\ npuMembers' \in [BPort -> SUBSET Port]
  BY <1>a DEF NpuRollback
<1>b. ASSUME pc[t] \in {"bpAttach", "bpRemove"}
      PROVE  bpOp.info \in BpInfo /\ bpOp.bp \in BPort
  BY <1>b, NoInfoAssumption DEF Work, Creating, Removing, Cached
<1>6. CASE BpAttach(t)
  <2>1. /\ bports' \in [BPort -> BpInfo \cup {NoInfo}]
        /\ bridgeRef' \in [Bridge -> Nat]
    BY <1>6, <1>b, InfoType DEF BpAttach
  <2>2. /\ defBport' \in [Attachment -> BPort \cup {NoBPort}]
        /\ vlanBport' \in [Attachment \X Vlan -> BPort \cup {NoBPort}]
    BY <1>6, <1>b, InfoType DEF BpAttach
  <2>3. lagBports' \in [Lag -> SUBSET BPort]
    BY <1>6, <1>b DEF BpAttach
  <2>4. lagRef' \in [Lag -> Nat] /\ portRef' \in [Port -> Nat]
    BY <1>6 DEF BpAttach
  <2> QED BY <1>6, <2>1, <2>2, <2>3, <2>4, ReturnTypes DEF BpAttach, BpOpType
<1>7. CASE BpAttachFail(t)
  BY <1>7, <1>a, ReturnTypes DEF BpAttachFail, BpOpType
<1>8. CASE BpAttachLeak(t)
  <2>1. /\ bridgeRef' \in [Bridge -> Nat]
        /\ defBport' \in [Attachment -> BPort \cup {NoBPort}]
    BY <1>8, <1>b, InfoType DEF BpAttachLeak
  <2> QED BY <1>8, <2>1, <1>a, ReturnTypes DEF BpAttachLeak, BpOpType
<1>9. CASE BpRemove(t)
  <2>a. /\ bpOp.bp \in Cached /\ bports[bpOp.bp] = bpOp.info
        /\ bpOp.info.bridge \in Bridge /\ bpOp.info.att \in Port \cup Lag
    BY <1>9, <1>b, InfoType DEF BpRemove, Work, Removing, Attachment
  <2>1. bridgeRef' \in [Bridge -> Nat]
    <3>1. bridgeRef[bpOp.info.bridge] # 0
      BY <1>9, <2>a DEF BpRemove, Uncountable
    <3>2. bridgeRef' = [bridgeRef EXCEPT ![bpOp.info.bridge] = @ - 1]
      BY <1>9 DEF BpRemove
    <3> QED BY <2>a, <3>1, <3>2, CountDown
  <2>2. /\ bports' \in [BPort -> BpInfo \cup {NoInfo}]
        /\ defBport' \in [Attachment -> BPort \cup {NoBPort}]
        /\ vlanBport' \in [Attachment \X Vlan -> BPort \cup {NoBPort}]
        /\ npuBports' \in SUBSET BPort /\ npuMembers' \in [BPort -> SUBSET Port]
    BY <1>9, <1>b, InfoType DEF BpRemove
  <2>3. lagBports' \in [Lag -> SUBSET BPort]
    BY <1>9 DEF BpRemove
  <2>4. lagRef' \in [Lag -> Nat]
    <3>1. CASE bpOp.info.att \in Lag
      <4>1. lagRef[bpOp.info.att] # 0
        BY <1>9, <3>1 DEF BpRemove, Uncountable
      <4>2. lagRef' = [lagRef EXCEPT ![bpOp.info.att] = @ - 1]
        BY <1>9, <3>1 DEF BpRemove
      <4> QED BY <3>1, <4>1, <4>2, CountDown
    <3>2. CASE bpOp.info.att \notin Lag
      BY <1>9, <3>2 DEF BpRemove
    <3> QED BY <3>1, <3>2
  <2>5. portRef' \in [Port -> Nat]
    <3>1. CASE bpOp.info.att \in Lag
      BY <1>9, <3>1 DEF BpRemove
    <3>2. CASE bpOp.info.att \notin Lag
      <4>1. portRef[bpOp.info.att] # 0
        BY <2>a, <3>2, CountedPort
      <4>2. portRef' = [portRef EXCEPT ![bpOp.info.att] = @ - 1]
        BY <1>9, <3>2 DEF BpRemove
      <4> QED BY <2>a, <3>2, <4>1, <4>2, CountDown
    <3> QED BY <3>1, <3>2
  <2> QED BY <1>9, <2>1, <2>2, <2>3, <2>4, <2>5, ReturnTypes DEF BpRemove, BpOpType
<1>10. CASE BpRemoveFail(t)
  BY <1>10, ReturnTypes DEF BpRemoveFail, BpOpType
<1>11. CASE BpRemoveUncountable(t)
  <2>1. bridgeRef' \in [Bridge -> Nat]
    BY <1>11, <1>b, InfoType DEF BpRemoveUncountable
  <2>2. defBport' \in [Attachment -> BPort \cup {NoBPort}]
    BY <1>11, <1>b, InfoType DEF BpRemoveUncountable
  <2>3. npuBports' \in SUBSET BPort /\ npuMembers' \in [BPort -> SUBSET Port]
    BY <1>11, <1>b DEF BpRemoveUncountable, LagMembers
  <2> QED BY <1>11, <2>1, <2>2, <2>3, ReturnTypes DEF BpRemoveUncountable, BpOpType
<1>12. CASE BridgeLagNotify(t)
  <2>1. pc[t] = "notify" /\ lagReq[t].port \in Port
    BY <1>12 DEF BridgeLagNotify, Requests, LagPc
  <2>2. npuMembers' \in [BPort -> SUBSET Port]
    BY <1>12, <2>1 DEF BridgeLagNotify
  <2>3. lagReq' \in [Thread -> LagReq]
    BY <1>12, ReqUpdate DEF BridgeLagNotify
  <2>4. pc' \in [Thread -> LagPc \cup BpPc]
    BY <1>12 DEF BridgeLagNotify, Goto, LagPc
  <2> QED BY <1>12, <2>2, <2>3, <2>4 DEF BridgeLagNotify
<1> QED
  BY <1>1, <1>2, <1>3, <1>4, <1>5, <1>6, <1>7, <1>8, <1>9, <1>10, <1>11, <1>12 DEF BpCall, BpStep

---------------------------------------------------------------------------
(* The abstract tree                                                       *)

Subs(p) == {b \in Cached : bports[b].att = p[1] /\ bports[b].vlan = p[2]}

LEMMA BridgedByIs ==
  ASSUME NEW p \in Attachment \X Vlan
  PROVE  /\ BridgedBy[p] = IF Subs(p) = {} THEN NoBridge
                           ELSE bports[CHOOSE b \in Subs(p) : TRUE].bridge
         /\ BridgedBy'[p] = IF Subs(p)' = {} THEN NoBridge
                            ELSE bports'[CHOOSE b \in Subs(p)' : TRUE].bridge
BY DEF BridgedBy, Subs

(* A place has one sub port, the one the map leads to.                     *)
LEMMA SubsAre ==
  ASSUME TypeOK, Connected, NEW p \in Attachment \X Vlan, NEW b \in Subs(p)
  PROVE  b \in Cached /\ bports[b].type = "SUB_PORT" /\ b = vlanBport[p]
<1>1. /\ b \in Cached /\ bports[b] \in BpInfo
      /\ bports[b].att = p[1] /\ bports[b].vlan = p[2] /\ p[2] \in Vlan
  BY DEF Subs, Cached, TypeOK
<1>2. bports[b].type = "SUB_PORT"
  BY <1>1, InfoType, VlanAssumption
<1>3. p = <<bports[b].att, bports[b].vlan>>
  BY <1>1
<1> QED BY <1>1, <1>2, <1>3 DEF Connected

(* What changes no sub port of a place changes nothing at the place.       *)
LEMMA PlaceKept ==
  ASSUME NEW p \in Attachment \X Vlan, Subs(p)' = Subs(p),
         \A b \in Subs(p) : bports'[b] = bports[b]
  PROVE  BridgedBy'[p] = BridgedBy[p]
<1>1. CASE Subs(p) = {}
  BY <1>1, BridgedByIs
<1>2. CASE Subs(p) # {}
  <2>1. (CHOOSE b \in Subs(p) : TRUE) \in Subs(p)
    BY <1>2
  <2> QED BY <1>2, <2>1, BridgedByIs
<1> QED BY <1>1, <1>2

(* What changes at one place only.                                         *)
LEMMA OnePlace ==
  ASSUME NEW at \in Attachment \X Vlan, NEW d, BridgedBy'[at] = d,
         \A p \in Attachment \X Vlan : p # at => BridgedBy'[p] = BridgedBy[p]
  PROVE  BridgedBy' = [BridgedBy EXCEPT ![at] = d]
<1> DEFINE F == [p \in Attachment \X Vlan |-> BridgedBy[p]]
           G == [p \in Attachment \X Vlan |-> BridgedBy'[p]]
<1>1. BridgedBy = F /\ BridgedBy' = G
  BY DEF BridgedBy
<1>2. G = [F EXCEPT ![at] = d]
  OBVIOUS
<1> QED BY <1>1, <1>2

(* A sub port that enters connects its place.                              *)
LEMMA ConnectPlace ==
  ASSUME TypeOK, Connected, NEW b \in BPort, b \notin Cached, NEW info \in BpInfo, Checked(info),
         bports' = [bports EXCEPT ![b] = info], bridges' = bridges
  PROVE  TreeStep
<1> DEFINE at == <<info.att, info.vlan>>
<1>a. Cached' = Cached \cup {b}
  BY OneMore DEF TypeOK
<1>1. CASE info.type = "PORT"
  <2>1. ASSUME NEW p \in Attachment \X Vlan  PROVE BridgedBy'[p] = BridgedBy[p]
    <3>1. p[2] # info.vlan
      BY <1>1, InfoType, VlanAssumption
    <3>2. Subs(p)' = Subs(p) /\ \A c \in Subs(p) : bports'[c] = bports[c]
      BY <1>a, <3>1 DEF Subs, TypeOK, Cached
    <3> QED BY <3>2, PlaceKept
  <2> QED BY <2>1 DEF BridgedBy, TreeStep
<1>2. CASE info.type = "SUB_PORT"
  <2>1. at \in Attachment \X Vlan /\ vlanBport[at] = NoBPort
    BY <1>2, InfoType DEF Checked
  <2>2. Subs(at) = {}
    BY <2>1, SubsAre, BPortAssumption DEF Cached
  <2>3. Subs(at)' = {b} /\ bports'[b] = info
    BY <1>a, <2>2 DEF Subs, TypeOK, Cached
  <2>4. BridgedBy[at] = NoBridge /\ BridgedBy'[at] = info.bridge
    BY <2>1, <2>2, <2>3, BridgedByIs
  <2>5. ASSUME NEW p \in Attachment \X Vlan, p # at  PROVE BridgedBy'[p] = BridgedBy[p]
    <3>1. p[1] # info.att \/ p[2] # info.vlan
      BY <2>5
    <3>2. Subs(p)' = Subs(p) /\ \A c \in Subs(p) : bports'[c] = bports[c]
      BY <1>a, <3>1 DEF Subs, TypeOK, Cached
    <3> QED BY <3>2, PlaceKept
  <2>6. BridgedBy' = [BridgedBy EXCEPT ![at] = info.bridge]
    BY <2>1, <2>4, <2>5, OnePlace
  <2>7. info.bridge \in bridges \ {DefaultBridge} /\ info.bridge \in Bridge \ {DefaultBridge}
    BY <1>2, InfoType DEF Checked, TypeMatch
  <2>8. Tree!Connect(at, info.bridge)
    BY <2>4, <2>6, <2>7 DEF Tree!Connect
  <2> QED BY <2>1, <2>7, <2>8 DEF TreeStep, Tree!TreeNext
<1> QED BY <1>1, <1>2, InfoType

(* A sub port that leaves disconnects its place.                           *)
LEMMA DisconnectPlace ==
  ASSUME TypeOK, Connected, NEW b \in Cached, NEW info, info = bports[b],
         bports' = [bports EXCEPT ![b] = NoInfo], bridges' = bridges
  PROVE  TreeStep
<1> DEFINE at == <<info.att, info.vlan>>
<1>a. Cached' = Cached \ {b} /\ info \in BpInfo
  BY OneLess DEF TypeOK, Cached
<1>b. \A c \in Cached \ {b} : bports'[c] = bports[c]
  BY DEF TypeOK, Cached
<1>1. CASE info.type = "PORT"
  <2>1. ASSUME NEW p \in Attachment \X Vlan  PROVE BridgedBy'[p] = BridgedBy[p]
    <3>1. p[2] # info.vlan
      BY <1>1, <1>a, InfoType, VlanAssumption
    <3>2. Subs(p)' = Subs(p) /\ \A c \in Subs(p) : bports'[c] = bports[c]
      BY <1>a, <1>b, <3>1 DEF Subs
    <3> QED BY <3>2, PlaceKept
  <2> QED BY <2>1 DEF BridgedBy, TreeStep
<1>2. CASE info.type = "SUB_PORT"
  <2>1. at \in Attachment \X Vlan
    BY <1>2, <1>a, InfoType
  <2>2. b \in Subs(at)
    BY DEF Subs
  <2>3. Subs(at) = {b}
    BY <2>1, <2>2, SubsAre
  <2>4. Subs(at)' = {}
    BY <1>a, <1>b, <2>3 DEF Subs
  <2>5. BridgedBy[at] = info.bridge /\ BridgedBy'[at] = NoBridge
    BY <2>1, <2>3, <2>4, BridgedByIs
  <2>6. ASSUME NEW p \in Attachment \X Vlan, p # at  PROVE BridgedBy'[p] = BridgedBy[p]
    <3>1. p[1] # info.att \/ p[2] # info.vlan
      BY <2>6
    <3>2. Subs(p)' = Subs(p) /\ \A c \in Subs(p) : bports'[c] = bports[c]
      BY <1>a, <1>b, <3>1 DEF Subs
    <3> QED BY <3>2, PlaceKept
  <2>7. BridgedBy' = [BridgedBy EXCEPT ![at] = NoBridge]
    BY <2>1, <2>5, <2>6, OnePlace
  <2>8. info.bridge # NoBridge
    BY <1>a, InfoType, BridgeAssumption
  <2>9. Tree!Disconnect(at)
    BY <2>5, <2>7, <2>8 DEF Tree!Disconnect
  <2> QED BY <2>1, <2>9 DEF TreeStep, Tree!TreeNext
<1> QED BY <1>1, <1>2, <1>a, InfoType

---------------------------------------------------------------------------
(* The bridge port enters and leaves the cache                             *)

LEMMA AttachSound ==
  ASSUME TypeOK, Sound, Work, NEW t \in Thread, BpAttach(t)
  PROVE  Sound' /\ TreeStep
<1> DEFINE b == bpOp.bp
           info == bpOp.info
<1>1. /\ b \in BPort /\ b \notin Cached /\ info \in BpInfo /\ Checked(info)
      /\ bports' = [bports EXCEPT ![b] = info] /\ bridges' = bridges /\ lags' = lags
      /\ bridgeRef' = [bridgeRef EXCEPT ![info.bridge] = @ + 1]
  BY DEF BpAttach, Work, Creating, lagData
<1>2. /\ info.att \in Port \cup Lag /\ info.bridge \in Bridge
      /\ info.type \in {"PORT", "SUB_PORT"}
      /\ info.type = "SUB_PORT" => <<info.att, info.vlan>> \in Attachment \X Vlan
  BY <1>1, InfoType DEF Attachment
<1> HIDE DEF b, info
<1>3. /\ Cached' = Cached \cup {b}
      /\ bports'[b] = info
      /\ \A c \in Cached : bports'[c] = bports[c]
  BY <1>1, OneMore DEF TypeOK, Cached
<1>4. PortRefExact'
  <2>1. ASSUME NEW p \in Port  PROVE portRef'[p] = Cardinality(On(p)')
    <3>1. portRef[p] = Cardinality(On(p)) /\ portRef[p] \in Nat
      BY DEF Sound, AttachmentsSound, PortRefExact, TypeOK
    <3>2. portRef'[p] = IF p = info.att THEN portRef[p] + 1 ELSE portRef[p]
      BY <1>2, AttachmentAssumption DEF BpAttach, TypeOK, info
    <3> QED BY <1>1, <3>1, <3>2, OneMore DEF TypeOK
  <2> QED BY <2>1 DEF PortRefExact
<1>5. LagRefNeverLeaks'
  <2>1. ASSUME NEW l \in lags  PROVE lagRef'[l] <= Cardinality(On(l)')
    <3>1. lagRef[l] <= Cardinality(On(l)) /\ lagRef[l] \in Nat /\ l \in Lag
      BY DEF Sound, AttachmentsSound, LagRefNeverLeaks, TypeOK, LagTypeOK
    <3>2. lagRef'[l] = IF l = info.att THEN lagRef[l] + 1 ELSE lagRef[l]
      BY <3>1 DEF BpAttach, TypeOK, LagTypeOK, info
    <3>3. Cardinality(On(l)') = IF l = info.att THEN Cardinality(On(l)) + 1 ELSE Cardinality(On(l))
      BY <1>1, OneMore DEF TypeOK
    <3> QED BY <3>1, <3>2, <3>3, OnFinite
  <2> QED BY <1>1, <2>1 DEF LagRefNeverLeaks
<1>6. OneDefaultBridgePort'
  <2>1. ASSUME NEW c \in Cached', bports'[c].type = "PORT", bports'[c].att \in Port
        PROVE  defBport'[bports'[c].att] = c
    <3>1. CASE c = b
      BY <1>2, <1>3, <2>1, <3>1 DEF BpAttach, TypeOK, Attachment, b, info
    <3>2. CASE c # b
      <4>1. c \in Cached /\ bports'[c] = bports[c] /\ defBport[bports[c].att] = c /\ c \in BPort
        BY <1>3, <2>1, <3>2 DEF Sound, AttachmentsSound, OneDefaultBridgePort, Cached
      <4>2. ~ (info.type = "PORT" /\ info.att = bports[c].att)
        BY <1>1, <2>1, <4>1, BPortAssumption DEF Checked
      <4>3. defBport'[bports[c].att] = defBport[bports[c].att]
        BY <1>2, <2>1, <4>1, <4>2 DEF BpAttach, TypeOK, Attachment, info
      <4> QED BY <4>1, <4>3
    <3> QED BY <3>1, <3>2
  <2> QED BY <2>1 DEF OneDefaultBridgePort
<1>7. Connected'
  <2>1. ASSUME NEW c \in Cached'
        PROVE  /\ bports'[c].bridge \in bridges' /\ TypeMatch(bports'[c])
               /\ bports'[c].type = "SUB_PORT" =>
                    vlanBport'[<<bports'[c].att, bports'[c].vlan>>] = c
    <3>1. CASE c = b
      BY <1>1, <1>2, <1>3, <3>1 DEF Checked, BpAttach, TypeOK, b, info
    <3>2. CASE c # b
      <4>1. c \in Cached /\ bports'[c] = bports[c] /\ c \in BPort
        BY <1>3, <2>1, <3>2 DEF Cached
      <4>2. /\ bports[c].bridge \in bridges /\ TypeMatch(bports[c])
            /\ bports[c].type = "SUB_PORT" => vlanBport[<<bports[c].att, bports[c].vlan>>] = c
        BY <4>1 DEF Sound, Connected
      <4>3. ASSUME bports[c].type = "SUB_PORT"
            PROVE  vlanBport'[<<bports[c].att, bports[c].vlan>>] = c
        <5>1. CASE info.type = "PORT"
          BY <4>2, <4>3, <5>1 DEF BpAttach, info
        <5>2. CASE info.type = "SUB_PORT"
          <6>1. <<bports[c].att, bports[c].vlan>> # <<info.att, info.vlan>>
            BY <1>1, <4>1, <4>2, <4>3, <5>2, BPortAssumption DEF Checked
          <6>2. vlanBport' = [vlanBport EXCEPT ![<<info.att, info.vlan>>] = b]
            BY <5>2 DEF BpAttach, b, info
          <6> QED BY <4>2, <4>3, <6>1, <6>2
        <5> QED BY <1>2, <5>1, <5>2
      <4> QED BY <1>1, <4>1, <4>2, <4>3
    <3> QED BY <3>1, <3>2
  <2> QED BY <2>1 DEF Connected, TypeMatch
<1>8. BridgeCounts'
  <2>1. ASSUME NEW d \in Bridge \ {DefaultBridge}  PROVE Cardinality(OnBridge(d)') <= bridgeRef'[d]
    <3>1. Cardinality(OnBridge(d)) <= bridgeRef[d] /\ bridgeRef[d] \in Nat
      BY DEF Sound, BridgeCounts, TypeOK
    <3>2. bridgeRef'[d] = IF d = info.bridge THEN bridgeRef[d] + 1 ELSE bridgeRef[d]
      BY <1>1 DEF TypeOK
    <3>3. Cardinality(OnBridge(d)') = IF d = info.bridge THEN Cardinality(OnBridge(d)) + 1
                                      ELSE Cardinality(OnBridge(d))
      BY <1>1, OneMore DEF TypeOK
    <3> QED BY <3>1, <3>2, <3>3, OnFinite
  <2> QED BY <1>1, <2>1 DEF BridgeCounts, Sound
<1>9. TreeStep
  BY <1>1, ConnectPlace DEF Sound
<1> QED BY <1>4, <1>5, <1>6, <1>7, <1>8, <1>9 DEF Sound, AttachmentsSound

LEMMA RemoveSound ==
  ASSUME TypeOK, Sound, Work, NEW t \in Thread, BpRemove(t)
  PROVE  Sound' /\ TreeStep
<1> DEFINE b == bpOp.bp
           info == bpOp.info
<1>1. /\ b \in Cached /\ info = bports[b]
      /\ bports' = [bports EXCEPT ![b] = NoInfo] /\ bridges' = bridges /\ lags' = lags
      /\ bridgeRef' = [bridgeRef EXCEPT ![info.bridge] = @ - 1] /\ bridgeRef[info.bridge] # 0
  BY DEF BpRemove, Work, Removing, lagData, Uncountable
<1>a. info \in BpInfo
  BY <1>1 DEF TypeOK, Cached
<1>2. /\ info.att \in Port \cup Lag /\ info.bridge \in Bridge
      /\ info.type \in {"PORT", "SUB_PORT"}
      /\ info.type = "SUB_PORT" => <<info.att, info.vlan>> \in Attachment \X Vlan
  BY <1>a, InfoType DEF Attachment
<1> HIDE DEF b, info
<1>3. /\ Cached' = Cached \ {b}
      /\ \A c \in Cached \ {b} : bports'[c] = bports[c] /\ c # b
  BY <1>1, OneLess DEF TypeOK, Cached
<1>4. PortRefExact'
  <2>1. ASSUME NEW p \in Port  PROVE portRef'[p] = Cardinality(On(p)')
    <3>1. portRef[p] = Cardinality(On(p)) /\ portRef[p] \in Nat
      BY DEF Sound, AttachmentsSound, PortRefExact, TypeOK
    <3>2. portRef'[p] = IF p = info.att THEN portRef[p] - 1 ELSE portRef[p]
      BY <1>2, AttachmentAssumption DEF BpRemove, TypeOK, info
    <3> QED BY <1>1, <3>1, <3>2, OneLess DEF TypeOK
  <2> QED BY <2>1 DEF PortRefExact
<1>5. LagRefNeverLeaks'
  <2>1. ASSUME NEW l \in lags  PROVE lagRef'[l] <= Cardinality(On(l)')
    <3>1. lagRef[l] <= Cardinality(On(l)) /\ lagRef[l] \in Nat /\ l \in Lag
      BY DEF Sound, AttachmentsSound, LagRefNeverLeaks, TypeOK, LagTypeOK
    <3>2. lagRef'[l] = IF l = info.att THEN lagRef[l] - 1 ELSE lagRef[l]
      BY <3>1 DEF BpRemove, TypeOK, LagTypeOK, info
    <3>3. Cardinality(On(l)') = IF l = info.att THEN Cardinality(On(l)) - 1 ELSE Cardinality(On(l))
      BY <1>1, OneLess DEF TypeOK
    <3> QED BY <3>1, <3>2, <3>3, OnFinite
  <2> QED BY <1>1, <2>1 DEF LagRefNeverLeaks
<1>6. OneDefaultBridgePort'
  <2>1. ASSUME NEW c \in Cached', bports'[c].type = "PORT", bports'[c].att \in Port
        PROVE  defBport'[bports'[c].att] = c
    <3>1. /\ c \in Cached /\ c # b /\ bports'[c] = bports[c]
          /\ defBport[bports[c].att] = c
      BY <1>3, <2>1 DEF Sound, AttachmentsSound, OneDefaultBridgePort
    <3>2. ~ (info.type = "PORT" /\ info.att = bports[c].att)
      BY <1>1, <2>1, <3>1 DEF Sound, AttachmentsSound, OneDefaultBridgePort
    <3>3. defBport'[bports[c].att] = defBport[bports[c].att]
      BY <1>2, <2>1, <3>1, <3>2 DEF BpRemove, TypeOK, Attachment, info
    <3> QED BY <3>1, <3>3
  <2> QED BY <2>1 DEF OneDefaultBridgePort
<1>7. Connected'
  <2>1. ASSUME NEW c \in Cached'
        PROVE  /\ bports'[c].bridge \in bridges' /\ TypeMatch(bports'[c])
               /\ bports'[c].type = "SUB_PORT" =>
                    vlanBport'[<<bports'[c].att, bports'[c].vlan>>] = c
    <3>1. c \in Cached /\ c # b /\ bports'[c] = bports[c]
      BY <1>3, <2>1
    <3>2. /\ bports[c].bridge \in bridges /\ TypeMatch(bports[c])
          /\ bports[c].type = "SUB_PORT" => vlanBport[<<bports[c].att, bports[c].vlan>>] = c
      BY <3>1 DEF Sound, Connected
    <3>3. ASSUME bports[c].type = "SUB_PORT"
          PROVE  vlanBport'[<<bports[c].att, bports[c].vlan>>] = c
      <4>1. CASE info.type = "PORT"
        BY <3>2, <3>3, <4>1 DEF BpRemove, info
      <4>2. CASE info.type = "SUB_PORT"
        <5>1. vlanBport[<<info.att, info.vlan>>] = b
          BY <1>1, <4>2 DEF Sound, Connected
        <5>2. <<bports[c].att, bports[c].vlan>> # <<info.att, info.vlan>>
          BY <3>1, <3>2, <3>3, <5>1
        <5>3. vlanBport' = [vlanBport EXCEPT ![<<info.att, info.vlan>>] = NoBPort]
          BY <4>2 DEF BpRemove, info
        <5> QED BY <3>2, <3>3, <5>2, <5>3
      <4> QED BY <1>2, <4>1, <4>2
    <3> QED BY <1>1, <3>1, <3>2, <3>3
  <2> QED BY <2>1 DEF Connected, TypeMatch
<1>8. BridgeCounts'
  <2>1. ASSUME NEW d \in Bridge \ {DefaultBridge}  PROVE Cardinality(OnBridge(d)') <= bridgeRef'[d]
    <3>1. Cardinality(OnBridge(d)) <= bridgeRef[d] /\ bridgeRef[d] \in Nat
      BY DEF Sound, BridgeCounts, TypeOK
    <3>2. bridgeRef'[d] = IF d = info.bridge THEN bridgeRef[d] - 1 ELSE bridgeRef[d]
      BY <1>1 DEF TypeOK
    <3>3. Cardinality(OnBridge(d)') = IF d = info.bridge THEN Cardinality(OnBridge(d)) - 1
                                      ELSE Cardinality(OnBridge(d))
      BY <1>1, OneLess DEF TypeOK
    <3> QED BY <3>1, <3>2, <3>3, OnFinite
  <2> QED BY <1>1, <2>1 DEF BridgeCounts, Sound
<1>9. TreeStep
  BY <1>1, DisconnectPlace DEF Sound
<1> QED BY <1>4, <1>5, <1>6, <1>7, <1>8, <1>9 DEF Sound, AttachmentsSound

---------------------------------------------------------------------------
(* The other steps                                                         *)

(* A handler that ends with nothing in the cache, or with a count leaked.  *)
LEMMA EndKept ==
  ASSUME TypeOK, Sound, Work, NEW t \in Thread,
         \/ BpAttachFail(t) \/ BpAttachLeak(t) \/ BpRemoveFail(t) \/ BpRemoveUncountable(t)
  PROVE  Kept
<1> USE DEF Kept, lagData, bridgeData
<1>a. \A d \in Bridge : bridgeRef[d] \in Nat
  BY DEF TypeOK
<1>1. CASE BpAttachFail(t)
  BY <1>1, <1>a DEF BpAttachFail
<1>2. CASE BpAttachLeak(t)
  <2>1. \A p \in Port : defBport'[p] = defBport[p]
    BY <1>2, AttachmentAssumption DEF BpAttachLeak, TypeOK, Attachment
  <2>2. \A d \in Bridge : bridgeRef'[d] >= bridgeRef[d]
    BY <1>2, <1>a DEF BpAttachLeak, TypeOK
  <2> QED BY <1>2, <2>1, <2>2 DEF BpAttachLeak
<1>3. CASE BpRemoveFail(t)
  BY <1>3, <1>a DEF BpRemoveFail
<1>4. CASE BpRemoveUncountable(t)
  <2>1. bpOp.info.type = "PORT" => bpOp.info.bridge = DefaultBridge
    BY <1>4 DEF BpRemoveUncountable, Work, Removing, Sound, Connected, TypeMatch
  <2>2. \A p \in Port : defBport'[p] = defBport[p]
    BY <1>4, AttachmentAssumption DEF BpRemoveUncountable, TypeOK, LagTypeOK, Attachment
  <2>3. \A d \in Bridge \ {DefaultBridge} : bridgeRef'[d] >= bridgeRef[d]
    BY <1>4, <1>a, <2>1 DEF BpRemoveUncountable, TypeOK
  <2> QED BY <1>4, <2>2, <2>3 DEF BpRemoveUncountable
<1> QED BY <1>1, <1>2, <1>3, <1>4

(* A handler on its way.                                                   *)
LEMMA WaySteps ==
  ASSUME TypeOK, Sound, Work, NEW t \in Thread,
         BpCall(t) \/ BpCreateTakeLag(t) \/ BpRemoveTakeLag(t) \/ BpCheck(t) \/ BpNpu(t)
  PROVE  Kept /\ Work'
<1> USE DEF Kept, lagData, bridgeData
<1>a. \A d \in Bridge : bridgeRef[d] \in Nat
  BY DEF TypeOK
<1>b. ASSUME NEW x \in BpPc, Goto(t, x), bridgeLock' = t, \A u \in Thread \ {t} : pc[u] \notin BpPc,
             x \in Creating => bpOp'.info \in BpInfo,
             x \in {"bpNpu", "bpAttach"} => Checked(bpOp.info)',
             x = "bpAttach" => bpOp'.bp \in BPort,
             x \in Removing => bpOp'.bp \in Cached' /\ bports'[bpOp'.bp] = bpOp'.info
      PROVE  Work'
  <2>1. \A u \in Thread : pc'[u] = IF u = t THEN x ELSE pc[u]
    BY <1>b DEF Goto, TypeOK
  <2>2. \A u \in Thread : pc'[u] \in BpPc => u = t
    BY <1>b, <2>1
  <2>3. \A u \in Thread :
          pc'[u] \in Creating \cup Removing \cup {"bpNpu", "bpAttach"} => pc'[u] \in BpPc
    BY DEF Creating, Removing, BpPc
  <2>4. ASSUME NEW u \in Thread, pc'[u] \in BpPc  PROVE u = t /\ pc'[u] = x
    BY <2>1, <2>2, <2>4
  <2>5. ASSUME NEW u \in Thread
        PROVE  /\ pc'[u] \in BpPc => bridgeLock' = u
               /\ pc'[u] \in Creating => bpOp'.info \in BpInfo
               /\ pc'[u] \in {"bpNpu", "bpAttach"} => Checked(bpOp.info)'
               /\ pc'[u] = "bpAttach" => bpOp'.bp \in BPort
               /\ pc'[u] \in Removing => bpOp'.bp \in Cached' /\ bports'[bpOp'.bp] = bpOp'.info
    BY <1>b, <2>3, <2>4
  <2> QED BY <2>5 DEF Work
<1>1. ASSUME NEW info \in BpInfo, NEW isLag \in BOOLEAN, BpCreateLock(t, info, isLag)
      PROVE  Kept /\ Work'
  <2>1. Kept
    BY <1>1, <1>a DEF BpCreateLock
  <2>2. PICK x \in {"bpCreateLag", "bpCheck"} : Goto(t, x)
    BY <1>1 DEF BpCreateLock
  <2>3. bridgeLock' = t /\ bpOp'.info = info /\ \A u \in Thread : pc[u] \notin BpPc
    BY <1>1, OneHandler DEF BpCreateLock, TakeBridgeLock
  <2>4. x \in BpPc /\ x \notin Removing /\ x \notin {"bpNpu", "bpAttach"}
    BY <2>2 DEF BpPc, Removing
  <2> QED BY <1>b, <2>1, <2>2, <2>3, <2>4
<1>2. ASSUME NEW b \in BPort, BpRemoveLock(t, b)  PROVE Kept /\ Work'
  <2>1. Kept
    BY <1>2, <1>a DEF BpRemoveLock
  <2>2. PICK x \in {"bpRemoveLag", "bpRemove"} : Goto(t, x)
    BY <1>2 DEF BpRemoveLock
  <2>3. /\ bridgeLock' = t /\ bpOp'.info = bports'[b] /\ bpOp'.bp = b /\ b \in Cached'
        /\ \A u \in Thread : pc[u] \notin BpPc
    BY <1>2, OneHandler DEF BpRemoveLock, TakeBridgeLock, Cached
  <2>4. x \in BpPc /\ x \notin Creating /\ x \notin {"bpNpu", "bpAttach"}
    BY <2>2 DEF BpPc, Creating
  <2> QED BY <1>b, <2>1, <2>2, <2>3, <2>4
<1>c. ASSUME pc[t] \in BpPc, bridgeLock' = bridgeLock
      PROVE  bridgeLock' = t /\ \A u \in Thread \ {t} : pc[u] \notin BpPc
  BY <1>c, OneHandler DEF Work
<1>3. CASE BpCreateTakeLag(t)
  <2>1. Kept /\ bpOp'.info = bpOp.info /\ Goto(t, "bpCheck") /\ bridgeLock' = bridgeLock
        /\ pc[t] = "bpCreateLag" /\ bpOp.info \in BpInfo
    BY <1>3, <1>a DEF BpCreateTakeLag, BpTakeLag, TypeOK, Work, Creating
  <2>2. "bpCheck" \in BpPc /\ "bpCheck" \notin Removing /\ pc[t] \in BpPc
    BY <2>1 DEF BpPc, Removing
  <2> QED BY <1>b, <1>c, <2>1, <2>2
<1>4. CASE BpRemoveTakeLag(t)
  <2>1. Kept /\ bpOp'.info = bpOp.info /\ bpOp'.bp = bpOp.bp /\ Goto(t, "bpRemove")
        /\ bridgeLock' = bridgeLock /\ pc[t] = "bpRemoveLag"
        /\ bpOp.bp \in Cached' /\ bports'[bpOp.bp] = bpOp.info
    BY <1>4, <1>a DEF BpRemoveTakeLag, BpTakeLag, TypeOK, Work, Removing, Cached
  <2>2. "bpRemove" \in BpPc /\ "bpRemove" \notin Creating /\ pc[t] \in BpPc
    BY <2>1 DEF BpPc, Creating
  <2> QED BY <1>b, <1>c, <2>1, <2>2
<1>5. CASE BpCheck(t)
  <2>1. Kept /\ pc[t] \in BpPc /\ bpOp.info \in BpInfo
    BY <1>5, <1>a DEF BpCheck, BpPc, Work, Creating
  <2>2. CASE BpValid(bpOp.info)
    <3>1. /\ bpOp' = bpOp /\ Goto(t, "bpNpu") /\ bridgeLock' = bridgeLock
          /\ UNCHANGED <<bridges, vlanBport, defBport>>
      BY <1>5, <2>2 DEF BpCheck
    <3>2. Checked(bpOp.info)'
      BY <2>1, <2>2, <3>1, InfoType DEF BpValid, FreeAttachment, Checked, TypeMatch
    <3>3. "bpNpu" \in BpPc /\ "bpNpu" \notin Removing
      BY DEF BpPc, Removing
    <3> QED BY <1>b, <1>c, <2>1, <3>1, <3>2, <3>3
  <2>3. CASE ~ BpValid(bpOp.info)
    BY <1>5, <2>1, <2>3, WorkEnds DEF BpCheck
  <2> QED BY <2>2, <2>3
<1>6. CASE BpNpu(t)
  <2>1. Kept /\ pc[t] \in BpPc /\ bpOp.info \in BpInfo /\ Checked(bpOp.info)
        /\ UNCHANGED <<bridges, vlanBport, defBport>>
    BY <1>6, <1>a DEF BpNpu, BpPc, Work, Creating
  <2>2. CASE BpReturn(t)
    BY <2>1, <2>2, WorkEnds
  <2>3. ASSUME NEW b \in BPort, bpOp' = [bpOp EXCEPT !.bp = b], Goto(t, "bpAttach"),
               bridgeLock' = bridgeLock
        PROVE  Work'
    <3>1. bpOp'.info = bpOp.info /\ bpOp'.bp = b
      BY <2>3 DEF TypeOK
    <3>2. Checked(bpOp.info)'
      BY <2>1, <3>1 DEF Checked, TypeMatch
    <3>3. "bpAttach" \in BpPc /\ "bpAttach" \notin Removing
      BY DEF BpPc, Removing
    <3> QED BY <1>b, <1>c, <2>1, <2>3, <3>1, <3>2, <3>3
  <2> QED BY <1>6, <2>1, <2>2, <2>3 DEF BpNpu
<1> QED BY <1>1, <1>2, <1>3, <1>4, <1>5, <1>6 DEF BpCall

(* LAG handlers, and their callback, keep the bridge component as it is.   *)
LEMMA LagPartInv ==
  ASSUME IInv, NEW t \in Thread, LagPart(t)
  PROVE  IInv' /\ TreeStep
<1> USE DEF IInv
<1>1. LagTypeOK' /\ pc' \in [Thread -> LagPc \cup BpPc] /\ Requests'
  BY LagTypesStep, LagRequests DEF LagPart, TypeOK
<1>2. PICK x \in LagPc : pc' = [pc EXCEPT ![t] = x]
  BY LagEffect DEF LagPart, TypeOK
<1>3. pc[t] \notin BpPc /\ \A l \in lags' : (l \in lags /\ lagRef'[l] = lagRef[l]) \/ lagRef'[l] = 0
  BY LagEffect DEF LagPart, TypeOK
<1>4. /\ UNCHANGED <<bridgeLock, bpOp, bridges, bridgeRef, bports, npuBports, npuMembers,
                     lagBports, vlanBport, portRef>>
      /\ defBport' \in [Attachment -> BPort \cup {NoBPort}]
  BY DEF LagPart, TypeOK
<1>5. TypeOK'
  BY <1>1, <1>4 DEF TypeOK
<1>6. ASSUME NEW p \in Port  PROVE defBport'[p] = defBport[p]
  <2>1. p \notin lags'
    BY <1>1, AttachmentAssumption DEF LagTypeOK
  <2>2. pc[t] = "removeNode" => p # lagReq[t].lag
    BY AttachmentAssumption DEF Requests, LagPc
  <2> QED BY <2>1, <2>2 DEF LagPart, Attachment
<1>7. Work'
  BY <1>2, <1>3, <1>4, <1>6, WorkAside
<1>8. Kept
  BY <1>3, <1>4, <1>6 DEF Kept, TypeOK
<1> QED BY <1>1, <1>5, <1>7, <1>8, KeptSound

LEMMA NotifyInv ==
  ASSUME IInv, NEW t \in Thread, BridgeLagNotify(t)
  PROVE  IInv' /\ TreeStep
<1> USE DEF IInv
<1>1. TypeOK'
  BY BridgeTypes DEF BpStep
<1>2. /\ pc[t] = "notify" /\ pc' = [pc EXCEPT ![t] = "idle"]
      /\ UNCHANGED <<bridgeLock, bpOp, bridges, bridgeRef, bports, defBport, vlanBport, portRef,
                     lagRef, lags>>
      /\ \A u \in Thread \ {t} : lagReq'[u] = lagReq[u]
  BY DEF BridgeLagNotify, Goto, lagData, TypeOK, LagTypeOK
<1>3. Requests'
  BY <1>2 DEF Requests, TypeOK
<1>4. pc[t] \notin BpPc /\ "idle" \in LagPc
  BY <1>2 DEF BpPc, LagPc
<1>5. Work'
  BY <1>2, <1>4, WorkAside
<1>6. Kept
  BY <1>2 DEF Kept, TypeOK
<1> QED BY <1>1, <1>3, <1>5, <1>6, KeptSound

(* A handler of the bridge port API.                                       *)
LEMMA BridgePortInv ==
  ASSUME IInv, NEW t \in Thread, BpCall(t) \/ BpStep(t)
  PROVE  IInv' /\ TreeStep
<1> USE DEF IInv
<1>1. CASE BridgeLagNotify(t)
  BY <1>1, NotifyInv
<1>2. CASE ~ BridgeLagNotify(t)
  <2>1. TypeOK'
    BY BridgeTypes
  <2>2. lagReq' = lagReq /\ \E x \in BpPc \cup {"idle"} : Goto(t, x)
    BY <1>2 DEF BpCall, BpStep, BpCreateLock, BpRemoveLock, BpCreateTakeLag, BpRemoveTakeLag,
       BpTakeLag, BpCheck, BpNpu, BpAttach, BpAttachFail, BpAttachLeak, BpRemove, BpRemoveFail,
       BpRemoveUncountable, BpReturn, BpPc
  <2>3. Requests'
    BY <2>2, RequestsKept
  <2>4. CASE BpAttach(t)
    <3>1. Work'
      BY <2>4, WorkEnds DEF BpAttach, BpPc
    <3> QED BY <2>1, <2>3, <2>4, <3>1, AttachSound
  <2>5. CASE BpRemove(t)
    <3>1. Work'
      BY <2>5, WorkEnds DEF BpRemove, BpPc
    <3> QED BY <2>1, <2>3, <2>5, <3>1, RemoveSound
  <2>6. CASE BpAttachFail(t) \/ BpAttachLeak(t) \/ BpRemoveFail(t) \/ BpRemoveUncountable(t)
    <3>1. Work'
      BY <2>6, WorkEnds DEF BpAttachFail, BpAttachLeak, BpRemoveFail, BpRemoveUncountable, BpPc
    <3> QED BY <2>1, <2>3, <2>6, <3>1, EndKept, KeptSound
  <2>7. CASE BpCall(t) \/ BpCreateTakeLag(t) \/ BpRemoveTakeLag(t) \/ BpCheck(t) \/ BpNpu(t)
    BY <2>1, <2>3, <2>7, WaySteps, KeptSound
  <2> QED BY <1>2, <2>4, <2>5, <2>6, <2>7 DEF BpStep
<1> QED BY <1>1, <1>2

(* Bridges are made and removed with no handler under way.                 *)
LEMMA BridgeInv ==
  ASSUME IInv, NEW d \in Bridge, BridgeCreate(d) \/ BridgeRemove(d)
  PROVE  IInv' /\ TreeStep
<1> USE DEF IInv
<1>1. /\ UNCHANGED <<lagVars, bridgeLock, bpOp, bports, npuBports, npuMembers, defBport,
                     lagBports, vlanBport, portRef>>
      /\ bridgeLock = NoThread
  BY DEF BridgeCreate, BridgeRemove
<1>2. TypeOK' /\ Requests'
  BY <1>1 DEF TypeOK, LagTypeOK, Requests, lagVars, lagData, BridgeCreate, BridgeRemove
<1>3. Work'
  <2>1. \A u \in Thread : pc'[u] \notin BpPc
    BY <1>1, OneHandler DEF lagVars
  <2> QED BY <2>1 DEF Work, Creating, Removing, BpPc
<1>4. /\ Cached' = Cached
      /\ \A a : On(a)' = On(a)
      /\ \A e : OnBridge(e)' = OnBridge(e)
  BY <1>1 DEF Cached, On, OnBridge
<1>5. AttachmentsSound'
  BY <1>1, <1>4 DEF Sound, AttachmentsSound, PortRefExact, LagRefNeverLeaks, OneDefaultBridgePort,
     lagVars, lagData
<1>6. \A p \in Attachment \X Vlan :
        BridgedBy'[p] = BridgedBy[p] /\ (BridgedBy[p] = d => OnBridge(d) # {})
  <2>1. ASSUME NEW p \in Attachment \X Vlan
        PROVE  BridgedBy'[p] = BridgedBy[p] /\ (BridgedBy[p] = d => OnBridge(d) # {})
    <3>1. Subs(p)' = Subs(p) /\ \A b \in Subs(p) : bports'[b] = bports[b]
      BY <1>1 DEF Subs, Cached
    <3>2. ASSUME BridgedBy[p] = d  PROVE OnBridge(d) # {}
      <4>1. Subs(p) # {}
        BY <3>2, BridgedByIs, BridgeAssumption
      <4>2. (CHOOSE b \in Subs(p) : TRUE) \in Subs(p)
        BY <4>1
      <4>3. bports[CHOOSE b \in Subs(p) : TRUE].bridge = d
        BY <3>2, <4>1, BridgedByIs
      <4> QED BY <4>2, <4>3 DEF OnBridge, Subs
    <3> QED BY <3>1, <3>2, PlaceKept
  <2> QED BY <2>1
<1>7. BridgedBy' = BridgedBy
  BY <1>6 DEF BridgedBy
<1>8. CASE BridgeCreate(d)
  <2>1. d \notin bridges /\ bridges' = bridges \cup {d} /\ bridgeRef' = [bridgeRef EXCEPT ![d] = 0]
    BY <1>8 DEF BridgeCreate
  <2>2. d # DefaultBridge /\ OnBridge(d) = {}
    BY <2>1 DEF Sound, BridgeCounts, Connected, OnBridge
  <2>3. BridgeCounts'
    <3>1. ASSUME NEW e \in Bridge \ {DefaultBridge}  PROVE Cardinality(OnBridge(e)) <= bridgeRef'[e]
      <4>1. bridgeRef'[e] = IF e = d THEN 0 ELSE bridgeRef[e]
        BY <2>1 DEF TypeOK
      <4>2. Cardinality(OnBridge(d)) = 0
        BY <2>2, FS_EmptySet
      <4>3. Cardinality(OnBridge(e)) <= bridgeRef[e]
        BY DEF Sound, BridgeCounts
      <4> QED BY <4>1, <4>2, <4>3
    <3> QED BY <1>4, <2>1, <3>1 DEF Sound, BridgeCounts
  <2>4. Connected'
    BY <1>1, <1>4, <2>1 DEF Sound, Connected, TypeMatch
  <2>5. Tree!AddBridge(d)
    BY <1>7, <2>1, <2>2 DEF Tree!AddBridge
  <2> QED BY <1>2, <1>3, <1>5, <2>2, <2>3, <2>4, <2>5 DEF Sound, TreeStep, Tree!TreeNext
<1>9. CASE BridgeRemove(d)
  <2>1. /\ d \in bridges /\ d # DefaultBridge /\ bridgeRef[d] = 0 /\ bridgeRef' = bridgeRef
        /\ bridges' = bridges \ {d}
    BY <1>9 DEF BridgeRemove, BridgeRemovable
  <2>2. OnBridge(d) = {}
    <3>1. Cardinality(OnBridge(d)) = 0
      BY <2>1, OnFinite DEF Sound, BridgeCounts
    <3> QED BY <3>1, OnFinite, FS_EmptySet
  <2>3. BridgeCounts'
    BY <1>4, <2>1 DEF Sound, BridgeCounts
  <2>4. Connected'
    BY <1>1, <1>4, <2>1, <2>2 DEF Sound, Connected, TypeMatch, OnBridge
  <2>5. Tree!DropBridge(d)
    BY <1>6, <1>7, <2>1, <2>2 DEF Tree!DropBridge
  <2> QED BY <1>2, <1>3, <1>5, <2>1, <2>3, <2>4, <2>5 DEF Sound, TreeStep, Tree!TreeNext
<1> QED BY <1>8, <1>9

---------------------------------------------------------------------------
(* The theorems                                                            *)

LEMMA InvInit == Init => IInv /\ Tree!TreeInit
<1> SUFFICES ASSUME Init  PROVE IInv /\ Tree!TreeInit
  OBVIOUS
<1>1. Cached = {}
  BY DEF Init, Cached
<1>2. /\ \A a : On(a) = {} /\ Cardinality(On(a)) = 0
      /\ \A d : OnBridge(d) = {} /\ Cardinality(OnBridge(d)) = 0
  BY <1>1, FS_EmptySet DEF On, OnBridge
<1>3. TypeOK
  BY BridgeAssumption DEF Init, LagInit, TypeOK, LagTypeOK, LagReq, NoReq, LagOper, NoOp, LagPc
<1>4. Requests /\ Work
  BY DEF Init, LagInit, Requests, Work, BpPc, Creating, Removing
<1>5. Sound
  BY <1>1, <1>2, BridgeAssumption DEF Init, LagInit, Sound, AttachmentsSound, PortRefExact,
     LagRefNeverLeaks, OneDefaultBridgePort, Connected, BridgeCounts
<1>6. BridgedBy = [p \in Attachment \X Vlan |-> NoBridge]
  BY <1>1 DEF BridgedBy
<1> QED BY <1>3, <1>4, <1>5, <1>6 DEF IInv, Tree!TreeInit, Init

LEMMA InvStep ==
  ASSUME IInv, [Next]_vars
  PROVE  IInv' /\ TreeStep
<1>1. CASE UNCHANGED vars
  <2>1. Kept /\ TypeOK' /\ Requests' /\ Work'
    BY <1>1 DEF vars, lagVars, lagData, bridgeVars, bridgeData, Kept, IInv, TypeOK, LagTypeOK,
       Requests, Work, Checked, TypeMatch, Cached
  <2> QED BY <2>1, KeptSound DEF IInv
<1>2. CASE Next
  BY <1>2, LagPartInv, BridgePortInv, BridgeInv DEF Next
<1> QED BY <1>1, <1>2

LEMMA Invariance == Spec => []IInv
<1>1. IInv /\ [Next]_vars => IInv'
  BY InvStep
<1> QED BY <1>1, InvInit, PTL DEF Spec

(* The state of the bridge and LAG components stays well typed: no count   *)
(* of bridge ports goes below zero (sai_bridge.c:477, 560).                *)
THEOREM BridgeTypeCorrect == Spec => []TypeOK
BY Invariance, PTL DEF IInv

(* Ports and LAGs agree with the bridge ports on them, whichever calls     *)
(* failed and whatever LAGs were removed meanwhile (sai_bridge.c:240-252,  *)
(* 477, 560, 1041-1051, 1176-1195).                                        *)
THEOREM AttachmentsAgree == Spec => []AttachmentsSound
BY Invariance, PTL DEF IInv, Sound

(* Bridge ports, created and removed by any number of threads beside LAG   *)
(* handlers, do to the outside what BridgeTree promises: a place is        *)
(* bridged once, and a bridge goes when nothing is connected to it.        *)
THEOREM TreeRefinement == Spec => ImplementsBridgeTree
<1>1. IInv /\ [Next]_vars => TreeStep
  BY InvStep
<1> QED BY <1>1, InvInit, Invariance, PTL DEF Spec, ImplementsBridgeTree, Tree!TreeSpec, TreeStep

=============================================================================
