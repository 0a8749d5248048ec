------------------------------ MODULE QosWred ------------------------------
(* WRED profiles and the queues and buffer pools they are applied to:      *)
(* src/qos/sai_qos_wred.c, with the calls sai_qos_buffer.c and             *)
(* sai_qos_queue.c make of it.  Every handler runs under the QoS lock, so  *)
(* each is one action.  Port pools are linked by the same code as buffer   *)
(* pools and are left out.                                                 *)
EXTENDS Integers, FiniteSets

CONSTANTS Wred, WQueue, WPool,   \* ids of profiles, queues, buffer pools
          WVal,                  \* what the thresholds of a profile may be
          NoWred, NoWPool, NoWVal,
          WredIsHw               \* wred_is_hw_object() of the NPU

(* No profile and no pool has the null id.                                 *)
ASSUME WredAssumption == NoWred \notin Wred /\ NoWPool \notin WPool

VARIABLES
  wreds,      \* profiles in the tree
  wcfg,       \* their attributes: thresholds, ECN mode, colours marked
  lk,         \* links: wred id of a target, lists of a profile, NPU, cache mark
  dangling,   \* profiles whose list still holds a freed pool
  wpools,     \* buffer pools in the tree
  poolOf      \* the pool of a queue's buffer profile

wredVars == <<wreds, wcfg, lk, dangling, wpools, poolOf>>

Target == WQueue \cup WPool
WCfg == [val : WVal, ecn : WVal, marked : WVal]
Links == [of : [Target -> Wred \cup {NoWred}], list : [Wred -> SUBSET Target],
          npu : [Target -> WVal \cup {NoWVal}], cached : SUBSET WPool]

(* The queues whose buffer profile is in a pool                            *)
QueuesOf(p) == {q \in WQueue : poolOf[q] = p}

(* The NPU has nothing to apply a pool's WRED to while no queue is in the  *)
(* pool and answers NOT_EXECUTED then; otherwise it does it or refuses.    *)
NpuAnswer(t) == IF t \in WPool /\ QueuesOf(t) = {} THEN {"deferred", "refused"}
                                                   ELSE {"done", "refused"}

(* sai_wred_link_node_add and _delete: out of the old profile's list, into *)
(* the new one's, and the id in the node.                                  *)
Relink(l, t, w) ==
  [l EXCEPT !.of[t] = w,
            !.list = [x \in Wred |-> IF x = w THEN @[x] \cup {t} ELSE @[x] \ {t}]]

(* The software cache mark: set when the NPU deferred, cleared when it did *)
Mark(l, t, answer) ==
  [l EXCEPT !.cached = IF t \notin WPool THEN @
                       ELSE IF answer = "deferred" THEN @ \cup {t} ELSE @ \ {t}]

(* sai_qos_wred_link_set: a refusal leaves all as it was, a deferral is    *)
(* a success that marks the link.                                          *)
LinkSet(l, t, w, answer) ==
  IF answer = "refused" THEN l
  ELSE Mark(Relink([l EXCEPT !.npu[t] = IF answer = "deferred" THEN @
                                        ELSE IF w = NoWred THEN NoWVal
                                        ELSE wcfg[w].val], t, w), t, answer)

(* sai_qos_wred_is_object_in_use                                           *)
WredInUse(w) == lk.list[w] # {} \/ w \in dangling

(* sai_qos_wred_attr_set: the colours are marked by the mode the profile   *)
(* had, and the new mode is stored afterwards.                             *)
WithAttr(c, attr) ==
  IF attr.id = "ecn" THEN [c EXCEPT !.marked = c.ecn, !.ecn = attr.value]
                     ELSE [c EXCEPT !.val = attr.value]
WAttr == [id : {"ecn", "threshold"}, value : WVal]

(* sai_qos_wred_create; a refused or failed creation leaves no trace.      *)
CreateWred(w) ==
  /\ w \notin wreds
  /\ wreds' = wreds \cup {w}
  /\ \E v \in WVal, attr \in WAttr :
       wcfg' = [wcfg EXCEPT ![w] = WithAttr([val |-> v, ecn |-> v, marked |-> v], attr)]
  /\ UNCHANGED <<lk, dangling, wpools, poolOf>>

(* sai_qos_wred_remove *)
RemoveWred(w) ==
  /\ w \in wreds
  /\ ~WredInUse(w)
  /\ wreds' = wreds \ {w}
  /\ UNCHANGED <<wcfg, lk, dangling, wpools, poolOf>>

(* What sai_wred_update_link makes of the links of one type: all follow    *)
(* the new profile, or one is refused and sai_wred_link_error_recovery     *)
(* sets links back to the old profile until the NPU refuses that too.      *)
Applied(targets) ==
  LET doable == {t \in targets : "done" \in NpuAnswer(t)} IN
  {[new |-> s, old |-> {}, ok |-> TRUE] : s \in {targets} \cap {doable}}
  \cup UNION {{[new |-> s, old |-> o, ok |-> FALSE] : o \in SUBSET (doable \ s)} :
               s \in (SUBSET doable) \ {targets}}

(* sai_qos_wred_attribute_set.  A refusal for one type of link only ends   *)
(* the loop over that type, and its status is lost when a later type has   *)
(* links.                                                                  *)
SetWred(w) ==
  /\ w \in wreds
  /\ \E attr \in WAttr : LET new == WithAttr(wcfg[w], attr) IN
       IF WredIsHw
       THEN /\ wcfg' = [wcfg EXCEPT ![w] = new]
            /\ UNCHANGED lk
       ELSE \E a \in Applied(lk.list[w] \cap WQueue), b \in Applied(lk.list[w] \cap WPool) :
              /\ lk' = [lk EXCEPT !.npu = [t \in Target |->
                          IF t \in a.new \cup b.new THEN new.val
                          ELSE IF t \in a.old \cup b.old THEN wcfg[w].val ELSE @[t]]]
              /\ wcfg' = IF (IF lk.list[w] \cap WPool = {} THEN a.ok ELSE b.ok)
                         THEN [wcfg EXCEPT ![w] = new] ELSE wcfg
  /\ UNCHANGED <<wreds, dangling, wpools, poolOf>>

(* WRED profile of a queue (sai_qos_queue_attribute_set) or of a pool      *)
(* (sai_qos_buffer_pool_attr_set) set or reset                             *)
SetLink(t, w) ==
  /\ t \in WQueue \cup wpools
  /\ w \in wreds \cup {NoWred}
  /\ w # lk.of[t]
  /\ \E answer \in NpuAnswer(t) : lk' = LinkSet(lk, t, w, answer)
  /\ UNCHANGED <<wreds, wcfg, dangling, wpools, poolOf>>

(* sai_qos_create_buffer_pool: the pool enters the tree and its WRED is    *)
(* linked; if that is refused the pool leaves the tree and the NPU.        *)
CreateWPool(p, w) ==
  /\ p \notin wpools
  /\ w \in wreds \cup {NoWred}
  /\ \E answer \in {"deferred", "refused"} :
       /\ wpools' = IF w # NoWred /\ answer = "refused" THEN wpools ELSE wpools \cup {p}
       /\ lk' = IF w = NoWred THEN lk ELSE LinkSet(lk, p, w, answer)
  /\ UNCHANGED <<wreds, wcfg, dangling, poolOf>>

(* sai_qos_remove_buffer_pool: no profile is in the pool.  The node is     *)
(* freed, and what lists it keeps it.                                      *)
RemoveWPool(p) ==
  /\ p \in wpools
  /\ QueuesOf(p) = {}
  /\ wpools' = wpools \ {p}
  /\ dangling' = dangling \cup ({lk.of[p]} \ {NoWred})
  /\ lk' = [Mark(Relink(lk, p, NoWred), p, "done") EXCEPT !.npu[p] = NoWVal]
  /\ UNCHANGED <<wreds, wcfg, poolOf>>

(* sai_qos_wred_link_update_cache: the last queue is about to leave its    *)
(* pool, whose WRED is taken from the NPU and marked as cached.            *)
UpdateCache(l, q, answer) ==
  IF \/ poolOf[q] = NoWPool
     \/ l.of[poolOf[q]] = NoWred
     \/ QueuesOf(poolOf[q]) # {q}
     \/ answer = "refused"
  THEN l
  ELSE [l EXCEPT !.npu[poolOf[q]] = NoWVal, !.cached = @ \cup {poolOf[q]}]

(* sai_qos_wred_link_apply_cache: a queue has joined a pool whose WRED is  *)
(* cached: it is applied now.                                              *)
ApplyCache(l, p, answer) ==
  IF p \notin l.cached THEN l ELSE LinkSet(l, p, l.of[p], answer)

(* sai_qos_queue_attribute_set of the buffer profile: what the cache calls *)
(* return is ignored, and the profile may stay the old one.                *)
SetQueuePool(q, p) ==
  /\ p \in wpools \cup {NoWPool}
  /\ p # poolOf[q]
  /\ \E moved \in BOOLEAN, leave, join \in {"done", "refused"} :
       /\ poolOf' = IF moved THEN [poolOf EXCEPT ![q] = p] ELSE poolOf
       /\ lk' = ApplyCache(UpdateCache(lk, q, leave), poolOf'[q], join)
  /\ UNCHANGED <<wreds, wcfg, dangling, wpools>>

(* sai_qos_queue_remove_configs: buffer profile, then WRED of a queue that *)
(* goes.  If the first is refused the cache is not applied again; if the   *)
(* WRED or the scheduler that follows is refused, what was taken is set    *)
(* again as far as the NPU lets it.                                        *)
ReleaseQueue(q) ==
  /\ \E freed, back, sched \in BOOLEAN, leave, reset, join, again \in {"done", "refused"} :
       LET left   == UpdateCache(lk, q, leave)
           unwred == IF lk.of[q] = NoWred THEN left ELSE LinkSet(left, q, NoWred, reset)
           undone == reset = "refused" /\ lk.of[q] # NoWred
           joined == IF back THEN ApplyCache(unwred, poolOf[q], join) ELSE unwred
       IN IF poolOf[q] # NoWPool /\ ~freed
          THEN lk' = left /\ UNCHANGED poolOf
          ELSE IF undone \/ ~sched
          THEN /\ poolOf' = IF back THEN poolOf ELSE [poolOf EXCEPT ![q] = NoWPool]
               /\ lk' = IF lk.of[q] = NoWred \/ undone THEN joined
                         ELSE LinkSet(joined, q, lk.of[q], again)
          ELSE lk' = unwred /\ poolOf' = [poolOf EXCEPT ![q] = NoWPool]
  /\ UNCHANGED <<wreds, wcfg, dangling, wpools>>

(* A buffer profile changes its pool (sai_qos_buffer_profile_attr_set):    *)
(* its queues follow and no cache is updated or applied.                   *)
MoveProfile(queues, p) ==
  /\ p \in wpools
  /\ \E from \in wpools \ {p} : queues \subseteq QueuesOf(from) /\ queues # {}
  /\ poolOf' = [q \in WQueue |-> IF q \in queues THEN p ELSE poolOf[q]]
  /\ UNCHANGED <<wreds, wcfg, lk, dangling, wpools>>

WredInit ==
  /\ wreds = {} /\ wpools = {} /\ dangling = {}
  /\ wcfg \in {[w \in Wred |-> [val |-> v, ecn |-> v, marked |-> v]] : v \in WVal}
  /\ lk = [of |-> [t \in Target |-> NoWred], list |-> [w \in Wred |-> {}],
           npu |-> [t \in Target |-> NoWVal], cached |-> {}]
  /\ poolOf = [q \in WQueue |-> NoWPool]

WredNext ==
  \/ \E w \in Wred : CreateWred(w) \/ RemoveWred(w) \/ SetWred(w)
  \/ \E t \in Target, w \in Wred \cup {NoWred} : SetLink(t, w)
  \/ \E p \in WPool : (\E w \in Wred \cup {NoWred} : CreateWPool(p, w)) \/ RemoveWPool(p)
  \/ \E q \in WQueue : ReleaseQueue(q) \/ \E p \in WPool \cup {NoWPool} : SetQueuePool(q, p)
  \/ \E p \in WPool, queues \in SUBSET WQueue : MoveProfile(queues, p)

WredSpec == WredInit /\ [][WredNext]_wredVars

---------------------------------------------------------------------------
WredTypeOK ==
  /\ wreds \subseteq Wred /\ wpools \subseteq WPool /\ dangling \subseteq Wred
  /\ wcfg \in [Wred -> WCfg]
  /\ lk \in Links
  /\ poolOf \in [WQueue -> WPool \cup {NoWPool}]

(* A queue or pool that names a WRED profile is in the list of that        *)
(* profile and of no other, and the profile exists: what                   *)
(* sai_qos_wred_remove decides from the lists cannot free a profile that a *)
(* node still names, however links were set, replaced, deferred, refused   *)
(* or taken back (sai_qos_wred.c:376, 613-725).                            *)
WredLinks ==
  /\ \A t \in Target : lk.of[t] # NoWred => lk.of[t] \in wreds
  /\ \A t \in Target, w \in Wred : t \in lk.list[w] <=> lk.of[t] = w

(* "If still cache is marked then this must be the first Queue associated  *)
(* to the pool" (sai_qos_wred.c:880): a pool whose WRED is held back has   *)
(* no queue.  A buffer profile that changes its pool, and a refused        *)
(* removal of a queue, break it.                                           *)
CachedPoolHasNoQueue == \A p \in lk.cached : QueuesOf(p) = {}
===========================================================================
