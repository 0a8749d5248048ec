------------------------------ MODULE QosSched ------------------------------
(* Scheduler profiles and the scheduler tree of a port: sai_qos_scheduler.c *)
(* and sai_qos_scheduler_util.c, sai_qos_sched_group.c, the scheduler and   *)
(* parent of a queue (sai_qos_queue.c), and sai_qos_hierarchy.c.  All runs  *)
(* under the QoS lock: a handler is one action, and a hierarchy that is     *)
(* built or torn down is a job of which no other call sees the middle.      *)
EXTENDS Integers, FiniteSets

CONSTANTS Sched, Default,      \* profile ids, and the default profile's
          SGroup, SQueue,      \* ids of scheduler groups and queues
          SPort, SVal,         \* the port; what the attributes of a profile may be
          TopGroup, LeafGroup, LeafQueue,   \* nodes of the default hierarchy
          MaxLevels,           \* sai_switch_max_hierarchy_levels_get()
          NoSched, NoSVal, NoPar,
          SchedIsHw            \* scheduler_is_hw_object() of the NPU

ASSUME SchedAssumption ==
  /\ Default \in Sched /\ NoSched \notin Sched
  /\ SGroup \cap SQueue = {} /\ SPort \notin SGroup \cup SQueue
  /\ {TopGroup, LeafGroup} \subseteq SGroup /\ LeafQueue \in SQueue
  /\ NoPar \notin SGroup \cup {SPort} /\ MaxLevels \in Nat

VARIABLES
  scheds,    \* profiles in the tree
  pval,      \* their attributes
  users,     \* the lists of a profile: ports, groups and queues
  torn,      \* ghost: profiles a set of which was refused half way
  live,      \* nodes in use: groups and queues in their trees, and the port
  stale,     \* freed nodes that are still in a tree
  tree,      \* level of a group; parent_id of a node; children of a group
  schedOf,   \* scheduler_id of a node
  npu,       \* the attributes a node runs with
  job,       \* what holds the lock: "init", "deinit", "create"
  app        \* is_app_hqos_init

schedVars == <<scheds, pval, users, torn, live, stale, tree, schedOf, npu, job, app>>
treeVars  == <<live, stale, tree, app>>

SNode == SGroup \cup SQueue \cup {SPort}
Groups == live \cap SGroup
Level(g) == IF g = SPort THEN -1 ELSE tree.level[g]

(* sai_qos_scheduler_is_in_use: it has a queue, a group or a port.         *)
SchedInUse(s) == users[s] # {}

(* The lists of scheduler_queue_, _sched_group_ and _port_list_update: the *)
(* default profile keeps none.                                             *)
ListUpdate(us, n, old, new) ==
  [s \in Sched |-> IF s = Default THEN us[s]
                   ELSE IF s = new THEN us[s] \cup {n}
                   ELSE IF s = old THEN us[s] \ {n} ELSE us[s]]

OrDefault(s) == IF s = NoSched THEN Default ELSE s

(* sai_qos_queue_scheduler_set, sai_qos_sched_group_scheduler_set and      *)
(* sai_qos_port_scheduler_set: both profiles must exist and the NPU agree. *)
CanSetSched(n, s) ==
  /\ OrDefault(s) \in scheds
  /\ n # SPort => schedOf[n] \in scheds \cup {NoSched}

SchedulerSet(n, s) ==
  /\ users' = ListUpdate(users, n, schedOf[n], OrDefault(s))
  /\ schedOf' = [schedOf EXCEPT ![n] = OrDefault(s)]
  /\ npu' = [npu EXCEPT ![n] = pval[OrDefault(s)]]

---------------------------------------------------------------------------
(* sai_qos_scheduler_create; a failure leaves no trace                     *)
CreateSched(s) ==
  /\ job = "none" /\ s \notin scheds
  /\ scheds' = scheds \cup {s}
  /\ \E v \in SVal : pval' = [pval EXCEPT ![s] = v]
  /\ torn' = torn \ {s}
  /\ UNCHANGED <<users, schedOf, npu, job, treeVars>>

(* sai_qos_scheduler_remove *)
RemoveSched(s) ==
  /\ job = "none" /\ s \in scheds
  /\ ~SchedInUse(s)
  /\ scheds' = scheds \ {s}
  /\ pval' = [pval EXCEPT ![s] = NoSVal]
  /\ UNCHANGED <<users, torn, schedOf, npu, job, treeVars>>

(* Mutant: the error of a node that refuses is lost                        *)
ReappliedErrorLost(all) == {[ok |-> TRUE, new |-> kept] : kept \in SUBSET all}

(* What sai_qos_scheduler_reapply leaves: queues, then groups, then the    *)
(* port take the new attributes; after a refusal those that took them are  *)
(* set back, class by class, until that is refused too.                    *)
Class(n) == IF n \in SQueue THEN 1 ELSE IF n \in SGroup THEN 2 ELSE 3
Reapplied(all) ==
  {[ok |-> TRUE, new |-> all]} \cup
  UNION {{[ok |-> FALSE, new |-> kept] :
             kept \in SUBSET {n \in all \ {bad} : Class(n) <= Class(bad)}} : bad \in all}

(* sai_qos_scheduler_attribute_set.  The node takes the attribute even     *)
(* when it could not be applied again (489), so a retry is a duplicate.    *)
SetSchedAttr(s) ==
  /\ job = "none" /\ s \in scheds
  /\ \E v \in SVal \ {pval[s]} :
       /\ pval' = [pval EXCEPT ![s] = v]
       /\ IF SchedIsHw
          THEN /\ npu' = [n \in SNode |-> IF n \in live /\ schedOf[n] = s THEN v ELSE npu[n]]
               /\ UNCHANGED torn
          ELSE \E r \in Reapplied(users[s]) :
                 /\ npu' = [n \in SNode |-> IF n \in r.new THEN v ELSE npu[n]]
                 /\ torn' = IF r.ok THEN torn \ {s} ELSE torn \cup {s}
  /\ UNCHANGED <<scheds, users, schedOf, job, treeVars>>

Listed(n) == schedOf[n] \in {NoSched, Default} \cup {s \in Sched : n \in users[s]}

(* The scheduler of a queue, a group or the port is set.  A top group that *)
(* was created with a profile is in no list of it; to take it out is       *)
(* undefined and is left out.                                              *)
SetNodeSched(n, s) ==
  /\ job = "none" /\ n \in live
  /\ OrDefault(s) # schedOf[n]
  /\ CanSetSched(n, s)
  /\ Listed(n)
  /\ SchedulerSet(n, s)
  /\ UNCHANGED <<scheds, pval, torn, job, treeVars>>

---------------------------------------------------------------------------
(* The children of a group after sai_qos_sched_group_and_child_nodes_update *)
Adopt(kids, p, n)  == IF p \in SGroup THEN [kids EXCEPT ![p] = @ \cup {n}] ELSE kids
Disown(kids, p, n) == IF p \in SGroup THEN [kids EXCEPT ![p] = @ \ {n}] ELSE kids

(* A node enters its tree under p; its scheduler is set last.  A top group *)
(* takes part in neither.                                                  *)
Attached(n, p, lvl, s) ==
  /\ live' = live \cup {n}
  /\ tree' = [level |-> IF n \in SGroup THEN [tree.level EXCEPT ![n] = lvl] ELSE tree.level,
              par |-> [tree.par EXCEPT ![n] = p],
              kids |-> IF lvl = 0 THEN tree.kids ELSE Adopt(tree.kids, p, n)]
  /\ IF lvl = 0 THEN /\ schedOf' = [schedOf EXCEPT ![n] = s]
                     /\ UNCHANGED <<users, npu>>
     ELSE /\ users' = ListUpdate(users, n, NoSched, OrDefault(s))
          /\ schedOf' = [schedOf EXCEPT ![n] = OrDefault(s)]
          /\ npu' = [npu EXCEPT ![n] = pval[OrDefault(s)]]
  /\ UNCHANGED stale

(* A creation that fails once the node is in the tree frees the node       *)
(* without taking it out (sai_qos_sched_group_free_resources,              *)
(* sai_qos_queue_free_resources).                                          *)
FreedInTree(n) ==
  /\ stale' = stale \cup {n}
  /\ UNCHANGED <<live, tree, users, schedOf, npu>>

(* sai_qos_sched_group_create_internal, sai_qos_queue_create_internal.  An *)
(* id of which a freed node is still in a list or tree does not come back. *)
CreateNode(n, p, s) ==
  /\ n \notin live \cup stale \cup UNION {users[x] : x \in Sched}
  /\ p \in Groups \cup {SPort}
  /\ n \in SQueue => p # SPort
  /\ s \in scheds \cup {NoSched}
  /\ LET lvl == IF n \in SGroup THEN Level(p) + 1 ELSE 1 IN
       /\ lvl < MaxLevels
       /\ \/ /\ (lvl = 0 \/ OrDefault(s) \in scheds)
             /\ Attached(n, p, lvl, s)
          \/ /\ lvl # 0
             /\ FreedInTree(n)
  /\ UNCHANGED <<scheds, pval, torn>>

(* sai_qos_sched_group_remove_internal, sai_qos_queue_remove_internal: the *)
(* scheduler is reset, the node is detached, leaves the children of its    *)
(* parent and goes; each of these steps may be refused, with those before  *)
(* it done.  stage is the last one done.  The scheduler of a top group is  *)
(* not reset (81): a profile that was set on it keeps the freed node.      *)
RemoveNode(n, stage) ==
  LET top   == n \in SGroup /\ Level(n) = 0
      reset == ~top /\ schedOf[n] \notin {NoSched, Default}
      went  == stage = "gone"
  IN /\ n \in live \ {SPort}
     /\ n \in SGroup => tree.kids[n] = {}
     /\ reset => CanSetSched(n, NoSched)
     /\ ~top /\ stage # "reset" => tree.par[n] \in live
     /\ users' = IF reset THEN ListUpdate(users, n, schedOf[n], Default) ELSE users
     /\ schedOf' = [schedOf EXCEPT ![n] = IF went THEN NoSched ELSE IF reset THEN Default ELSE @]
     /\ npu' = [npu EXCEPT ![n] = IF went THEN NoSVal ELSE IF reset THEN pval[Default] ELSE @]
     /\ tree' = IF top \/ stage = "reset" THEN tree
                ELSE [tree EXCEPT !.kids = Disown(@, tree.par[n], n),
                                  !.par[n] = IF went THEN NoPar ELSE @]
     /\ live' = IF went THEN live \ {n} ELSE live
     /\ UNCHANGED <<scheds, pval, torn, stale>>

Stage == {"reset", "detached", "gone"}

(* sai_qos_sched_group_modify_parent, sai_qos_queue_modify_parent: groups  *)
(* keep their level, and the NPU takes no group under one of its own.      *)
MoveNode(n, p) ==
  /\ job = "none" /\ n \in live \ {SPort} /\ p \in Groups
  /\ tree.par[n] \in Groups /\ p # tree.par[n]
  /\ n \in SGroup => Level(p) < Level(n)
  /\ tree' = [tree EXCEPT !.par[n] = p,
                          !.kids = Adopt(Disown(@, tree.par[n], n), p, n)]
  /\ UNCHANGED <<scheds, pval, users, torn, live, stale, schedOf, npu, job, app>>

(* sai_qos_queue_create, sai_qos_sched_group_create_api and their removals *)
CreateQueue(n, p, s) ==
  /\ job = "none" /\ n \in SQueue
  /\ CreateNode(n, p, s) /\ UNCHANGED <<job, app>>
CreateGroup(n, p, s) ==
  /\ n \in SGroup
  /\ job \in {"create"} \cup IF app THEN {"none"} ELSE {}
  /\ CreateNode(n, p, s)
  /\ job' = "none" /\ UNCHANGED app
RemoveOne(n) ==
  /\ job = "none" /\ \E stage \in Stage : RemoveNode(n, stage)
  /\ UNCHANGED <<job, app>>

(* sai_qos_port_application_sched_group_handle: before the application's   *)
(* first group the hierarchy the port has goes.                            *)
FirstGroup ==
  /\ job = "none" /\ ~app /\ job' = "deinit"
  /\ UNCHANGED <<scheds, pval, users, torn, schedOf, npu, treeVars>>

(* sai_qos_leaf_level_hierarchy_remove, then the groups level by level; at *)
(* the first refusal the creation fails.                                   *)
Deinit ==
  /\ job = "deinit"
  /\ \E n \in live \ {SPort}, stage \in Stage :
       /\ n \in SGroup => live \cap SQueue = {} /\ \A g \in Groups : Level(g) <= Level(n)
       /\ RemoveNode(n, stage)
       /\ job' = IF stage = "gone" THEN "deinit" ELSE "none"
  /\ UNCHANGED app
DeinitFails ==
  /\ job \in {"deinit", "create"} /\ job' = "none"
  /\ UNCHANGED <<scheds, pval, users, torn, schedOf, npu, treeVars>>
DeinitDone ==
  /\ job = "deinit" /\ live = {SPort}
  /\ app' = TRUE /\ job' = "create"
  /\ UNCHANGED <<scheds, pval, users, torn, schedOf, npu, live, stale, tree>>

(* sai_qos_port_hierarchy_create: what it built stays when a step fails    *)
DefaultParent(n) ==
  IF n = TopGroup THEN SPort ELSE IF n = LeafGroup THEN TopGroup ELSE LeafGroup
InitHierarchy ==
  /\ job = "init"
  /\ \E n \in {TopGroup, LeafGroup, LeafQueue} \ live :
       /\ DefaultParent(n) \in live
       /\ CreateNode(n, DefaultParent(n), Default)
       /\ job' = IF n = LeafQueue \/ n \notin live' THEN "none" ELSE "init"
  /\ UNCHANGED app

SchedInit ==
  /\ scheds = {Default}
  /\ \E v \in SVal : pval = [s \in Sched |-> IF s = Default THEN v ELSE NoSVal]
  /\ users = [s \in Sched |-> {}] /\ torn = {}
  /\ live = {SPort} /\ stale = {}
  /\ tree = [level |-> [g \in SGroup |-> 0], par |-> [n \in SNode |-> NoPar],
             kids |-> [g \in SGroup |-> {}]]
  /\ schedOf = [n \in SNode |-> NoSched] /\ npu = [n \in SNode |-> NoSVal]
  /\ job = "init" /\ app = FALSE

SchedNext ==
  \/ \E s \in Sched : CreateSched(s) \/ RemoveSched(s) \/ SetSchedAttr(s)
  \/ \E n \in SNode, s \in Sched \cup {NoSched} : SetNodeSched(n, s)
  \/ \E n \in SNode, p \in SGroup \cup {SPort}, s \in Sched \cup {NoSched} :
       CreateQueue(n, p, s) \/ CreateGroup(n, p, s)
  \/ \E n \in SNode : RemoveOne(n) \/ \E p \in SGroup : MoveNode(n, p)
  \/ FirstGroup \/ Deinit \/ DeinitFails \/ DeinitDone \/ InitHierarchy

SchedSpec == SchedInit /\ [][SchedNext]_schedVars

---------------------------------------------------------------------------
SchedTypeOK ==
  /\ scheds \subseteq Sched /\ torn \subseteq Sched
  /\ pval \in [Sched -> SVal \cup {NoSVal}]
  /\ users \in [Sched -> SUBSET SNode]
  /\ live \subseteq SNode /\ stale \subseteq SNode /\ live \cap stale = {}
  /\ tree \in [level : [SGroup -> 0..MaxLevels], par : [SNode -> SGroup \cup {SPort, NoPar}],
               kids : [SGroup -> SUBSET SNode]]
  /\ schedOf \in [SNode -> Sched \cup {NoSched}]
  /\ npu \in [SNode -> SVal \cup {NoSVal}]
  /\ job \in {"none", "init", "deinit", "create"} /\ app \in BOOLEAN

IsTop(n) == n \in SGroup /\ Level(n) = 0

(* A profile other than the default one that a node below the top names is *)
(* in the tree and lists that node, and lists no other such node, whatever *)
(* was set, refused, reset or freed: sai_qos_scheduler_remove goes by the  *)
(* lists alone (sai_qos_scheduler.c:51-73, 552-698).  A top group is left  *)
(* out: one that was created with a profile is not in its list, and one    *)
(* that is removed stays in it (sai_qos_sched_group.c:81, 562).            *)
SchedListed ==
  /\ \A n \in live : schedOf[n] \notin {NoSched, Default} /\ ~IsTop(n) =>
       schedOf[n] \in scheds /\ n \in users[schedOf[n]]
  /\ \A s \in Sched : \A n \in users[s] : ~IsTop(n) => n \in live /\ schedOf[n] = s

(* A node below the top runs with the attributes of its profile, unless    *)
(* applying them was refused for one of its users, or it is the default    *)
(* profile, which lists nobody to tell (sai_qos_scheduler_util.c:178).     *)
NodesRunProfile ==
  \A n \in live : schedOf[n] \in scheds \ (torn \cup {Default}) /\ ~IsTop(n) =>
    npu[n] = pval[schedOf[n]]

(* A group with children is in the tree, and so are they, with it as their *)
(* parent: teardown of the tree, in whatever order and with whatever       *)
(* refusals, never frees a group from under a child it still counts        *)
(* (sai_qos_sched_group.c:644, sai_qos_hierarchy.c:212-262).               *)
ChildrenExist ==
  \A g \in SGroup : \A n \in tree.kids[g] : {g, n} \subseteq live /\ tree.par[n] = g
===========================================================================
