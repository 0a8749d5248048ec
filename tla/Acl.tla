--------------------------------- MODULE Acl ---------------------------------
(* ACL rules and counters (sai_acl_rule.c, sai_acl_rule_utils.c,           *)
(* sai_acl_counter.c) with what they hold on to: the table, a counter, a   *)
(* policer and a sampling session.  Handlers run under the ACL lock; the   *)
(* lookup of the table of a new rule does not, and a policer is found and  *)
(* joined without the QoS lock, in two steps.  Exhausted memory is left    *)
(* out, and so is a rule on a single port.                                 *)
EXTENDS AclTable, QosPolicer, Sample

CONSTANTS Counter, ARule, NoCounter, NoARule

Lists == {{AllPorts}} \cup ((SUBSET SPort) \ {{}})
RuleInfo == [table : ATable, counter : Counter \cup {NoCounter}, policer : Policer \cup {NoPol},
             samplepacket_id : Sess \cup {NoSess}, sample : Sess \cup {NoSess}, ports : Lists]

(* Rules and counters are finitely many, a policer may meter any rule, and *)
(* no object has a null id.                                                *)
ASSUME AclAssumption ==
  /\ IsFiniteSet(ARule) /\ IsFiniteSet(Counter) /\ ARule \subseteq PolRule
  /\ NoCounter \notin Counter /\ NoARule \notin RuleInfo

VARIABLES
  counters,    \* the table of the counters in the tree
  attached,    \* the rules a counter counts (shared_count), kept by the NPU
  rules,       \* the rules in the tree
  meters,      \* the policer the NPU meters a rule with
  loose,       \* rules whose last counter was refused to them
  orphans,     \* rules created in a table that was freed under the call
  stray,       \* rules whose policer was freed after they found it
  attaching    \* the rule and the policer found for it, before it joins

ruleVars == <<rules, meters, loose, orphans, stray, attaching>>
aclVars == <<tableVars, groupVars, polVars, sampleVars, counters, attached, ruleVars>>

HasCounter(c) == counters[c] # NoTable
HasRule(r) == rules[r] # NoARule
AclFree == attaching = {}
FlowsBounded == torn = {} /\ \A x \in Sess, k \in SPort : port_tree[x][k].ref < MaxFlow

(* sai_create_acl_counter: the table is installed first if it is not; what *)
(* is refused after that leaves it so.                                     *)
CreateCounter(c, t) ==
  /\ AclFree
  /\ ~HasCounter(c) /\ HasTable(t)
  /\ installed' = installed \cup {t}
  /\ \/ UNCHANGED <<counters, num_counters>>
     \/ /\ counters' = [counters EXCEPT ![c] = t]
        /\ num_counters' = [num_counters EXCEPT ![t] = @ + 1]
  /\ UNCHANGED <<atables, rule_count, calls, groupVars, polVars, sampleVars, attached,
                 ruleVars>>

(* sai_delete_acl_counter: no rule is counted by it                        *)
DeleteCounter(c) ==
  /\ AclFree
  /\ HasCounter(c) /\ attached[c] = {}
  /\ counters' = [counters EXCEPT ![c] = NoTable]
  /\ num_counters' = [num_counters EXCEPT ![counters[c]] = @ - 1]
  /\ UNCHANGED <<atables, installed, rule_count, calls, groupVars, polVars, sampleVars,
                 attached, ruleVars>>

(* sai_attach_cntr_to_acl_rule and sai_detach_cntr_from_acl_rule: found in *)
(* the tree, a counter of the rule's table, then the NPU.                  *)
Counted(att, r, c) == [att EXCEPT ![c] = @ \cup {r}]
Uncounted(att, r, c) == [att EXCEPT ![c] = @ \ {r}]
CanDetach(r) == counters[rules[r].counter] = rules[r].table

(* sai_acl_rule_create_samplepacket and _remove_samplepacket               *)
SampleCreate(s, list, x) ==
  IF x = NoSess THEN {[s |-> s, ok |-> TRUE]}
  ELSE IF SampleFree(s, list, x) THEN SampleUpdate(s, list, x)
  ELSE {[s |-> s, ok |-> FALSE]}
SampleDelete(s, list, x) ==
  IF x = NoSess THEN {[s |-> s, ok |-> TRUE]} ELSE SampleRemove(s, list, x)

(* sai_create_acl_rule finds the table before it takes the lock ...        *)
LookupTable(c, t) ==
  /\ calls[c] = Idle /\ HasTable(t)
  /\ calls' = [calls EXCEPT ![c] = [Idle EXCEPT !.op = "rule", !.table = t]]
  /\ UNCHANGED <<atables, installed, rule_count, num_counters, groupVars, polVars,
                 sampleVars, counters, attached, ruleVars>>

(* ... and the table may be gone when it has it: what the rule is then put *)
(* into is freed memory.                                                   *)
CreateOrphan(c, r) ==
  /\ AclFree /\ calls[c].stale /\ ~HasRule(r)
  /\ calls' = [calls EXCEPT ![c] = Idle]
  /\ rules' = [rules EXCEPT ![r] = [table |-> calls[c].table, counter |-> NoCounter,
                                    policer |-> NoPol, samplepacket_id |-> NoSess,
                                    sample |-> NoSess, ports |-> {AllPorts}]]
  /\ orphans' = orphans \cup {r}
  /\ UNCHANGED <<atables, installed, rule_count, num_counters, groupVars, polVars,
                 sampleVars, counters, attached, meters, loose, stray, attaching>>

(* Mutant: a counter of any table will do                                  *)
ValidAnyCounter(w, t) ==
  /\ w.counter # NoCounter => HasCounter(w.counter)
  /\ w.policer # NoPol => policers[w.policer].mode # "storm"
  /\ w.sample # NoSess => FlowsBounded

(* sai_acl_rule_populate, sai_acl_validate_create_rule                     *)
Valid(w, t) ==
  /\ w.counter # NoCounter => counters[w.counter] = t
  /\ w.policer # NoPol => policers[w.policer].mode # "storm"
  /\ w.sample # NoSess => FlowsBounded

(* The rule is in the NPU, sampled, counted, and joins its policer.        *)
CreateRule(c, r, w) ==
  LET t == calls[c].table IN
  /\ AclFree /\ calls[c].op = "rule" /\ ~calls[c].stale /\ ~HasRule(r)
  /\ Valid(w, t)
  /\ w.policer # NoPol => HasPolicer(w.policer)
  /\ calls' = [calls EXCEPT ![c] = Idle]
  /\ installed' = installed \cup {t}
  /\ \E o \in SampleCreate(SState, w.ports, w.sample) : o.ok /\ Commit(o.s)
  /\ attached' = IF w.counter = NoCounter THEN attached ELSE Counted(attached, r, w.counter)
  /\ attaching' = IF w.policer = NoPol THEN {} ELSE {<<r, w.policer>>}
  /\ meters' = [meters EXCEPT ![r] = w.policer]
  /\ rules' = [rules EXCEPT ![r] = [table |-> t, counter |-> w.counter, policer |-> w.policer,
                                    samplepacket_id |-> w.sample, sample |-> w.sample,
                                    ports |-> w.ports]]
  /\ rule_count' = [rule_count EXCEPT ![t] = @ + 1]
  /\ loose' = loose \ {r} /\ orphans' = orphans \ {r} /\ stray' = stray \ {r}
  /\ UNCHANGED <<atables, num_counters, groupVars, polVars, sessions, sample_object,
                 counters>>

(* A step fails: the NPU rule is deleted and the sampling removed if it    *)
(* was complete.  The counter is not detached; whether the deletion of the *)
(* rule in the NPU did that is up to the NPU.                              *)
FailRule(c, r, w) ==
  LET t == calls[c].table IN
  /\ AclFree /\ calls[c].op = "rule" /\ ~HasRule(r)
  /\ calls' = [calls EXCEPT ![c] = Idle]
  /\ \/ UNCHANGED <<installed, attached, port_tree, npuSampled, acl_info, torn, refused>>
     \/ /\ ~calls[c].stale /\ Valid(w, t)
        /\ installed' = installed \cup {t}
        /\ \E o \in SampleCreate(SState, w.ports, w.sample) :
             \/ ~o.ok /\ Commit(o.s) /\ UNCHANGED attached
             \/ /\ o.ok
                /\ \E d \in SampleDelete(o.s, w.ports, w.sample) : Commit(d.s)
                /\ \/ w.counter # NoCounter /\ UNCHANGED attached
                   \/ /\ w.policer # NoPol /\ ~HasPolicer(w.policer)
                      /\ attached' \in {attached} \cup
                           (IF w.counter = NoCounter THEN {} ELSE {Counted(attached, r, w.counter)})
  /\ UNCHANGED <<atables, rule_count, num_counters, groupVars, polVars, sessions,
                 sample_object, counters, ruleVars>>

(* The second step of sai_attach_policer_to_acl_rule: the list of a policer *)
(* that is gone by now is freed memory.                                    *)
AttachPolicer(r, p) ==
  /\ <<r, p>> \in attaching
  /\ attaching' = {}
  /\ acl_dll' = IF r \in stray THEN acl_dll ELSE RuleAttached(acl_dll, r, p)
  /\ UNCHANGED <<tableVars, groupVars, policers, stormVars, sampleVars, counters, attached, rules,
                 meters, loose, orphans, stray>>

(* A call on policers, between the two steps too                           *)
PolicerCall ==
  /\ PolNext
  /\ stray' = stray \cup {r \in ARule : \E p \in Policer :
                              <<r, p>> \in attaching /\ ~HasPolicer(p)'}
  /\ UNCHANGED <<tableVars, groupVars, sampleVars, counters, attached, rules, meters, loose,
                 orphans, attaching>>

(* sai_delete_acl_rule: a rule its table lists                             *)
DeleteRule(r) ==
  LET g == rules[r] IN
  /\ AclFree /\ HasRule(r) /\ HasTable(g.table) /\ r \notin orphans
  /\ g.samplepacket_id # NoSess => torn = {}
  /\ g.counter # NoCounter => CanDetach(r)
  /\ g.policer # NoPol => HasPolicer(g.policer)
  /\ \E d \in SampleDelete(SState, g.ports,
                           IF g.samplepacket_id = NoSess THEN NoSess ELSE g.sample) : Commit(d.s)
  /\ attached' = IF g.counter = NoCounter THEN attached ELSE Uncounted(attached, r, g.counter)
  /\ acl_dll' = IF g.policer = NoPol THEN acl_dll ELSE RuleDetached(acl_dll, r, g.policer)
  /\ rules' = [rules EXCEPT ![r] = NoARule]
  /\ meters' = [meters EXCEPT ![r] = NoPol]
  /\ rule_count' = [rule_count EXCEPT ![g.table] = @ - 1]
  /\ loose' = loose \ {r} /\ stray' = stray \ {r}
  /\ UNCHANGED <<atables, installed, num_counters, calls, groupVars, policers, stormVars,
                 sessions, sample_object, counters, orphans, attaching>>

(* It fails: what was undone so far is done again, whatever comes of it.   *)
FailDelete(r) ==
  LET g == rules[r] IN
  /\ AclFree /\ HasRule(r) /\ HasTable(g.table) /\ r \notin orphans
  /\ g.samplepacket_id # NoSess => FlowsBounded
  /\ \E d \in SampleDelete(SState, g.ports,
                           IF g.samplepacket_id = NoSess THEN NoSess ELSE g.sample) :
       IF d.s.torn # {} THEN Commit(d.s)
       ELSE \E o \in SampleCreate(d.s, g.ports, IF g.samplepacket_id = NoSess THEN NoSess
                                                ELSE g.sample) : Commit(o.s)
  /\ \/ UNCHANGED <<attached, loose>>
     \/ /\ g.counter # NoCounter /\ CanDetach(r)
        /\ attached' = Uncounted(attached, r, g.counter)
        /\ loose' = loose \cup {r}
  /\ UNCHANGED <<tableVars, groupVars, polVars, sessions, sample_object, counters, rules, meters,
                 orphans, stray, attaching>>

(* sai_set_acl_rule, once the NPU took the attribute: scan_and_mod has     *)
(* updated the rule, then its policer is: any attribute but an enabled     *)
(* policer takes the rule from the policer it has.                         *)
PolicerUpdate(r, g) ==
  IF g.policer # NoPol /\ HasPolicer(g.policer)
  THEN /\ acl_dll' = RuleDetached(acl_dll, r, g.policer)
       /\ rules' = [rules EXCEPT ![r] = [g EXCEPT !.policer = NoPol]]
       /\ stray' = stray \ {r}
  ELSE acl_dll' = acl_dll /\ rules' = [rules EXCEPT ![r] = g] /\ UNCHANGED stray

Settable(r) == AclFree /\ HasRule(r) /\ HasTable(rules[r].table)
SetFrame == UNCHANGED <<tableVars, groupVars, policers, stormVars, sessions, sample_object, counters,
                        orphans>>
NoSampling == UNCHANGED <<port_tree, acl_info, npuSampled, torn, refused>>

(* A field, the priority, the state or another action                      *)
SetField(r) ==
  /\ Settable(r)
  /\ PolicerUpdate(r, rules[r])
  /\ NoSampling /\ SetFrame
  /\ UNCHANGED <<attached, loose, meters, attaching>>

(* sai_acl_rule_update_counter_action: the old counter is detached, and on *)
(* success the rule names the new one before it is attached.  What fails   *)
(* here is not reported.                                                   *)
CounterUpdate(r, c) ==
  LET g == rules[r]
      Named(att, lost) == [g |-> [g EXCEPT !.counter = c], att |-> att, lost |-> lost]
      Joined(att) == {Named(Counted(att, r, c), FALSE), Named(att, TRUE)}
      Same == [g |-> g, att |-> attached, lost |-> r \in loose]
  IN IF c = g.counter THEN {Same}
     ELSE IF g.counter = NoCounter THEN Joined(attached)
     ELSE {Same} \cup
          IF ~CanDetach(r) THEN {}
          ELSE IF c = NoCounter THEN {Named(Uncounted(attached, r, g.counter), FALSE)}
          ELSE Joined(Uncounted(attached, r, g.counter))

SetCounter(r, c) ==
  /\ Settable(r)
  /\ c \notin {NoCounter, rules[r].counter} => counters[c] = rules[r].table
  /\ \E o \in CounterUpdate(r, c) :
       LET lost == IF o.lost THEN loose \cup {r} ELSE loose \ {r}
           p == o.g.policer
           drop == p # NoPol /\ HasPolicer(p)
       IN /\ attached' = o.att
          /\ loose' = lost
          /\ rules' = [rules EXCEPT ![r] = IF drop THEN [o.g EXCEPT !.policer = NoPol] ELSE o.g]
          /\ acl_dll' = IF drop THEN RuleDetached(acl_dll, r, p) ELSE acl_dll
          /\ stray' = IF drop THEN stray \ {r} ELSE stray
  /\ NoSampling /\ SetFrame
  /\ UNCHANGED <<meters, attaching>>

(* sai_acl_rule_policer_update with a policer: the rule leaves the one it  *)
(* has, and names the new one before it is found.                          *)
SetRulePolicer(r, p) ==
  LET old == rules[r].policer IN
  /\ Settable(r)
  /\ policers[p].mode # "storm"
  /\ meters' = [meters EXCEPT ![r] = p]
  /\ IF p = old \/ (old # NoPol /\ ~HasPolicer(old))
     THEN UNCHANGED <<acl_dll, rules, stray, attaching>>
     ELSE /\ rules' = [rules EXCEPT ![r].policer = p]
          /\ acl_dll' = IF old = NoPol THEN acl_dll ELSE RuleDetached(acl_dll, r, old)
          /\ stray' = stray \ {r}
          /\ attaching' = IF HasPolicer(p) THEN {<<r, p>>} ELSE attaching
  /\ NoSampling /\ SetFrame
  /\ UNCHANGED <<attached, loose>>

(* The policer action disabled                                             *)
ResetRulePolicer(r) ==
  /\ Settable(r)
  /\ meters' = [meters EXCEPT ![r] = NoPol]
  /\ PolicerUpdate(r, rules[r])
  /\ NoSampling /\ SetFrame
  /\ UNCHANGED <<attached, loose, attaching>>

Stopped == UNCHANGED <<rules, acl_dll, stray>>

(* sai_acl_rule_validate_update_samplepacket for a sampling action: the    *)
(* sampling by the session of the rule's creation is removed at validation,*)
(* the new one is added when the NPU took the action.  A failed validation *)
(* restores it for a list of ports only, and a refusal of the NPU does not.*)
SetRuleSample(r, x) ==
  LET g == rules[r] IN
  /\ Settable(r) /\ FlowsBounded
  /\ \E d \in SampleDelete(SState, g.ports, g.samplepacket_id) :
       \/ Commit(d.s) /\ Stopped        \* refused by the removal or the NPU
       \/ /\ x # NoSess /\ d.s.torn = {} /\ ~SampleFree(d.s, g.ports, x)
          /\ g.ports # {AllPorts}
          /\ \E o \in SampleCreate(d.s, g.ports, g.samplepacket_id) : Commit(o.s)
          /\ Stopped
       \/ /\ x = NoSess /\ d.ok
          /\ Commit(d.s)
          /\ PolicerUpdate(r, [g EXCEPT !.sample = NoSess])
       \/ /\ x # NoSess /\ d.s.torn = {} /\ SampleFree(d.s, g.ports, x)
          /\ \E o \in SampleUpdate(d.s, g.ports, x) :
               /\ Commit(o.s)
               /\ IF o.ok THEN PolicerUpdate(r, [g EXCEPT !.sample = x])
                  ELSE /\ rules' = [rules EXCEPT ![r].sample = x]
                       /\ UNCHANGED <<acl_dll, stray>>
  /\ SetFrame
  /\ UNCHANGED <<attached, loose, meters, attaching>>

(* The same for a new list of ports of a rule that has one                 *)
SetRulePorts(r, list) ==
  LET g == rules[r] IN
  /\ Settable(r) /\ FlowsBounded
  /\ g.ports # {AllPorts} /\ list # {AllPorts}
  /\ IF g.samplepacket_id = NoSess /\ g.sample = NoSess
     THEN NoSampling /\ PolicerUpdate(r, [g EXCEPT !.ports = list])
     ELSE \E d \in SampleDelete(SState, g.ports, g.samplepacket_id) :
            \/ Commit(d.s) /\ Stopped
            \/ /\ g.sample # NoSess /\ d.ok /\ d.s.torn = {} /\ ~SampleFree(d.s, list, g.sample)
               /\ \E o \in SampleCreate(d.s, g.ports, g.samplepacket_id) : Commit(o.s)
               /\ Stopped
            \/ /\ g.sample = NoSess /\ d.ok
               /\ Commit(d.s)
               /\ PolicerUpdate(r, [g EXCEPT !.ports = list])
            \/ /\ g.sample # NoSess /\ d.ok /\ d.s.torn = {} /\ SampleFree(d.s, list, g.sample)
               /\ \E o \in SampleUpdate(d.s, list, g.sample) :
                    /\ Commit(o.s)
                    /\ IF o.ok THEN PolicerUpdate(r, [g EXCEPT !.ports = list])
                       ELSE /\ rules' = [rules EXCEPT ![r].ports = list]
                            /\ UNCHANGED <<acl_dll, stray>>
  /\ SetFrame
  /\ UNCHANGED <<attached, loose, meters, attaching>>

---------------------------------------------------------------------------
AclInit ==
  /\ TableInit /\ PolInit /\ SampleInit
  /\ counters = [c \in Counter |-> NoTable]
  /\ attached = [c \in Counter |-> {}]
  /\ rules = [r \in ARule |-> NoARule]
  /\ meters = [r \in ARule |-> NoPol]
  /\ loose = {} /\ orphans = {} /\ stray = {} /\ attaching = {}

aclOwn == <<counters, attached, ruleVars>>

(* What a new rule asks for, of some kinds of objects                      *)
Wants(K) ==
  [counter : {NoCounter} \cup (IF "counter" \in K THEN Counter ELSE {}),
   policer : {NoPol} \cup (IF "policer" \in K THEN Policer ELSE {}),
   sample  : {NoSess} \cup (IF "sample" \in K THEN Sess ELSE {}),
   ports   : IF "sample" \in K THEN Lists ELSE {{AllPorts}}]

RuleNext(K) ==
  \/ \E c \in Caller, t \in ATable : LookupTable(c, t)
  \/ \E c \in Caller, r \in ARule :
       CreateOrphan(c, r) \/ \E w \in Wants(K) : CreateRule(c, r, w) \/ FailRule(c, r, w)
  \/ \E r \in ARule : DeleteRule(r) \/ FailDelete(r) \/ SetField(r)
CounterNext ==
  \/ \E c \in Counter, t \in ATable : CreateCounter(c, t)
  \/ \E c \in Counter : DeleteCounter(c)
  \/ \E r \in ARule, c \in Counter \cup {NoCounter} : SetCounter(r, c)
RulePolicerNext ==
  \/ \E r \in ARule, p \in Policer : AttachPolicer(r, p) \/ SetRulePolicer(r, p)
  \/ \E r \in ARule : ResetRulePolicer(r)
RuleSampleNext ==
  \/ \E r \in ARule, x \in Sess \cup {NoSess} : SetRuleSample(r, x)
  \/ \E r \in ARule, list \in Lists : SetRulePorts(r, list)

(* Everything, of some kinds of objects                                    *)
AclNext(K) ==
  \/ TableNext /\ AclFree /\ UNCHANGED <<polVars, sampleVars, aclOwn>>
  \/ "group" \in K /\ GroupNext /\ AclFree /\ UNCHANGED <<polVars, sampleVars, aclOwn>>
  \/ "rule" \in K /\ RuleNext(K)
  \/ "counter" \in K /\ CounterNext
  \/ "policer" \in K /\ RulePolicerNext
  \/ "policer" \in K /\ PolicerCall
  \/ "sample" \in K /\ RuleSampleNext
  \/ "sample" \in K /\ SampleNext /\ UNCHANGED <<tableVars, groupVars, polVars, aclOwn>>

Kind == {"group", "rule", "counter", "policer", "sample"}
AclSpec == AclInit /\ [][AclNext(Kind)]_aclVars

---------------------------------------------------------------------------
AclTypeOK ==
  /\ TableTypeOK /\ PolTypeOK /\ SampleTypeOK
  /\ counters \in [Counter -> ATable \cup {NoTable}]
  /\ attached \in [Counter -> SUBSET ARule]
  /\ rules \in [ARule -> RuleInfo \cup {NoARule}]
  /\ meters \in [ARule -> Policer \cup {NoPol}]
  /\ loose \subseteq ARule /\ orphans \subseteq ARule /\ stray \subseteq ARule
  /\ attaching \subseteq ARule \X Policer

(* A table counts the rules and the counters that name it, so its deletion,*)
(* decided from the counts, leaves none without a table; only a rule whose *)
(* table was freed between lookup and lock escapes (sai_acl_table.c:688,   *)
(* sai_acl_rule.c:535-549).                                                *)
TablesCount ==
  /\ \A t \in ATable : HasTable(t) =>
       /\ rule_count[t] = Cardinality({r \in ARule \ orphans : HasRule(r) /\ rules[r].table = t})
       /\ num_counters[t] = Cardinality({c \in Counter : counters[c] = t})
  /\ \A r \in ARule \ orphans : HasRule(r) => HasTable(rules[r].table)
  /\ \A c \in Counter : HasCounter(c) => HasTable(counters[c])

(* The counter a rule names counts it and is one of its table, across the  *)
(* swaps and the failures of both, unless it was refused to the rule       *)
(* (sai_acl_rule_utils.c:875-949, sai_acl_counter.c:327).                  *)
CountersCountRules ==
  \A r \in ARule \ loose : HasRule(r) /\ rules[r].counter # NoCounter =>
    r \in attached[rules[r].counter] /\ CanDetach(r)

(* What is deleted by a count or a list: tables by their counts, groups by *)
(* their lists, counters by what the NPU counts for them; each is exact    *)
(* (sai_acl_table.c:688, sai_acl_table_group.c:350, sai_acl_counter.c:327).*)
AclCounts == GroupsListMembers /\ TablesCount /\ CountersCountRules

(* What a policer lists is a rule of the tree that names it: the list      *)
(* never keeps a freed rule (sai_acl_policer.c:40-142).                    *)
PolicersListRules ==
  \A p \in Policer : HasPolicer(p) =>
    \A r \in acl_dll[p] : HasRule(r) /\ rules[r].policer = p

(* A port recorded as sampled by rules is held by the session, in its tree,*)
(* so the session stays: except after the NPU refused to end the sampling  *)
(* (sai_samplepacket_common.c:224-260, sai_samplepacket_port.c:250-484).   *)
RuleSamplesHeld ==
  torn = {} => \A k \in SPort, x \in Sess \ refused :
    <<k, x>> \in acl_info => x \in sessions /\ port_tree[x][k].in

(* sai_samplepacket_common.c:224 has it that a session is removed only when*)
(* no source port is attached to it.                                       *)
SessionKeptByPorts ==
  \A k \in SPort : torn = {} /\ sample_object[k] # NoSess => sample_object[k] \in sessions
===========================================================================
