------------------------------ MODULE AclTable ------------------------------
(* ACL tables, table groups and group members: sai_acl_table.c,            *)
(* sai_acl_table_group.c and sai_acl_table_group_member.c.  Handlers run   *)
(* under the ACL lock, except for what the creations of tables and rules   *)
(* look up before they take it: those are two steps of a call.  All tables *)
(* are of one stage.                                                       *)
EXTENDS Integers, FiniteSets

CONSTANTS Caller,                   \* threads that create tables and rules
          ATable, AGroup, AMember,  \* ids
          APrio,                    \* priorities
          NoTable, NoGroup, NoPrio

(* No object has a null id, and no priority is the null one.               *)
ASSUME AclTableAssumption ==
  NoTable \notin ATable /\ NoGroup \notin AGroup \cup AMember /\ NoPrio \notin APrio

VARIABLES
  atables,     \* priority of the tables in the tree
  installed,   \* tables the NPU has
  rule_count, num_counters,
  calls,       \* what a creation found before it had the lock
  table_list,  \* members a group lists
  members,     \* the members in the tree
  freedMember  \* a freed member is in the tree

tableVars == <<atables, installed, rule_count, num_counters, calls>>
groupVars == <<table_list, members, freedMember>>

Idle == [op |-> "idle", prio |-> NoPrio, table |-> NoTable, stale |-> FALSE]
Absent == [table |-> NoTable, group |-> NoGroup]
HasTable(t) == atables[t] # NoPrio
HasGroup(g) == table_list[g] # {NoGroup}

(* sai_acl_table_same_priority, called by the validation of the attributes *)
(* without the lock                                                        *)
SamePriority(prio) == \E t \in ATable : atables[t] = prio
ValidateTable(c, prio) ==
  /\ calls[c] = Idle
  /\ ~SamePriority(prio)
  /\ calls' = [calls EXCEPT ![c] = [Idle EXCEPT !.op = "table", !.prio = prio]]
  /\ UNCHANGED <<atables, installed, rule_count, num_counters, groupVars>>

(* sai_create_acl_table, with the lock: any step may be refused, and what  *)
(* was done is undone; the table is in the NPU at once if its size is      *)
(* fixed or its group given.                                               *)
CreateTable(c, t) ==
  /\ calls[c].op = "table"
  /\ calls' = [calls EXCEPT ![c] = Idle]
  /\ \/ UNCHANGED <<atables, installed, rule_count, num_counters>>
     \/ /\ ~HasTable(t)
        /\ atables' = [atables EXCEPT ![t] = calls[c].prio]
        /\ rule_count' = [rule_count EXCEPT ![t] = 0]
        /\ num_counters' = [num_counters EXCEPT ![t] = 0]
        /\ installed' \in {installed, installed \cup {t}}
  /\ UNCHANGED groupVars

(* sai_delete_acl_table: no rule, no counter.  A call that has found the   *)
(* table keeps the pointer.                                                *)
DeleteTable(t) ==
  /\ HasTable(t)
  /\ rule_count[t] = 0
  /\ num_counters[t] = 0
  /\ atables' = [atables EXCEPT ![t] = NoPrio]
  /\ installed' = installed \ {t}
  /\ calls' = [c \in Caller |-> IF calls[c].table = t THEN [calls[c] EXCEPT !.stale = TRUE]
                                                      ELSE calls[c]]
  /\ UNCHANGED <<rule_count, num_counters, groupVars>>

(* sai_acl_table_group_create and _delete                                  *)
CreateGroup(g) ==
  /\ ~HasGroup(g)
  /\ table_list' = [table_list EXCEPT ![g] = {}]
  /\ UNCHANGED <<tableVars, members, freedMember>>
DeleteGroup(g) ==
  /\ HasGroup(g)
  /\ table_list[g] = {}
  /\ table_list' = [table_list EXCEPT ![g] = {NoGroup}]
  /\ UNCHANGED <<tableVars, members, freedMember>>

(* sai_acl_table_group_table_id_update, to add                             *)
ListMember(g, m) == [table_list EXCEPT ![g] = @ \cup {m}]

(* sai_acl_table_group_member_create: the member enters the tree, then its *)
(* table takes its priority, then its group lists it.  When there is no    *)
(* such table or group the member is freed where it is.                    *)
CreateMember(m, t, g, prio) ==
  /\ members[m] = Absent /\ ~freedMember
  /\ atables' = IF HasTable(t) THEN [atables EXCEPT ![t] = prio] ELSE atables
  /\ IF HasTable(t) /\ HasGroup(g)
     THEN /\ members' = [members EXCEPT ![m] = [table |-> t, group |-> g]]
          /\ table_list' = ListMember(g, m)
          /\ UNCHANGED freedMember
     ELSE /\ freedMember' = TRUE
          /\ UNCHANGED <<members, table_list>>
  /\ UNCHANGED <<installed, rule_count, num_counters, calls>>

(* sai_acl_table_group_member_delete *)
DeleteMember(m) ==
  /\ members[m] # Absent /\ ~freedMember
  /\ members' = [members EXCEPT ![m] = Absent]
  /\ table_list' = [table_list EXCEPT ![members[m].group] = @ \ {m}]
  /\ UNCHANGED <<tableVars, freedMember>>

TableInit ==
  /\ atables = [t \in ATable |-> NoPrio]
  /\ installed = {} /\ freedMember = FALSE
  /\ rule_count = [t \in ATable |-> 0] /\ num_counters = [t \in ATable |-> 0]
  /\ calls = [c \in Caller |-> Idle]
  /\ table_list = [g \in AGroup |-> {NoGroup}]
  /\ members = [m \in AMember |-> Absent]

TableNext ==
  \/ \E c \in Caller, prio \in APrio : ValidateTable(c, prio)
  \/ \E c \in Caller, t \in ATable : CreateTable(c, t)
  \/ \E t \in ATable : DeleteTable(t)
GroupNext ==
  \/ \E g \in AGroup : CreateGroup(g) \/ DeleteGroup(g)
  \/ \E m \in AMember : DeleteMember(m)
  \/ \E m \in AMember, t \in ATable, g \in AGroup, prio \in APrio : CreateMember(m, t, g, prio)

---------------------------------------------------------------------------
TableTypeOK ==
  /\ atables \in [ATable -> APrio \cup {NoPrio}]
  /\ installed \subseteq ATable
  /\ rule_count \in [ATable -> Nat] /\ num_counters \in [ATable -> Nat]
  /\ calls \in [Caller -> [op : {"idle", "table", "rule"}, prio : APrio \cup {NoPrio},
                           table : ATable \cup {NoTable}, stale : BOOLEAN]]
  /\ table_list \in [AGroup -> (SUBSET AMember) \cup {{NoGroup}}]
  /\ members \in [AMember -> [table : ATable \cup {NoTable}, group : AGroup \cup {NoGroup}]]
  /\ freedMember \in BOOLEAN

(* The members that name a group are those it lists, so the deletion of a  *)
(* group, decided from its list, leaves no member without one              *)
(* (sai_acl_table_group.c:350, sai_acl_table_group_member.c:295-364).      *)
GroupsListMembers ==
  \A g \in AGroup, m \in AMember :
    members[m].group = g <=> HasGroup(g) /\ m \in table_list[g]
===========================================================================
