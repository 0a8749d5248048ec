----------------------------- MODULE QosPolicer -----------------------------
(* Policers, the ports whose storm control they are and the ACL rules they *)
(* meter: sai_qos_policer.c and sai_acl_policer.c.  A policer handler runs *)
(* under the QoS lock and is one action; the rules join and leave the list *)
(* of a policer from the ACL code, which does not take that lock.          *)
EXTENDS Integers, FiniteSets

CONSTANTS Policer, PolPort, StormType, PolRule,   \* ids
          PolRate,                \* what a policer may be set to
          NoPol, NoRate,
          StormIsHw               \* the NPU keeps the ports of a storm policer

(* No policer has the null id.                                             *)
ASSUME PolicerAssumption == NoPol \notin Policer

VARIABLES
  policers,    \* mode and rate of the policers in the tree
  port_dll,    \* the ports a policer lists, by type of storm
  acl_dll,     \* the rules it lists
  policer_id,  \* the policer a port names for each type
  portRate     \* the rate the NPU runs there

polVars == <<policers, port_dll, acl_dll, policer_id, portRate>>
stormVars == <<port_dll, policer_id, portRate>>

Storm == PolPort \X StormType
HasPolicer(p) == policers[p].mode # "none"

(* sai_qos_policer_create; a failure leaves nothing behind.                *)
CreatePolicer(p) ==
  /\ ~HasPolicer(p)
  /\ \E mode \in {"storm", "tcm"}, rate \in PolRate :
       policers' = [policers EXCEPT ![p] = [mode |-> mode, rate |-> rate]]
  /\ port_dll' = [port_dll EXCEPT ![p] = {}]
  /\ acl_dll' = [acl_dll EXCEPT ![p] = {}]
  /\ UNCHANGED <<policer_id, portRate>>

(* sai_qos_policer_is_object_in_use: by its mode one of the lists counts   *)
PolicerInUse(p) == IF policers[p].mode = "storm" THEN port_dll[p] # {}
                                                 ELSE acl_dll[p] # {}

(* sai_qos_policer_remove *)
RemovePolicer(p) ==
  /\ HasPolicer(p)
  /\ ~PolicerInUse(p)
  /\ policers' = [policers EXCEPT ![p] = [mode |-> "none", rate |-> NoRate]]
  /\ UNCHANGED <<acl_dll, stormVars>>

(* sai_policer_update_port_list: port after port until one is refused      *)
StormReapplied(p) == IF policers[p].mode # "storm" \/ StormIsHw
                THEN {port_dll[p]} ELSE SUBSET port_dll[p]

(* sai_qos_policer_attribute_set: the policer in the NPU, then its ports;  *)
(* only if all took it does the node take it.  A meter's rules are         *)
(* installed again, or are refused.                                        *)
SetPolicer(p) ==
  /\ HasPolicer(p)
  /\ \E rate \in PolRate, done \in StormReapplied(p), rules \in BOOLEAN :
       /\ portRate' = [s \in Storm |-> IF s \in done THEN rate ELSE portRate[s]]
       /\ policers' = IF done = port_dll[p] /\ (policers[p].mode = "tcm" => rules)
                      THEN [policers EXCEPT ![p].rate = rate] ELSE policers
  /\ UNCHANGED <<port_dll, acl_dll, policer_id>>

(* Mutant: the policer a port leaves keeps the port                        *)
StormNodeUpdateKeepsOld(s, p) ==
  /\ policer_id' = [policer_id EXCEPT ![s] = p]
  /\ port_dll' = [x \in Policer |-> IF x = p THEN port_dll[x] \cup {s} ELSE port_dll[x]]

(* sai_policer_port_storm_control_node_update *)
StormNodeUpdate(s, p) ==
  /\ policer_id' = [policer_id EXCEPT ![s] = p]
  /\ port_dll' = [x \in Policer |-> IF x = p THEN port_dll[x] \cup {s}
                                    ELSE IF x = policer_id[s] THEN port_dll[x] \ {s}
                                    ELSE port_dll[x]]

(* sai_port_attr_storm_control_policer_set: a policer of storms, or none   *)
SetPortPolicer(s, p) ==
  /\ IF p = NoPol THEN policer_id[s] # NoPol
                  ELSE HasPolicer(p) /\ policers[p].mode = "storm"
  /\ StormNodeUpdate(s, p)
  /\ portRate' = [portRate EXCEPT ![s] = IF p = NoPol THEN NoRate ELSE policers[p].rate]
  /\ UNCHANGED <<policers, acl_dll>>

(* Mutant: a rule stays in the list of the policer it leaves               *)
RuleDetachedNever(dll, r, p) == dll

(* sai_attach_policer_to_acl_rule and sai_detach_policer_from_acl_rule,    *)
(* of the lists.  They fail when there is no such policer.                 *)
RuleAttached(dll, r, p) == [dll EXCEPT ![p] = @ \cup {r}]
RuleDetached(dll, r, p) == [dll EXCEPT ![p] = @ \ {r}]

PolInit ==
  /\ policers = [p \in Policer |-> [mode |-> "none", rate |-> NoRate]]
  /\ port_dll = [p \in Policer |-> {}]
  /\ acl_dll = [p \in Policer |-> {}]
  /\ policer_id = [s \in Storm |-> NoPol]
  /\ portRate = [s \in Storm |-> NoRate]

PolNext ==
  \/ \E p \in Policer : CreatePolicer(p) \/ RemovePolicer(p) \/ SetPolicer(p)
  \/ \E s \in Storm, p \in Policer \cup {NoPol} : SetPortPolicer(s, p)

PolSpec == PolInit /\ [][PolNext]_polVars

---------------------------------------------------------------------------
PolTypeOK ==
  /\ policers \in [Policer -> [mode : {"none", "storm", "tcm"}, rate : PolRate \cup {NoRate}]]
  /\ port_dll \in [Policer -> SUBSET Storm]
  /\ acl_dll \in [Policer -> SUBSET PolRule]
  /\ policer_id \in [Storm -> Policer \cup {NoPol}]
  /\ portRate \in [Storm -> PolRate \cup {NoRate}]

(* A port names a policer exactly when the policer is in the tree, is one  *)
(* of storms and lists the port: what is decided from the list cannot free *)
(* a policer a port names, and a policer that metered rules cannot come    *)
(* back as one of a port (sai_qos_policer.c:427-453, 669-702).             *)
StormListed ==
  \A p \in Policer, s \in Storm :
    policer_id[s] = p <=> /\ policers[p].mode = "storm"
                          /\ s \in port_dll[p]
===========================================================================
