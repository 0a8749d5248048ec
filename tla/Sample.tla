-------------------------------- MODULE Sample --------------------------------
(* Sampling sessions and the ports they sample, set on a port or by a rule *)
(* of an access list: src/samplepacket/.  A session keeps a node for every *)
(* port it samples; each call on the tree is under the sampling lock.      *)
EXTENDS Integers, FiniteSets

CONSTANTS Sess, SPort,     \* ids of sessions and ports
          NoSess, AllPorts,
          MaxFlow          \* largest value of a node's ref_count

ASSUME SampleAssumption ==
  MaxFlow \in Nat /\ NoSess \notin Sess /\ AllPorts \notin SPort

VARIABLES
  sessions,       \* sessions in the tree
  port_tree,      \* the node a session has for a port
  sample_object,  \* the session set on a port
  acl_info,       \* what ports the rules are sampled on, by which session
  npuSampled,     \* what the NPU samples: session, port, mode
  torn,           \* sessions whose tree holds a freed node
  refused         \* sessions the NPU refused to end the rules' sampling of

sampleVars == <<sessions, port_tree, sample_object, acl_info, npuSampled, torn, refused>>

SMode == {"port", "flow"}
SNode == [mode : SUBSET SMode, ref : 0..MaxFlow, in : BOOLEAN]
NoSNode == [mode |-> {}, ref |-> 0, in |-> FALSE]

(* What a call changes of the sessions                                     *)
SState == [tree |-> port_tree, npu |-> npuSampled, info |-> acl_info,
           torn |-> torn, refused |-> refused]
Commit(s) == /\ port_tree' = s.tree /\ npuSampled' = s.npu /\ acl_info' = s.info
             /\ torn' = s.torn /\ refused' = s.refused

(* Mutant: the count goes below 0                                          *)
LessSigned(ref) == ref - 1

(* ref_count is unsigned *)
Less(ref) == IF ref = 0 THEN MaxFlow ELSE ref - 1
More(ref) == IF ref = MaxFlow THEN 0 ELSE ref + 1

PutNode(s, x, k, node) == [s EXCEPT !.tree[x][k] = node]

(* sai_samplepacket_session_port_add: ok is the answer of the NPU, when it *)
(* is asked.  A refusal frees the node also when it had been there.        *)
AddAsks(s, x, k, mode) == x \in sessions /\ mode \notin s.tree[x][k].mode
AddOk(s, x, k, mode, ok) ==
  x \in sessions /\ IF mode \in s.tree[x][k].mode THEN mode = "flow" ELSE ok
PortAdded(s, x, k, mode, ok) ==
  LET node == s.tree[x][k]
      ref  == IF mode = "flow" THEN More(node.ref) ELSE node.ref
  IN IF ~AddAsks(s, x, k, mode)
     THEN IF x \in sessions THEN PutNode(s, x, k, [node EXCEPT !.ref = ref]) ELSE s
     ELSE IF ok
     THEN [PutNode(s, x, k, [mode |-> node.mode \cup {mode}, ref |-> ref, in |-> TRUE])
           EXCEPT !.npu = @ \cup {<<x, k, mode>>}]
     ELSE IF node.ref # 0 \/ (mode = "flow" /\ "port" \in node.mode)
     THEN [s EXCEPT !.torn = @ \cup {x}]
     ELSE PutNode(s, x, k, NoSNode)

(* Mutant: the last rule is looked for before the count goes down          *)
RemoveOkEarly(s, x, k, mode, ok) ==
  x \in sessions /\ s.tree[x][k].in /\ ok /\ (mode = "flow" => s.tree[x][k].ref = 0)

(* sai_samplepacket_session_port_remove.  The mode of the node is left     *)
(* when a port's own sampling ends, and its node is freed while rules      *)
(* sample it; the last rule takes the node with it whatever the port has.  *)
RemoveOk(s, x, k, mode, ok) ==
  x \in sessions /\ s.tree[x][k].in /\ ok /\ (mode = "flow" => Less(s.tree[x][k].ref) = 0)
PortRemoved(s, x, k, mode, ok) ==
  LET node == s.tree[x][k]
      ref  == IF mode = "flow" THEN Less(node.ref) ELSE node.ref
  IN IF x \notin sessions \/ ~node.in \/ (mode = "port" /\ ~ok) THEN s
     ELSE IF mode = "flow" /\ (ref # 0 \/ ~ok)
     THEN [PutNode(s, x, k, [node EXCEPT !.ref = ref])
           EXCEPT !.refused = IF ref = 0 THEN @ \cup {x} ELSE @]
     ELSE [(IF ref = 0 THEN PutNode(s, x, k, NoSNode) ELSE [s EXCEPT !.torn = @ \cup {x}])
           EXCEPT !.npu = @ \ {<<x, k, mode>>}]

(* sai_samplepacket_session_create; a failure leaves nothing behind.       *)
CreateSession(x) ==
  /\ x \notin sessions
  /\ sessions' = sessions \cup {x}
  /\ UNCHANGED <<port_tree, sample_object, acl_info, npuSampled, torn, refused>>

(* sai_samplepacket_session_remove: its tree is empty                      *)
RemoveSession(x) ==
  /\ x \in sessions
  /\ \A k \in SPort : ~port_tree[x][k].in
  /\ sessions' = sessions \ {x}
  /\ UNCHANGED <<port_tree, sample_object, acl_info, npuSampled, torn, refused>>

(* sai_samplepacket_handle_per_port: the session of a port set, or reset   *)
SetPortSession(k, x) ==
  /\ x # NoSess <=> sample_object[k] = NoSess
  /\ \E ok \in BOOLEAN :
       IF x # NoSess
       THEN /\ Commit(PortAdded(SState, x, k, "port", ok))
            /\ sample_object' = IF AddOk(SState, x, k, "port", ok)
                                THEN [sample_object EXCEPT ![k] = x] ELSE sample_object
       ELSE LET y == sample_object[k] IN
            /\ Commit(PortRemoved(SState, y, k, "port", ok))
            /\ sample_object' = IF RemoveOk(SState, y, k, "port", ok)
                                THEN [sample_object EXCEPT ![k] = NoSess] ELSE sample_object
  /\ UNCHANGED sessions

(* The ports a rule is on: those it lists, or all                          *)
PortsOf(list) == IF list = {AllPorts} THEN SPort ELSE list

(* sai_samplepacket_validate_object_on_portlist: no rule samples one of    *)
(* the ports by another session.                                           *)
SampleFree(s, list, x) ==
  \A k \in PortsOf(list), y \in Sess : <<k, y>> \in s.info => y = x

(* sai_samplepacket_update_object_on_portlist: the ports are added one by  *)
(* one, those of S so far, up to the first refusal.                        *)
Updated(s, x, S) ==
  [s EXCEPT !.info = @ \cup {<<k, x>> : k \in S},
            !.tree[x] = [k \in SPort |-> IF k \in S
                          THEN PortAdded(s, x, k, "flow", TRUE).tree[x][k] ELSE @[k]],
            !.npu = @ \cup {<<x, k, "flow">> : k \in S}]
SampleUpdate(s, list, x) ==
  LET all == PortsOf(list)
  IN IF x \notin sessions THEN {[s |-> s, ok |-> FALSE]}
     ELSE {[s |-> [Updated(s, x, all) EXCEPT !.info = @ \cup {<<k, x>> : k \in list}], ok |-> TRUE]}
          \cup UNION {{[s |-> PortAdded(Updated(s, x, S), x, k, "flow", FALSE), ok |-> FALSE] :
                       k \in {j \in all \ S : AddAsks(s, x, j, "flow")}} :
                      S \in (SUBSET all) \ {all}}

(* sai_samplepacket_remove_object: port by port, and a port is forgotten   *)
(* when its removal succeeded; the status is that of the last.             *)
Removed(s, list, x, ok) ==
  LET mine   == {k \in PortsOf(list) : <<k, x>> \in s.info}
      gone   == {k \in mine : RemoveOk(s, x, k, "flow", ok[k])}
      One(k) == PortRemoved(s, x, k, "flow", ok[k])
  IN [s EXCEPT
       !.tree[x] = [k \in SPort |-> IF k \in mine THEN One(k).tree[x][k] ELSE @[k]],
       !.refused = @ \cup UNION {One(k).refused : k \in mine},
       !.npu = @ \ {<<x, k, "flow">> : k \in gone},
       !.info = @ \ {<<k, x>> : k \in gone \cup (list \cap {AllPorts})}]
SampleRemove(s, list, x) ==
  LET Last(ok) == {RemoveOk(s, x, k, "flow", ok[k]) :
                    k \in {j \in PortsOf(list) : <<j, x>> \in s.info}}
  IN UNION {{[s |-> Removed(s, list, x, ok), ok |-> last] :
              last \in IF Last(ok) = {} THEN {TRUE} ELSE Last(ok)} : ok \in [SPort -> BOOLEAN]}

SampleInit ==
  /\ sessions = {} /\ acl_info = {} /\ npuSampled = {}
  /\ torn = {} /\ refused = {}
  /\ port_tree = [x \in Sess |-> [k \in SPort |-> NoSNode]]
  /\ sample_object = [k \in SPort |-> NoSess]

SampleNext ==
  \/ \E x \in Sess : CreateSession(x) \/ RemoveSession(x)
  \/ \E k \in SPort, x \in Sess \cup {NoSess} : SetPortSession(k, x)

---------------------------------------------------------------------------
SampleTypeOK ==
  /\ sessions \subseteq Sess /\ torn \subseteq Sess /\ refused \subseteq Sess
  /\ port_tree \in [Sess -> [SPort -> SNode]]
  /\ sample_object \in [SPort -> Sess \cup {NoSess}]
  /\ acl_info \subseteq (SPort \cup {AllPorts}) \X Sess
  /\ npuSampled \subseteq Sess \X SPort \X SMode
===========================================================================
