------------------------------ MODULE AclProofs ------------------------------
(* What the access lists keep of the tables, the counters, the policers    *)
(* and the sampling sessions they hold on to, for any number of each, of   *)
(* rules and of calls (Acl.tla).  The invariant has one part for each of   *)
(* the five; an action is shown to keep each part by itself, and a part an *)
(* action can disturb only at one rule has a lemma that says so.           *)
EXTENDS Acl, FiniteSetTheorems, TLAPS

---------------------------------------------------------------------------
(* The sessions.  A call works on a record of them, step by step, so that  *)
(* what must hold is stated of such a record.                              *)

(* A state of the sessions between the steps of a call                     *)
SRec == [tree : [Sess -> [SPort -> SNode]], npu : SUBSET (Sess \X SPort \X SMode),
         info : SUBSET ((SPort \cup {AllPorts}) \X Sess), torn : SUBSET Sess,
         refused : SUBSET Sess]

(* A node in use is in the tree of a session, and what the rules sample by *)
(* a session is counted in a node of it.                                   *)
NodesIn(s) ==
  \A x \in Sess, k \in SPort :
    /\ s.tree[x][k].mode # {} => s.tree[x][k].in
    /\ s.tree[x][k].in => x \in sessions
Held(s) ==
  s.torn = {} => \A x \in Sess \ s.refused, k \in SPort :
    <<k, x>> \in s.info => s.tree[x][k].in /\ s.tree[x][k].ref >= 1
SOk(s) == s \in SRec /\ NodesIn(s) /\ Held(s)

(* No count of a node is at its limit.                                     *)
Room(s) ==
  s.torn = {} => \A x \in Sess \ s.refused, k \in SPort : s.tree[x][k].ref < MaxFlow

SampleInv == sessions \subseteq Sess /\ sample_object \in [SPort -> Sess \cup {NoSess}] /\ SOk(SState)

(* The parts of a node                                                     *)
LEMMA NodeIs ==
  ASSUME NEW s \in SRec, NEW x \in Sess, NEW k \in SPort
  PROVE  /\ s.tree[x][k] \in SNode
         /\ s.tree[x][k].ref \in 0..MaxFlow /\ s.tree[x][k].mode \subseteq SMode
         /\ s.tree[x][k].in \in BOOLEAN
BY DEF SRec, SNode

(* A node that is not there                                                *)
LEMMA NoNodeIs == NoSNode \in SNode /\ NoSNode.mode = {} /\ NoSNode.ref = 0 /\ ~ NoSNode.in
BY SampleAssumption DEF NoSNode, SNode

(* The count of a node does not wrap away from its limits.                 *)
LEMMA CountIs ==
  ASSUME NEW ref \in 0..MaxFlow
  PROVE  /\ Less(ref) \in 0..MaxFlow /\ More(ref) \in 0..MaxFlow
         /\ ref >= 1 => Less(ref) = ref - 1
         /\ ref < MaxFlow => More(ref) = ref + 1
BY SampleAssumption DEF Less, More

(* What a call commits is what the sessions are next.                      *)
LEMMA CommitOk ==
  ASSUME NEW s, SOk(s), Commit(s), UNCHANGED sessions
  PROVE  SOk(SState)'
<1>1. s = SState'
  BY DEF Commit, SState, SOk, SRec
<1>2. /\ s.tree = port_tree' /\ s.info = acl_info' /\ s.torn = torn' /\ s.refused = refused'
      /\ s.npu = npuSampled'
  BY DEF Commit
<1> QED BY <1>1, <1>2 DEF SOk, NodesIn, Held, SState

(* A node is put into the tree.                                            *)
NodePut(s, u, x, k, node) ==
  /\ u \in SRec /\ u.tree[x][k] = node
  /\ \A y \in Sess, j \in SPort : y # x \/ j # k => u.tree[y][j] = s.tree[y][j]
  /\ u.npu = s.npu /\ u.info = s.info /\ u.torn = s.torn /\ u.refused = s.refused

(* PutNode puts one node and nothing else.                                 *)
LEMMA PutNodeIs ==
  ASSUME NEW s \in SRec, NEW x \in Sess, NEW k \in SPort, NEW node \in SNode,
         NEW u, u = PutNode(s, x, k, node)
  PROVE  NodePut(s, u, x, k, node)
<1>1. PICK tr : tr = [s.tree EXCEPT ![x][k] = node]
  OBVIOUS
<1>2. tr \in [Sess -> [SPort -> SNode]] /\ tr[x][k] = node
      /\ \A y \in Sess, j \in SPort : y # x \/ j # k => tr[y][j] = s.tree[y][j]
  BY <1>1 DEF SRec
<1>3. u = [s EXCEPT !.tree = tr]
  BY <1>1 DEF PutNode, SRec
<1> QED BY <1>2, <1>3 DEF SRec, NodePut

(* One node changes, and it is as the others must be.                      *)
LEMMA NodeChanged ==
  ASSUME NEW s, SOk(s), NEW u \in SRec, NEW x \in Sess, NEW k \in SPort,
         \A y \in Sess, j \in SPort : y # x \/ j # k => u.tree[y][j] = s.tree[y][j],
         u.info \subseteq s.info, u.torn = s.torn, s.refused \subseteq u.refused,
         u.tree[x][k].mode # {} => u.tree[x][k].in, u.tree[x][k].in => x \in sessions,
         s.torn = {} /\ x \notin u.refused /\ <<k, x>> \in u.info =>
           u.tree[x][k].in /\ u.tree[x][k].ref >= 1
  PROVE  SOk(u)
<1>1. NodesIn(u)
  <2> SUFFICES ASSUME NEW y \in Sess, NEW j \in SPort
               PROVE  (u.tree[y][j].mode # {} => u.tree[y][j].in) /\ (u.tree[y][j].in => y \in sessions)
    BY DEF NodesIn
  <2>1. CASE y = x /\ j = k
    BY <2>1
  <2>2. CASE y # x \/ j # k
    BY <2>2 DEF SOk, NodesIn
  <2> QED BY <2>1, <2>2
<1>2. Held(u)
  <2> SUFFICES ASSUME u.torn = {}, NEW y \in Sess \ u.refused, NEW j \in SPort, <<j, y>> \in u.info
               PROVE  u.tree[y][j].in /\ u.tree[y][j].ref >= 1
    BY DEF Held
  <2>1. CASE y = x /\ j = k
    BY <2>1
  <2>2. CASE y # x \/ j # k
    BY <2>2 DEF SOk, Held
  <2> QED BY <2>1, <2>2
<1> QED BY <1>1, <1>2 DEF SOk

(* Adding a port keeps the record right, refused or not.                   *)
LEMMA PortAddedOk ==
  ASSUME NEW s, SOk(s), NEW x \in Sess, NEW k \in SPort, NEW mode \in SMode, NEW ok \in BOOLEAN,
         mode = "flow" /\ s.torn = {} /\ x \notin s.refused => s.tree[x][k].ref < MaxFlow
  PROVE  SOk(PortAdded(s, x, k, mode, ok))
<1>0. s \in SRec
  BY DEF SOk
<1>1. PICK node \in SNode : node = s.tree[x][k]
  BY <1>0, NodeIs
<1>2. PICK ref \in 0..MaxFlow : ref = IF mode = "flow" THEN More(node.ref) ELSE node.ref
  BY CountIs DEF SNode
<1>3. /\ node.mode \subseteq SMode /\ node.ref \in 0..MaxFlow /\ node.in \in BOOLEAN
      /\ node.mode # {} => node.in
      /\ node.in => x \in sessions
  BY <1>1 DEF SOk, NodesIn, SNode
<1>4. s.torn = {} /\ x \notin s.refused /\ <<k, x>> \in s.info => node.in /\ node.ref >= 1
  BY <1>1 DEF SOk, Held
<1>5. s.torn = {} /\ x \notin s.refused /\ <<k, x>> \in s.info => ref >= 1
  <2>1. CASE mode = "flow"
    <3>1. s.torn = {} /\ x \notin s.refused => node.ref < MaxFlow
      BY <1>1, <2>1
    <3>2. node.ref < MaxFlow => More(node.ref) = node.ref + 1
      BY <1>3, CountIs
    <3> QED BY <1>2, <1>3, <2>1, <3>1, <3>2
  <2>2. CASE mode # "flow"
    BY <1>2, <1>4, <2>2
  <2> QED BY <2>1, <2>2
<1>6. PortAdded(s, x, k, mode, ok) =
        IF ~ AddAsks(s, x, k, mode)
        THEN IF x \in sessions THEN PutNode(s, x, k, [node EXCEPT !.ref = ref]) ELSE s
        ELSE IF ok
        THEN [PutNode(s, x, k, [mode |-> node.mode \cup {mode}, ref |-> ref, in |-> TRUE])
              EXCEPT !.npu = @ \cup {<<x, k, mode>>}]
        ELSE IF node.ref # 0 \/ (mode = "flow" /\ "port" \in node.mode)
        THEN [s EXCEPT !.torn = @ \cup {x}]
        ELSE PutNode(s, x, k, NoSNode)
  BY <1>1, <1>2 DEF PortAdded
<1>7. CASE ~ AddAsks(s, x, k, mode)
  <2>1. CASE x \notin sessions
    BY <1>6, <1>7, <2>1
  <2>2. CASE x \in sessions
    <3>1. PICK n : n = [node EXCEPT !.ref = ref]
      OBVIOUS
    <3>2. n \in SNode /\ n.mode = node.mode /\ n.ref = ref /\ n.in = node.in
      BY <3>1 DEF SNode
    <3>3. PICK u : u = PutNode(s, x, k, n)
      OBVIOUS
    <3>4. PortAdded(s, x, k, mode, ok) = u
      BY <1>6, <1>7, <2>2, <3>1, <3>3
    <3>5. NodePut(s, u, x, k, n)
      BY <1>0, <3>2, <3>3, PutNodeIs
    <3>6. SOk(u)
      BY <1>3, <1>4, <1>5, <3>2, <3>5, NodeChanged DEF NodePut
    <3> QED BY <3>4, <3>6
  <2> QED BY <2>1, <2>2
<1>8. CASE AddAsks(s, x, k, mode) /\ ok
  <2>1. PICK n : n = [mode |-> node.mode \cup {mode}, ref |-> ref, in |-> TRUE]
    OBVIOUS
  <2>2. n \in SNode /\ n.ref = ref /\ n.in
    BY <1>3, <2>1 DEF SNode
  <2>3. PICK u : u = PutNode(s, x, k, n)
    OBVIOUS
  <2>4. NodePut(s, u, x, k, n)
    BY <1>0, <2>2, <2>3, PutNodeIs
  <2>5. PICK v : v = [u EXCEPT !.npu = @ \cup {<<x, k, mode>>}]
    OBVIOUS
  <2>6. PortAdded(s, x, k, mode, ok) = v
    BY <1>6, <1>8, <2>1, <2>3, <2>5
  <2>7. /\ v \in SRec /\ v.tree = u.tree /\ v.info = u.info /\ v.torn = u.torn
        /\ v.refused = u.refused
    <3>1. u \in SRec
      BY <2>4 DEF NodePut
    <3> QED BY <2>5, <3>1 DEF SRec
  <2>8. x \in sessions
    BY <1>8 DEF AddAsks
  <2>9. SOk(v)
    BY <1>5, <2>2, <2>4, <2>7, <2>8, NodeChanged DEF NodePut
  <2> QED BY <2>6, <2>9
<1>9. CASE AddAsks(s, x, k, mode) /\ ~ ok /\ (node.ref # 0 \/ (mode = "flow" /\ "port" \in node.mode))
  <2>1. PICK v : v = [s EXCEPT !.torn = @ \cup {x}]
    OBVIOUS
  <2>2. PortAdded(s, x, k, mode, ok) = v
    BY <1>6, <1>9, <2>1
  <2>3. v \in SRec /\ v.tree = s.tree /\ x \in v.torn
    BY <1>0, <2>1 DEF SRec
  <2>4. SOk(v)
    BY <2>3 DEF SOk, NodesIn, Held
  <2> QED BY <2>2, <2>4
<1>10. CASE AddAsks(s, x, k, mode) /\ ~ ok /\ ~ (node.ref # 0 \/ (mode = "flow" /\ "port" \in node.mode))
  <2>1. PICK u : u = PutNode(s, x, k, NoSNode)
    OBVIOUS
  <2>2. PortAdded(s, x, k, mode, ok) = u
    BY <1>6, <1>10, <2>1
  <2>3. NodePut(s, u, x, k, NoSNode)
    BY <1>0, <2>1, NoNodeIs, PutNodeIs
  <2>4. ~ (s.torn = {} /\ x \notin s.refused /\ <<k, x>> \in s.info)
    BY <1>4, <1>10
  <2>5. SOk(u)
    BY <2>3, <2>4, NoNodeIs, NodeChanged DEF NodePut
  <2> QED BY <2>2, <2>5
<1> QED BY <1>7, <1>8, <1>9, <1>10

(* So does removing the sampling of a port itself.                         *)
LEMMA PortRemovedOk ==
  ASSUME NEW s, SOk(s), NEW x \in Sess, NEW k \in SPort, NEW ok \in BOOLEAN
  PROVE  SOk(PortRemoved(s, x, k, "port", ok))
<1>0. s \in SRec
  BY DEF SOk
<1>1. PICK node \in SNode : node = s.tree[x][k]
  BY <1>0, NodeIs
<1>2. s.torn = {} /\ x \notin s.refused /\ <<k, x>> \in s.info => node.ref >= 1
  BY <1>1 DEF SOk, Held
<1>3. PICK cut : cut = {<<x, k, "port">>}
  OBVIOUS
<1>4. PortRemoved(s, x, k, "port", ok) =
        IF x \notin sessions \/ ~ node.in \/ ~ ok THEN s
        ELSE [(IF node.ref = 0 THEN PutNode(s, x, k, NoSNode) ELSE [s EXCEPT !.torn = @ \cup {x}])
              EXCEPT !.npu = @ \ cut]
  BY <1>1, <1>3 DEF PortRemoved
<1>5. CASE x \notin sessions \/ ~ node.in \/ ~ ok
  BY <1>4, <1>5
<1>6. CASE ~ (x \notin sessions \/ ~ node.in \/ ~ ok) /\ node.ref = 0
  <2>1. PICK u : u = PutNode(s, x, k, NoSNode)
    OBVIOUS
  <2>2. NodePut(s, u, x, k, NoSNode)
    BY <1>0, <2>1, NoNodeIs, PutNodeIs
  <2>3. PICK v : v = [u EXCEPT !.npu = @ \ cut]
    OBVIOUS
  <2>4. PortRemoved(s, x, k, "port", ok) = v
    BY <1>4, <1>6, <2>1, <2>3
  <2>5. /\ v \in SRec /\ v.tree = u.tree /\ v.info = u.info /\ v.torn = u.torn
        /\ v.refused = u.refused
    <3>1. u \in SRec
      BY <2>2 DEF NodePut
    <3> QED BY <2>3, <3>1 DEF SRec
  <2>6. SOk(v)
    BY <1>2, <1>6, <2>2, <2>5, NoNodeIs, NodeChanged DEF NodePut
  <2> QED BY <2>4, <2>6
<1>7. CASE ~ (x \notin sessions \/ ~ node.in \/ ~ ok) /\ node.ref # 0
  <2>1. PICK v : v = [s EXCEPT !.torn = @ \cup {x}, !.npu = @ \ cut]
    OBVIOUS
  <2>2. PortRemoved(s, x, k, "port", ok) = v
    BY <1>0, <1>4, <1>7, <2>1 DEF SRec
  <2>3. v \in SRec /\ v.tree = s.tree /\ x \in v.torn
    BY <1>0, <2>1 DEF SRec
  <2> QED BY <2>2, <2>3 DEF SOk, NodesIn, Held
<1> QED BY <1>5, <1>6, <1>7

(* The end of the sampling of a port by one rule: the node that is left    *)
(* counts one less, or is gone with the last, or it was refused.           *)
FlowEnded(s, u, x, k, ok) ==
  /\ u \in SRec /\ s.refused \subseteq u.refused
  /\ u.tree[x][k].mode # {} => u.tree[x][k].in
  /\ u.tree[x][k].in => x \in sessions
  /\ s.tree[x][k].in /\ s.tree[x][k].ref >= 1 /\ x \notin u.refused =>
       /\ u.tree[x][k].ref < MaxFlow
       /\ RemoveOk(s, x, k, "flow", ok) \/ (u.tree[x][k].in /\ u.tree[x][k].ref >= 1)

(* Removing the sampling by a rule ends it, counts it down, or records the *)
(* refusal.                                                                *)
LEMMA FlowRemoved ==
  ASSUME NEW s, SOk(s), NEW x \in Sess, NEW k \in SPort, NEW ok \in BOOLEAN,
         NEW u, u = PortRemoved(s, x, k, "flow", ok)
  PROVE  FlowEnded(s, u, x, k, ok)
<1>0. s \in SRec
  BY DEF SOk
<1>1. PICK node \in SNode : node = s.tree[x][k]
  BY <1>0, NodeIs
<1>2. PICK ref \in 0..MaxFlow : ref = Less(node.ref)
  BY CountIs DEF SNode
<1>3. /\ node.ref \in 0..MaxFlow
      /\ node.mode # {} => node.in
      /\ node.in => x \in sessions
      /\ node.ref >= 1 => ref = node.ref - 1
  BY <1>1, <1>2, CountIs DEF SOk, NodesIn, SNode
<1>4. PICK cut : cut = {<<x, k, "flow">>}
  OBVIOUS
<1>5. u = IF x \notin sessions \/ ~ node.in THEN s
          ELSE IF ref # 0 \/ ~ ok
          THEN [PutNode(s, x, k, [node EXCEPT !.ref = ref])
                EXCEPT !.refused = IF ref = 0 THEN @ \cup {x} ELSE @]
          ELSE [PutNode(s, x, k, NoSNode) EXCEPT !.npu = @ \ cut]
  BY <1>1, <1>2, <1>4 DEF PortRemoved
<1>6. CASE x \notin sessions \/ ~ node.in
  BY <1>0, <1>1, <1>3, <1>5, <1>6 DEF FlowEnded
<1>7. CASE x \in sessions /\ node.in /\ (ref # 0 \/ ~ ok)
  <2>1. PICK n : n = [node EXCEPT !.ref = ref]
    OBVIOUS
  <2>2. n \in SNode /\ n.mode = node.mode /\ n.ref = ref /\ n.in = node.in
    BY <2>1 DEF SNode
  <2>3. PICK v : v = PutNode(s, x, k, n)
    OBVIOUS
  <2>4. NodePut(s, v, x, k, n)
    BY <1>0, <2>2, <2>3, PutNodeIs
  <2>5. PICK R : R = IF ref = 0 THEN v.refused \cup {x} ELSE v.refused
    OBVIOUS
  <2>6. u = [v EXCEPT !.refused = R]
    <3>1. v \in SRec
      BY <2>4 DEF NodePut
    <3> QED BY <1>5, <1>7, <2>1, <2>3, <2>5, <3>1 DEF SRec
  <2>7. u \in SRec /\ u.tree = v.tree /\ u.refused = R
    <3>1. v \in SRec
      BY <2>4 DEF NodePut
    <3>2. R \subseteq Sess
      BY <2>5, <3>1 DEF SRec
    <3> QED BY <2>6, <3>1, <3>2 DEF SRec
  <2>8. u.tree[x][k] = n /\ s.refused \subseteq R /\ (ref = 0 => x \in R)
    BY <2>4, <2>5, <2>7 DEF NodePut
  <2>9. node.ref >= 1 => ref < MaxFlow
    BY <1>3, SampleAssumption
  <2>10. x \notin u.refused => u.tree[x][k].ref >= 1
    BY <2>2, <2>7, <2>8
  <2>11. u.tree[x][k].in /\ s.tree[x][k].ref = node.ref /\ u.tree[x][k].ref = ref
    BY <1>1, <1>7, <2>2, <2>8
  <2> QED BY <1>7, <2>7, <2>8, <2>9, <2>10, <2>11 DEF FlowEnded
<1>8. CASE x \in sessions /\ node.in /\ ref = 0 /\ ok
  <2>1. PICK v : v = PutNode(s, x, k, NoSNode)
    OBVIOUS
  <2>2. NodePut(s, v, x, k, NoSNode)
    BY <1>0, <2>1, NoNodeIs, PutNodeIs
  <2>3. u = [v EXCEPT !.npu = @ \ cut]
    BY <1>5, <1>8, <2>1
  <2>4. u \in SRec /\ u.tree = v.tree /\ u.refused = v.refused
    <3>1. v \in SRec
      BY <2>2 DEF NodePut
    <3> QED BY <2>3, <3>1 DEF SRec
  <2>5. u.tree[x][k] = NoSNode /\ u.refused = s.refused
    BY <2>2, <2>4 DEF NodePut
  <2>6. RemoveOk(s, x, k, "flow", ok)
    BY <1>1, <1>2, <1>8 DEF RemoveOk
  <2>7. node.ref >= 1 => 0 < MaxFlow
    BY <1>3, SampleAssumption
  <2> QED BY <1>1, <2>4, <2>5, <2>6, <2>7, NoNodeIs DEF FlowEnded
<1> QED BY <1>6, <1>7, <1>8

(* The nodes of one session change, each as it should.                     *)
LEMMA NodesChanged ==
  ASSUME NEW s, SOk(s), NEW u \in SRec, NEW x \in Sess,
         \A y \in Sess \ {x}, j \in SPort : u.tree[y][j] = s.tree[y][j],
         \A j \in SPort : /\ u.tree[x][j].mode # {} => u.tree[x][j].in
                          /\ u.tree[x][j].in => x \in sessions,
         u.torn = s.torn, s.refused \subseteq u.refused,
         \A y \in Sess \ {x}, j \in SPort : <<j, y>> \in u.info => <<j, y>> \in s.info,
         s.torn = {} /\ x \notin u.refused => \A j \in SPort : <<j, x>> \in u.info =>
            u.tree[x][j].in /\ u.tree[x][j].ref >= 1
  PROVE  SOk(u)
<1>1. NodesIn(u)
  <2> SUFFICES ASSUME NEW y \in Sess, NEW j \in SPort
               PROVE  (u.tree[y][j].mode # {} => u.tree[y][j].in) /\ (u.tree[y][j].in => y \in sessions)
    BY DEF NodesIn
  <2>1. CASE y = x
    BY <2>1
  <2>2. CASE y # x
    BY <2>2 DEF SOk, NodesIn
  <2> QED BY <2>1, <2>2
<1>2. Held(u)
  <2> SUFFICES ASSUME u.torn = {}, NEW y \in Sess \ u.refused, NEW j \in SPort, <<j, y>> \in u.info
               PROVE  u.tree[y][j].in /\ u.tree[y][j].ref >= 1
    BY DEF Held
  <2>1. CASE y = x
    BY <2>1
  <2>2. CASE y # x
    BY <2>2 DEF SOk, Held
  <2> QED BY <2>1, <2>2
<1> QED BY <1>1, <1>2 DEF SOk

(* The sampling by a rule on a list of ports ends, port by port.           *)
LEMMA RemovedOk ==
  ASSUME NEW s, SOk(s), NEW list, PortsOf(list) \subseteq SPort, NEW x \in Sess,
         NEW ok \in [SPort -> BOOLEAN]
  PROVE  /\ SOk(Removed(s, list, x, ok)) /\ Removed(s, list, x, ok).torn = s.torn
         /\ Room(s) => Room(Removed(s, list, x, ok))
<1>0. s \in SRec
  BY DEF SOk
<1>1. PICK mine : mine = {k \in PortsOf(list) : <<k, x>> \in s.info}
  OBVIOUS
<1>2. PICK gone : gone = {k \in mine : RemoveOk(s, x, k, "flow", ok[k])}
  OBVIOUS
<1>3. PICK left : left = [k \in SPort |-> PortRemoved(s, x, k, "flow", ok[k])]
  OBVIOUS
<1>4. \A k \in SPort : left[k] = PortRemoved(s, x, k, "flow", ok[k]) /\ FlowEnded(s, left[k], x, k, ok[k])
  BY <1>3, FlowRemoved
<1>5. mine \subseteq SPort /\ gone \subseteq mine
  BY <1>1, <1>2
<1>6. PICK tx : tx = [k \in SPort |-> IF k \in mine THEN left[k].tree[x][k] ELSE s.tree[x][k]]
  OBVIOUS
<1>7. tx \in [SPort -> SNode]
  <2> SUFFICES ASSUME NEW k \in SPort
               PROVE  (IF k \in mine THEN left[k].tree[x][k] ELSE s.tree[x][k]) \in SNode
    BY <1>6
  <2>1. left[k] \in SRec
    BY <1>4 DEF FlowEnded
  <2> QED BY <1>0, <2>1, NodeIs
<1>8. PICK ref : ref = s.refused \cup UNION {left[k].refused : k \in mine}
  OBVIOUS
<1>9. ref \subseteq Sess /\ s.refused \subseteq ref /\ \A k \in mine : left[k].refused \subseteq ref
  <2>1. \A k \in mine : left[k].refused \subseteq Sess
    BY <1>4, <1>5 DEF FlowEnded, SRec
  <2> QED BY <1>0, <1>8, <2>1 DEF SRec
<1>10. PICK ncut, icut : /\ ncut = {<<x, k, "flow">> : k \in gone}
                         /\ icut = {<<k, x>> : k \in gone \cup (list \cap {AllPorts})}
  OBVIOUS
<1>11. PICK tr : tr = [s.tree EXCEPT ![x] = tx]
  OBVIOUS
<1>12. PICK u : u = [s EXCEPT !.tree = tr, !.refused = ref, !.npu = @ \ ncut, !.info = @ \ icut]
  OBVIOUS
<1>13. Removed(s, list, x, ok) = u
  <2>1. [k \in SPort |-> IF k \in mine THEN PortRemoved(s, x, k, "flow", ok[k]).tree[x][k]
                         ELSE s.tree[x][k]] = tx
    BY <1>4, <1>6
  <2>2. UNION {PortRemoved(s, x, k, "flow", ok[k]).refused : k \in mine} =
          UNION {left[k].refused : k \in mine}
    BY <1>4, <1>5
  <2> QED BY <1>0, <1>1, <1>2, <1>8, <1>10, <1>11, <1>12, <2>1, <2>2 DEF Removed, SRec
<1>14. /\ u \in SRec /\ u.torn = s.torn /\ u.refused = ref /\ u.info = s.info \ icut
       /\ \A j \in SPort : u.tree[x][j] = IF j \in mine THEN left[j].tree[x][j] ELSE s.tree[x][j]
       /\ \A y \in Sess \ {x}, j \in SPort : u.tree[y][j] = s.tree[y][j]
  <2>1. /\ tr \in [Sess -> [SPort -> SNode]] /\ tr[x] = tx
        /\ \A y \in Sess \ {x} : tr[y] = s.tree[y]
    BY <1>0, <1>7, <1>11 DEF SRec
  <2>2. /\ u \in SRec /\ u.torn = s.torn /\ u.refused = ref /\ u.info = s.info \ icut
        /\ u.tree = tr
    BY <1>0, <1>9, <1>12, <2>1 DEF SRec
  <2> QED BY <1>6, <2>1, <2>2
<1>15. ASSUME NEW j \in SPort
       PROVE  (u.tree[x][j].mode # {} => u.tree[x][j].in) /\ (u.tree[x][j].in => x \in sessions)
  <2>1. CASE j \in mine
    BY <1>4, <1>14, <2>1 DEF FlowEnded
  <2>2. CASE j \notin mine
    BY <1>14, <2>2 DEF SOk, NodesIn
  <2> QED BY <2>1, <2>2
<1>16. ASSUME s.torn = {}, x \notin ref, NEW j \in SPort, j \in mine
       PROVE  /\ u.tree[x][j].ref < MaxFlow
              /\ j \in gone \/ (u.tree[x][j].in /\ u.tree[x][j].ref >= 1)
  <2>1. s.tree[x][j].in /\ s.tree[x][j].ref >= 1
    BY <1>1, <1>9, <1>16 DEF SOk, Held
  <2>2. x \notin left[j].refused
    BY <1>9, <1>16
  <2>3. /\ left[j].tree[x][j].ref < MaxFlow
        /\ RemoveOk(s, x, j, "flow", ok[j]) \/ (left[j].tree[x][j].in /\ left[j].tree[x][j].ref >= 1)
    <3>1. FlowEnded(s, left[j], x, j, ok[j])
      BY <1>4
    <3> QED BY <2>1, <2>2, <3>1, Zenon DEF FlowEnded
  <2>4. u.tree[x][j] = left[j].tree[x][j]
    BY <1>14, <1>16
  <2>5. RemoveOk(s, x, j, "flow", ok[j]) => j \in gone
    BY <1>2, <1>16
  <2> QED BY <2>3, <2>4, <2>5
<1>17. ASSUME s.torn = {}, x \notin ref, NEW j \in SPort, <<j, x>> \in u.info
       PROVE  u.tree[x][j].in /\ u.tree[x][j].ref >= 1
  <2>1. j \notin gone /\ <<j, x>> \in s.info
    BY <1>10, <1>14, <1>17
  <2>2. CASE j \in mine
    BY <1>16, <1>17, <2>1, <2>2
  <2>3. CASE j \notin mine
    BY <1>9, <1>14, <1>17, <2>1, <2>3 DEF SOk, Held
  <2> QED BY <2>2, <2>3
<1>18. \A y \in Sess \ {x}, j \in SPort : <<j, y>> \in u.info => <<j, y>> \in s.info
  BY <1>14
<1>19. SOk(u)
  BY <1>9, <1>14, <1>15, <1>17, <1>18, NodesChanged
<1>20. ASSUME Room(s)  PROVE Room(u)
  <2> SUFFICES ASSUME u.torn = {}, NEW y \in Sess \ u.refused, NEW j \in SPort
               PROVE  u.tree[y][j].ref < MaxFlow
    BY DEF Room
  <2>1. s.torn = {} /\ y \notin ref /\ y \notin s.refused
    BY <1>9, <1>14
  <2>2. s.tree[y][j].ref < MaxFlow
    BY <1>20, <2>1 DEF Room
  <2>3. CASE y = x /\ j \in mine
    BY <1>16, <2>1, <2>3
  <2>4. CASE ~ (y = x /\ j \in mine)
    BY <1>14, <2>2, <2>4
  <2> QED BY <2>3, <2>4
<1> QED BY <1>13, <1>14, <1>19, <1>20

(* The end of a sampling by a rule, whatever the NPU says at each port     *)
LEMMA SampleRemoveOk ==
  ASSUME NEW s, SOk(s), NEW list, PortsOf(list) \subseteq SPort, NEW x \in Sess,
         NEW d \in SampleRemove(s, list, x)
  PROVE  SOk(d.s) /\ (Room(s) => Room(d.s)) /\ d.s.torn = s.torn
<1>1. PICK ok \in [SPort -> BOOLEAN] : \E last : d = [s |-> Removed(s, list, x, ok), ok |-> last]
  BY DEF SampleRemove
<1>2. d.s = Removed(s, list, x, ok)
  BY <1>1
<1> QED BY <1>2, RemovedOk

(* A rule samples the ports of S by a session of the tree.                 *)
LEMMA UpdatedOk ==
  ASSUME NEW s, SOk(s), Room(s), NEW S \in SUBSET SPort, NEW x \in Sess, x \in sessions
  PROVE  /\ SOk(Updated(s, x, S)) /\ Updated(s, x, S).torn = s.torn
         /\ \A k \in SPort \ S : Updated(s, x, S).tree[x][k] = s.tree[x][k]
         /\ Updated(s, x, S).refused = s.refused
         /\ s.torn = {} /\ x \notin s.refused =>
              \A k \in S : Updated(s, x, S).tree[x][k].in /\ Updated(s, x, S).tree[x][k].ref >= 1
<1>0. s \in SRec
  BY DEF SOk
<1>1. PICK new : new = [k \in SPort |-> PortAdded(s, x, k, "flow", TRUE)]
  OBVIOUS
<1>2. ASSUME NEW k \in SPort
      PROVE  /\ new[k].tree[x][k] \in SNode /\ new[k].tree[x][k].in
             /\ s.torn = {} /\ x \notin s.refused => new[k].tree[x][k].ref >= 1
  <2>1. PICK node \in SNode : node = s.tree[x][k]
    BY <1>0, NodeIs
  <2>2. /\ node.ref \in 0..MaxFlow /\ node.mode \subseteq SMode
        /\ node.mode # {} => node.in
        /\ s.torn = {} /\ x \notin s.refused => node.ref < MaxFlow
    BY <2>1 DEF SOk, NodesIn, SNode, Room
  <2>3. PICK ref \in 0..MaxFlow : ref = More(node.ref)
    BY <2>2, CountIs
  <2>4. node.ref < MaxFlow => ref >= 1
    BY <2>2, <2>3, CountIs
  <2>5. new[k] = IF "flow" \in node.mode
                 THEN PutNode(s, x, k, [node EXCEPT !.ref = ref])
                 ELSE [PutNode(s, x, k, [mode |-> node.mode \cup {"flow"}, ref |-> ref, in |-> TRUE])
                       EXCEPT !.npu = @ \cup {<<x, k, "flow">>}]
    BY <1>1, <2>1, <2>3 DEF PortAdded, AddAsks
  <2>6. CASE "flow" \in node.mode
    <3>1. PICK n : n = [node EXCEPT !.ref = ref]
      OBVIOUS
    <3>2. n \in SNode /\ n.ref = ref /\ n.in
      BY <2>2, <2>6, <3>1 DEF SNode
    <3>3. NodePut(s, new[k], x, k, n)
      <4>1. new[k] = PutNode(s, x, k, n)
        BY <2>5, <2>6, <3>1
      <4> QED BY <1>0, <3>2, <4>1, PutNodeIs
    <3> QED BY <2>2, <2>4, <3>2, <3>3 DEF NodePut
  <2>7. CASE "flow" \notin node.mode
    <3>1. PICK n : n = [mode |-> node.mode \cup {"flow"}, ref |-> ref, in |-> TRUE]
      OBVIOUS
    <3>2. n \in SNode /\ n.ref = ref /\ n.in
      BY <2>2, <3>1 DEF SNode, SMode
    <3>3. PICK u : u = PutNode(s, x, k, n)
      OBVIOUS
    <3>4. NodePut(s, u, x, k, n)
      BY <1>0, <3>2, <3>3, PutNodeIs
    <3>5. new[k] = [u EXCEPT !.npu = @ \cup {<<x, k, "flow">>}]
      BY <2>5, <2>7, <3>1, <3>3
    <3>6. new[k].tree = u.tree
      <4>1. u \in SRec
        BY <3>4 DEF NodePut
      <4> QED BY <3>5, <4>1 DEF SRec
    <3> QED BY <2>2, <2>4, <3>2, <3>4, <3>6 DEF NodePut
  <2> QED BY <2>6, <2>7
<1>3. PICK tx : tx = [k \in SPort |-> IF k \in S THEN new[k].tree[x][k] ELSE s.tree[x][k]]
  OBVIOUS
<1>4. tx \in [SPort -> SNode]
  <2> SUFFICES ASSUME NEW k \in SPort
               PROVE  (IF k \in S THEN new[k].tree[x][k] ELSE s.tree[x][k]) \in SNode
    BY <1>3
  <2> QED BY <1>0, <1>2, NodeIs
<1>5. PICK tr : tr = [s.tree EXCEPT ![x] = tx]
  OBVIOUS
<1>6. PICK nadd, iadd : nadd = {<<x, k, "flow">> : k \in S} /\ iadd = {<<k, x>> : k \in S}
  OBVIOUS
<1>7. PICK u : u = [s EXCEPT !.info = @ \cup iadd, !.tree = tr, !.npu = @ \cup nadd]
  OBVIOUS
<1>8. Updated(s, x, S) = u
  <2>1. [k \in SPort |-> IF k \in S THEN PortAdded(s, x, k, "flow", TRUE).tree[x][k]
                         ELSE s.tree[x][k]] = tx
    BY <1>1, <1>3
  <2> QED BY <1>0, <1>5, <1>6, <1>7, <2>1 DEF Updated, SRec
<1>9. /\ u \in SRec /\ u.torn = s.torn /\ u.refused = s.refused /\ u.info = s.info \cup iadd
      /\ \A j \in SPort : u.tree[x][j] = IF j \in S THEN new[j].tree[x][j] ELSE s.tree[x][j]
      /\ \A y \in Sess \ {x}, j \in SPort : u.tree[y][j] = s.tree[y][j]
  <2>1. /\ tr \in [Sess -> [SPort -> SNode]] /\ tr[x] = tx
        /\ \A y \in Sess \ {x} : tr[y] = s.tree[y]
    BY <1>0, <1>4, <1>5 DEF SRec
  <2>2. nadd \subseteq Sess \X SPort \X SMode /\ iadd \subseteq (SPort \cup {AllPorts}) \X Sess
    BY <1>6 DEF SMode
  <2>3. /\ u \in SRec /\ u.torn = s.torn /\ u.refused = s.refused /\ u.info = s.info \cup iadd
        /\ u.tree = tr
    BY <1>0, <1>7, <2>1, <2>2 DEF SRec
  <2> QED BY <1>3, <2>1, <2>3
<1>10. ASSUME NEW j \in SPort
       PROVE  (u.tree[x][j].mode # {} => u.tree[x][j].in) /\ (u.tree[x][j].in => x \in sessions)
  BY <1>2, <1>9 DEF SOk, NodesIn
<1>11. ASSUME s.torn = {}, x \notin s.refused, NEW j \in SPort, <<j, x>> \in u.info
       PROVE  u.tree[x][j].in /\ u.tree[x][j].ref >= 1
  <2>1. CASE j \in S
    BY <1>2, <1>9, <1>11, <2>1
  <2>2. CASE j \notin S
    <3>1. <<j, x>> \in s.info
      BY <1>6, <1>9, <1>11, <2>2
    <3> QED BY <1>9, <1>11, <2>2, <3>1 DEF SOk, Held
  <2> QED BY <2>1, <2>2
<1>12. \A y \in Sess \ {x}, j \in SPort : <<j, y>> \in u.info => <<j, y>> \in s.info
  BY <1>6, <1>9
<1>13. SOk(u)
  BY <1>9, <1>10, <1>11, <1>12, NodesChanged
<1> QED BY <1>2, <1>8, <1>9, <1>13

(* A new sampling by a rule, stopped at a refusal or not                   *)
LEMMA SampleUpdateOk ==
  ASSUME NEW s, SOk(s), Room(s), NEW x \in Sess, NEW o,
         NEW list, PortsOf(list) \subseteq SPort, list \subseteq SPort \cup {AllPorts},
         o \in SampleUpdate(s, list, x)
  PROVE  SOk(o.s)
<1>1. CASE x \notin sessions
  BY <1>1 DEF SampleUpdate
<1>2. CASE x \in sessions
  <2>1. \/ o = [s |-> [Updated(s, x, PortsOf(list)) EXCEPT !.info = @ \cup {<<k, x>> : k \in list}],
               ok |-> TRUE]
        \/ \E S \in SUBSET PortsOf(list), k \in PortsOf(list) :
             k \notin S /\ o = [s |-> PortAdded(Updated(s, x, S), x, k, "flow", FALSE), ok |-> FALSE]
    BY <1>2 DEF SampleUpdate
  <2>2. CASE o = [s |-> [Updated(s, x, PortsOf(list)) EXCEPT !.info = @ \cup {<<k, x>> : k \in list}],
                  ok |-> TRUE]
    <3>1. PICK v : v = Updated(s, x, PortsOf(list))
      OBVIOUS
    <3>2. /\ SOk(v) /\ v.torn = s.torn /\ v.refused = s.refused
          /\ s.torn = {} /\ x \notin s.refused =>
               \A k \in PortsOf(list) : v.tree[x][k].in /\ v.tree[x][k].ref >= 1
      BY <1>2, <3>1, UpdatedOk
    <3>3. PICK iadd : iadd = {<<k, x>> : k \in list}
      OBVIOUS
    <3>4. PICK u : u = [v EXCEPT !.info = @ \cup iadd]
      OBVIOUS
    <3>5. o.s = u
      BY <2>2, <3>1, <3>3, <3>4
    <3>6. /\ u \in SRec /\ u.torn = v.torn /\ u.refused = v.refused /\ u.info = v.info \cup iadd
          /\ u.tree = v.tree
      <4>1. v \in SRec /\ iadd \subseteq (SPort \cup {AllPorts}) \X Sess
        BY <3>2, <3>3 DEF SOk
      <4> QED BY <3>4, <4>1 DEF SRec
    <3>7. \A j \in SPort : j \in list => j \in PortsOf(list)
      BY SampleAssumption DEF PortsOf
    <3>8. NodesIn(u)
      BY <3>2, <3>6 DEF SOk, NodesIn
    <3>9. Held(u)
      <4> SUFFICES ASSUME u.torn = {}, NEW y \in Sess \ u.refused, NEW j \in SPort, <<j, y>> \in u.info
                   PROVE  v.tree[y][j].in /\ v.tree[y][j].ref >= 1
        BY <3>6 DEF Held
      <4>1. CASE <<j, y>> \in v.info
        BY <3>2, <3>6, <4>1 DEF SOk, Held
      <4>2. CASE <<j, y>> \notin v.info
        <5>1. y = x /\ j \in list
          BY <3>3, <3>6, <4>2
        <5> QED BY <3>2, <3>6, <3>7, <5>1
      <4> QED BY <4>1, <4>2
    <3> QED BY <3>5, <3>6, <3>8, <3>9 DEF SOk
  <2>3. ASSUME NEW S \in SUBSET PortsOf(list), NEW k \in PortsOf(list), k \notin S,
               o = [s |-> PortAdded(Updated(s, x, S), x, k, "flow", FALSE), ok |-> FALSE]
        PROVE  SOk(o.s)
    <3>1. PICK v : v = Updated(s, x, S)
      OBVIOUS
    <3>2. SOk(v) /\ v.torn = s.torn /\ v.refused = s.refused /\ v.tree[x][k] = s.tree[x][k]
      <4>1. S \in SUBSET SPort /\ k \in SPort \ S
        BY <2>3
      <4> QED BY <1>2, <3>1, <4>1, UpdatedOk
    <3>3. v.torn = {} /\ x \notin v.refused => v.tree[x][k].ref < MaxFlow
      BY <2>3, <3>2 DEF Room
    <3>4. k \in SPort /\ "flow" \in SMode
      BY <2>3 DEF SMode
    <3>5. SOk(PortAdded(v, x, k, "flow", FALSE))
      BY <3>2, <3>3, <3>4, PortAddedOk
    <3>6. o.s = PortAdded(v, x, k, "flow", FALSE)
      BY <2>3, <3>1
    <3> QED BY <3>5, <3>6
  <2> QED BY <2>1, <2>2, <2>3
<1> QED BY <1>1, <1>2

(* The record of the current state                                         *)
LEMMA StateIs ==
  /\ SState.tree = port_tree /\ SState.npu = npuSampled /\ SState.info = acl_info
  /\ SState.torn = torn /\ SState.refused = refused
BY DEF SState

(* No session at first                                                     *)
LEMMA SampleInitOk ==
  ASSUME SampleInit
  PROVE  SampleInv
<1>1. SState \in SRec
  BY NoNodeIs DEF SampleInit, SState, SRec
<1>2. \A x \in Sess, k \in SPort : port_tree[x][k] = NoSNode
  BY DEF SampleInit
<1>3. acl_info = {}
  BY DEF SampleInit
<1> QED BY <1>1, <1>2, <1>3, StateIs, NoNodeIs DEF SampleInit, SampleInv, SOk, NodesIn, Held

(* What the invariant says of the variables                                *)
LEMMA SampleInvIs ==
  ASSUME SampleInv
  PROVE  SampleTypeOK
BY StateIs DEF SampleInv, SOk, SRec, SampleTypeOK

(* The calls on sessions and on the session of a port                      *)
LEMMA SampleNextOk ==
  ASSUME SampleInv, SampleNext
  PROVE  SampleInv'
<1>1. ASSUME NEW x \in Sess, CreateSession(x) \/ RemoveSession(x)
      PROVE  SampleInv'
  <2>1. SState' = SState /\ sample_object' = sample_object /\ sessions' \subseteq Sess
    BY <1>1 DEF CreateSession, RemoveSession, SState, SampleInv
  <2>2. port_tree' = port_tree
    BY <1>1 DEF CreateSession, RemoveSession
  <2>3. \A y \in sessions : y \in sessions' \/ (y = x /\ \A k \in SPort : ~ port_tree[x][k].in)
    BY <1>1 DEF CreateSession, RemoveSession
  <2>4. SOk(SState)'
    <3>1. SState \in SRec /\ NodesIn(SState) /\ Held(SState)
      BY DEF SampleInv, SOk
    <3>2. NodesIn(SState)'
      BY <2>2, <2>3, <3>1, StateIs DEF NodesIn, SState
    <3>3. Held(SState)'
      BY <2>1, <3>1 DEF Held, SState
    <3> QED BY <2>1, <3>1, <3>2, <3>3 DEF SOk
  <2> QED BY <2>1, <2>4 DEF SampleInv
<1>2. ASSUME NEW k \in SPort, NEW x \in Sess \cup {NoSess}, SetPortSession(k, x)
      PROVE  SampleInv'
  <2>0. "port" \in SMode /\ SOk(SState) /\ sample_object \in [SPort -> Sess \cup {NoSess}]
    BY DEF SMode, SampleInv
  <2>1. PICK ok \in BOOLEAN :
          IF x # NoSess
          THEN Commit(PortAdded(SState, x, k, "port", ok))
          ELSE Commit(PortRemoved(SState, sample_object[k], k, "port", ok))
    BY <1>2 DEF SetPortSession
  <2>2. /\ x # NoSess <=> sample_object[k] = NoSess
        /\ sample_object' \in [SPort -> Sess \cup {NoSess}] /\ sessions' = sessions
    BY <1>2, <2>0 DEF SetPortSession
  <2>3. \E s : SOk(s) /\ Commit(s)
    <3>1. CASE x # NoSess
      <4>1. SOk(PortAdded(SState, x, k, "port", ok))
        BY <2>0, <3>1, PortAddedOk
      <4> QED BY <2>1, <3>1, <4>1
    <3>2. CASE x = NoSess
      <4>1. SOk(PortRemoved(SState, sample_object[k], k, "port", ok))
        BY <2>0, <2>2, <3>2, PortRemovedOk
      <4> QED BY <2>1, <3>2, <4>1
    <3> QED BY <3>1, <3>2
  <2>4. SOk(SState)'
    BY <2>2, <2>3, CommitOk
  <2> QED BY <2>2, <2>4 DEF SampleInv
<1> QED BY <1>1, <1>2 DEF SampleNext

---------------------------------------------------------------------------
(* Tables, and what they count                                             *)

(* The rules and the counters a table counts                               *)
RulesOf(t) == {r \in ARule \ orphans : HasRule(r) /\ rules[r].table = t}
CountersOf(t) == {c \in Counter : counters[c] = t}

Call == [op : {"idle", "table", "rule"}, prio : APrio \cup {NoPrio},
         table : ATable \cup {NoTable}, stale : BOOLEAN]
TabTypes ==
  /\ atables \in [ATable -> APrio \cup {NoPrio}] /\ installed \subseteq ATable
  /\ rule_count \in [ATable -> Nat] /\ num_counters \in [ATable -> Nat]
  /\ calls \in [Caller -> Call]
  /\ counters \in [Counter -> ATable \cup {NoTable}]
  /\ rules \in [ARule -> RuleInfo \cup {NoARule}] /\ orphans \subseteq ARule

(* A call that found a table, which is still there or is known to be gone  *)
CallRight(c) ==
  /\ calls[c].op = "table" => calls[c].prio \in APrio
  /\ calls[c].op # "rule" => calls[c].table = NoTable /\ ~ calls[c].stale
  /\ calls[c].op = "rule" => /\ calls[c].table \in ATable
                             /\ ~ calls[c].stale => HasTable(calls[c].table)
CallsRight == \A c \in Caller : CallRight(c)
TabInv == TabTypes /\ CallsRight /\ TablesCount

(* TablesCount in terms of these sets                                      *)
LEMMA CountIsOf ==
  TablesCount <=>
    /\ \A t \in ATable : HasTable(t) =>
         rule_count[t] = Cardinality(RulesOf(t)) /\ num_counters[t] = Cardinality(CountersOf(t))
    /\ \A r \in ARule \ orphans : HasRule(r) => HasTable(rules[r].table)
    /\ \A c \in Counter : HasCounter(c) => HasTable(counters[c])
BY DEF TablesCount, RulesOf, CountersOf

(* Both are finite.                                                        *)
LEMMA OfFinite == \A t : IsFiniteSet(RulesOf(t)) /\ IsFiniteSet(CountersOf(t))
BY AclAssumption, FS_Subset DEF RulesOf, CountersOf

(* A finite set has one more or one less, and the empty set none.          *)
LEMMA OneMore ==
  ASSUME NEW S, IsFiniteSet(S), NEW x, x \notin S
  PROVE  Cardinality(S \cup {x}) = Cardinality(S) + 1 /\ Cardinality(S) \in Nat
BY FS_AddElement, FS_CardinalityType

(* ... or one less                                                         *)
LEMMA OneLess ==
  ASSUME NEW S, IsFiniteSet(S), NEW x \in S
  PROVE  /\ Cardinality(S \ {x}) = Cardinality(S) - 1
         /\ Cardinality(S) - 1 \in Nat
<1>1. Cardinality(S \ {x}) = Cardinality(S) - 1 /\ IsFiniteSet(S \ {x})
  BY FS_RemoveElement
<1>2. Cardinality(S \ {x}) \in Nat
  BY <1>1, FS_CardinalityType
<1> QED BY <1>1, <1>2

(* A count of zero is an empty set.                                        *)
LEMMA NoneIn ==
  ASSUME NEW S, IsFiniteSet(S)
  PROVE  Cardinality(S) = 0 <=> S = {}
BY FS_EmptySet

(* The tables count what they did when no rule comes, goes or moves.       *)
LEMMA TabKept ==
  ASSUME TabInv, UNCHANGED <<tableVars, counters, orphans>>,
         rules' \in [ARule -> RuleInfo \cup {NoARule}],
         \A r \in ARule : /\ HasRule(r)' <=> HasRule(r)
                          /\ HasRule(r) => rules'[r].table = rules[r].table
  PROVE  TabInv'
<1>1. /\ UNCHANGED <<atables, installed, rule_count, num_counters, calls>>
      /\ UNCHANGED <<counters, orphans>>
  BY DEF tableVars
<1>2. \A t : RulesOf(t)' = RulesOf(t) /\ CountersOf(t)' = CountersOf(t)
  BY <1>1 DEF RulesOf, CountersOf
<1>3. CallsRight' /\ TabTypes'
  BY <1>1 DEF TabInv, TabTypes, CallsRight, CallRight, HasTable
<1>4. TablesCount'
  <2>1. \A t \in ATable : HasTable(t)' =>
          rule_count'[t] = Cardinality(RulesOf(t)') /\ num_counters'[t] = Cardinality(CountersOf(t)')
    BY <1>1, <1>2, CountIsOf DEF TabInv, HasTable
  <2>2. \A r \in ARule \ orphans' : HasRule(r)' => HasTable(rules[r].table)'
    BY <1>1, CountIsOf DEF TabInv, HasTable
  <2>3. \A c \in Counter : HasCounter(c)' => HasTable(counters[c])'
    BY <1>1, CountIsOf DEF TabInv, HasTable, HasCounter
  <2> QED BY <2>1, <2>2, <2>3 DEF TablesCount, RulesOf, CountersOf
<1> QED BY <1>3, <1>4 DEF TabInv

(* The calls a creation starts from and goes to                            *)
LEMMA IdleIs ==
  /\ Idle \in Call /\ Idle.op = "idle" /\ Idle.prio = NoPrio /\ Idle.table = NoTable /\ ~ Idle.stale
  /\ \A prio \in APrio : /\ [Idle EXCEPT !.op = "table", !.prio = prio] \in Call
                         /\ [Idle EXCEPT !.op = "table", !.prio = prio].op = "table"
                         /\ [Idle EXCEPT !.op = "table", !.prio = prio].prio = prio
                         /\ [Idle EXCEPT !.op = "table", !.prio = prio].table = NoTable
                         /\ ~ [Idle EXCEPT !.op = "table", !.prio = prio].stale
  /\ \A t \in ATable : /\ [Idle EXCEPT !.op = "rule", !.table = t] \in Call
                       /\ [Idle EXCEPT !.op = "rule", !.table = t].op = "rule"
                       /\ [Idle EXCEPT !.op = "rule", !.table = t].table = t
                       /\ ~ [Idle EXCEPT !.op = "rule", !.table = t].stale
BY DEF Idle, Call

(* A call goes on to d, which is as calls must be.                         *)
LEMMA CallGoes ==
  ASSUME TabInv, NEW c \in Caller, NEW d \in Call, calls' = [calls EXCEPT ![c] = d],
         UNCHANGED <<atables, rule_count, num_counters, counters, rules, orphans>>,
         installed' \subseteq ATable,
         d.op = "table" => d.prio \in APrio,
         d.op # "rule" => d.table = NoTable /\ ~ d.stale,
         d.op = "rule" => d.table \in ATable /\ (~ d.stale => HasTable(d.table))
  PROVE  TabInv'
<1>1. \A t : RulesOf(t)' = RulesOf(t) /\ CountersOf(t)' = CountersOf(t)
  BY DEF RulesOf, CountersOf, HasRule
<1>2. TabTypes'
  BY DEF TabInv, TabTypes
<1>3. CallsRight'
  <2> SUFFICES ASSUME NEW b \in Caller  PROVE CallRight(b)'
    BY DEF CallsRight
  <2>1. calls \in [Caller -> Call]
    BY DEF TabInv, TabTypes
  <2>2. CASE b = c
    BY <2>1, <2>2 DEF CallRight, HasTable
  <2>3. CASE b # c
    BY <2>1, <2>3 DEF TabInv, CallsRight, CallRight, HasTable
  <2> QED BY <2>2, <2>3
<1>4. TablesCount'
  BY CountIsOf, <1>1 DEF TabInv, HasTable, HasRule, HasCounter, TablesCount, RulesOf, CountersOf
<1> QED BY <1>2, <1>3, <1>4 DEF TabInv

(* A priority no table has was looked up.                                  *)
LEMMA ValidateTableTab ==
  ASSUME TabInv, NEW c \in Caller, NEW prio \in APrio, ValidateTable(c, prio),
         UNCHANGED <<counters, rules, orphans>>
  PROVE  TabInv'
<1>1. PICK d : d = [Idle EXCEPT !.op = "table", !.prio = prio]
  OBVIOUS
<1>2. /\ d \in Call /\ d.op = "table" /\ d.prio = prio /\ d.table = NoTable /\ ~ d.stale
  BY <1>1, IdleIs
<1>3. calls' = [calls EXCEPT ![c] = d] /\ UNCHANGED <<atables, installed, rule_count, num_counters>>
  BY <1>1 DEF ValidateTable
<1>4. installed' \subseteq ATable
  BY <1>3 DEF TabInv, TabTypes
<1> QED BY <1>2, <1>3, <1>4, CallGoes

(* A table for a rule was looked up.                                       *)
LEMMA LookupTableTab ==
  ASSUME TabInv, NEW c \in Caller, NEW t \in ATable, LookupTable(c, t)
  PROVE  TabInv'
<1>1. PICK d : d = [Idle EXCEPT !.op = "rule", !.table = t]
  OBVIOUS
<1>2. d \in Call /\ d.op = "rule" /\ d.table = t /\ ~ d.stale
  BY <1>1, IdleIs
<1>3. /\ calls' = [calls EXCEPT ![c] = d] /\ HasTable(t)
      /\ UNCHANGED <<atables, installed, rule_count, num_counters, counters, rules, orphans>>
  BY <1>1 DEF LookupTable, ruleVars
<1>4. installed' \subseteq ATable
  BY <1>3 DEF TabInv, TabTypes
<1> QED BY <1>2, <1>3, <1>4, CallGoes

(* A creation that fails, of a table or of a rule                          *)
LEMMA CallEndsTab ==
  ASSUME TabInv, NEW c \in Caller, calls' = [calls EXCEPT ![c] = Idle],
         UNCHANGED <<atables, rule_count, num_counters, counters, rules, orphans>>,
         installed' \subseteq ATable
  PROVE  TabInv'
BY IdleIs, CallGoes

(* A new table counts nothing, and nothing names it.                       *)
LEMMA CreateTableTab ==
  ASSUME TabInv, NEW c \in Caller, NEW t \in ATable, CreateTable(c, t),
         UNCHANGED <<counters, rules, orphans>>
  PROVE  TabInv'
<1>1. CASE UNCHANGED <<atables, installed, rule_count, num_counters>>
  <2>1. calls' = [calls EXCEPT ![c] = Idle] /\ installed' \subseteq ATable
    BY <1>1 DEF CreateTable, TabInv, TabTypes
  <2> QED BY <1>1, <2>1, CallEndsTab
<1>2. ASSUME ~ HasTable(t),
             atables' = [atables EXCEPT ![t] = calls[c].prio],
             rule_count' = [rule_count EXCEPT ![t] = 0],
             num_counters' = [num_counters EXCEPT ![t] = 0],
             installed' \in {installed, installed \cup {t}}
      PROVE  TabInv'
  <2>1. calls[c].op = "table" /\ calls' = [calls EXCEPT ![c] = Idle]
    BY DEF CreateTable
  <2>2. calls[c].prio \in APrio /\ calls[c].prio # NoPrio
    BY <2>1, AclTableAssumption DEF TabInv, CallsRight, CallRight
  <2>3. TabTypes'
    BY <1>2, <2>1, <2>2, IdleIs DEF TabInv, TabTypes
  <2>4. \A u \in ATable : HasTable(u)' <=> HasTable(u) \/ u = t
    BY <1>2, <2>2 DEF TabInv, TabTypes, HasTable
  <2>5. CallsRight'
    <3> SUFFICES ASSUME NEW b \in Caller  PROVE CallRight(b)'
      BY DEF CallsRight
    <3>1. calls \in [Caller -> Call]
      BY DEF TabInv, TabTypes
    <3>2. CASE b = c
      BY <2>1, <3>1, <3>2, IdleIs DEF CallRight
    <3>3. CASE b # c
      BY <2>1, <2>4, <3>1, <3>3 DEF TabInv, CallsRight, CallRight
    <3> QED BY <3>2, <3>3
  <2>6. \A u : RulesOf(u)' = RulesOf(u) /\ CountersOf(u)' = CountersOf(u)
    BY DEF RulesOf, CountersOf, HasRule
  <2>7. RulesOf(t) = {} /\ CountersOf(t) = {}
    BY <1>2, AclTableAssumption, CountIsOf DEF TabInv, RulesOf, CountersOf, HasCounter
  <2>8. Cardinality({}) = 0
    BY FS_EmptySet
  <2>9. ASSUME NEW u \in ATable, HasTable(u)'
        PROVE  rule_count'[u] = Cardinality(RulesOf(u)') /\ num_counters'[u] = Cardinality(CountersOf(u)')
    <3>1. CASE u = t
      BY <1>2, <2>6, <2>7, <2>8, <3>1 DEF TabInv, TabTypes
    <3>2. CASE u # t
      BY <1>2, <2>4, <2>6, <2>9, <3>2, CountIsOf DEF TabInv, TabTypes
    <3> QED BY <3>1, <3>2
  <2>10. /\ \A r \in ARule \ orphans' : HasRule(r)' => HasTable(rules[r].table)'
         /\ \A k \in Counter : HasCounter(k)' => HasTable(counters[k])'
    <3>1. \A r \in ARule : HasRule(r) => rules[r].table \in ATable
      BY DEF TabInv, TabTypes, HasRule, RuleInfo
    <3>2. \A k \in Counter : HasCounter(k) => counters[k] \in ATable
      BY DEF TabInv, TabTypes, HasCounter
    <3> QED BY <2>4, <3>1, <3>2, CountIsOf DEF TabInv, HasRule, HasCounter
  <2> QED BY <2>3, <2>5, <2>9, <2>10 DEF TabInv, TablesCount, RulesOf, CountersOf
<1> QED BY <1>1, <1>2 DEF CreateTable

(* A table with both counts zero leaves no rule and no counter behind.     *)
LEMMA DeleteTableTab ==
  ASSUME TabInv, NEW t \in ATable, DeleteTable(t), UNCHANGED <<counters, rules, orphans>>
  PROVE  TabInv'
<1>1. /\ HasTable(t) /\ rule_count[t] = 0 /\ num_counters[t] = 0
      /\ atables' = [atables EXCEPT ![t] = NoPrio] /\ installed' = installed \ {t}
      /\ UNCHANGED <<rule_count, num_counters>>
      /\ calls' = [c \in Caller |-> IF calls[c].table = t THEN [calls[c] EXCEPT !.stale = TRUE]
                                                          ELSE calls[c]]
  BY DEF DeleteTable
<1>2. ASSUME NEW c \in Caller
      PROVE  /\ calls'[c] \in Call /\ calls'[c].op = calls[c].op /\ calls'[c].prio = calls[c].prio
             /\ calls'[c].table = calls[c].table
             /\ calls'[c].stale = (calls[c].stale \/ calls[c].table = t)
  <2>1. calls[c] \in Call
    BY DEF TabInv, TabTypes
  <2>2. CASE calls[c].table = t
    <3>1. PICK e \in Call : e = calls[c]
      BY <2>1
    <3>2. calls'[c] = [e EXCEPT !.stale = TRUE]
      BY <1>1, <2>2, <3>1
    <3> QED BY <2>2, <3>1, <3>2 DEF Call
  <2>3. CASE calls[c].table # t
    BY <1>1, <2>1, <2>3 DEF Call
  <2> QED BY <2>2, <2>3
<1>3. TabTypes'
  BY <1>1, <1>2 DEF TabInv, TabTypes
<1>4. \A u \in ATable : HasTable(u)' <=> HasTable(u) /\ u # t
  BY <1>1 DEF TabInv, TabTypes, HasTable
<1>5. CallsRight'
  <2> SUFFICES ASSUME NEW b \in Caller  PROVE CallRight(b)'
    BY DEF CallsRight
  <2> QED BY <1>2, <1>4, AclTableAssumption DEF TabInv, CallsRight, CallRight
<1>6. \A u : RulesOf(u)' = RulesOf(u) /\ CountersOf(u)' = CountersOf(u)
  BY DEF RulesOf, CountersOf, HasRule
<1>7. RulesOf(t) = {} /\ CountersOf(t) = {}
  <2>1. Cardinality(RulesOf(t)) = 0 /\ Cardinality(CountersOf(t)) = 0
    BY <1>1, CountIsOf DEF TabInv
  <2> QED BY <2>1, OfFinite, NoneIn
<1>8. \A u \in ATable : HasTable(u)' =>
        rule_count'[u] = Cardinality(RulesOf(u)') /\ num_counters'[u] = Cardinality(CountersOf(u)')
  BY <1>1, <1>4, <1>6, CountIsOf DEF TabInv
<1>9. /\ \A r \in ARule \ orphans' : HasRule(r)' => HasTable(rules[r].table)'
      /\ \A k \in Counter : HasCounter(k)' => HasTable(counters[k])'
  <2>1. \A r \in ARule \ orphans : HasRule(r) => rules[r].table \in ATable \ {t}
    BY <1>7 DEF TabInv, TabTypes, HasRule, RuleInfo, RulesOf
  <2>2. \A k \in Counter : HasCounter(k) => counters[k] \in ATable \ {t}
    BY <1>7 DEF TabInv, TabTypes, HasCounter, CountersOf
  <2> QED BY <1>4, <2>1, <2>2, CountIsOf DEF TabInv, HasRule, HasCounter
<1> QED BY <1>3, <1>5, <1>8, <1>9 DEF TabInv, TablesCount, RulesOf, CountersOf

(* A table keeps its place when it takes another priority.                 *)
LEMMA PriorityTab ==
  ASSUME TabInv, NEW t \in ATable, NEW prio \in APrio,
         atables' = IF HasTable(t) THEN [atables EXCEPT ![t] = prio] ELSE atables,
         UNCHANGED <<installed, rule_count, num_counters, calls, counters, rules, orphans>>
  PROVE  TabInv'
<1>1. \A u \in ATable : HasTable(u)' <=> HasTable(u)
  BY AclTableAssumption DEF TabInv, TabTypes, HasTable
<1>2. TabTypes'
  BY DEF TabInv, TabTypes
<1>3. CallsRight'
  BY <1>1 DEF TabInv, CallsRight, CallRight
<1>4. \A u : RulesOf(u)' = RulesOf(u) /\ CountersOf(u)' = CountersOf(u)
  BY DEF RulesOf, CountersOf, HasRule
<1>5. \A u \in ATable : HasTable(u)' =>
        rule_count'[u] = Cardinality(RulesOf(u)') /\ num_counters'[u] = Cardinality(CountersOf(u)')
  BY <1>1, <1>4, CountIsOf DEF TabInv
<1>6. /\ \A r \in ARule \ orphans' : HasRule(r)' => HasTable(rules[r].table)'
      /\ \A k \in Counter : HasCounter(k)' => HasTable(counters[k])'
  <2>1. \A r \in ARule : HasRule(r) => rules[r].table \in ATable
    BY DEF TabInv, TabTypes, HasRule, RuleInfo
  <2>2. \A k \in Counter : HasCounter(k) => counters[k] \in ATable
    BY DEF TabInv, TabTypes, HasCounter
  <2> QED BY <1>1, <2>1, <2>2, CountIsOf DEF TabInv, HasRule, HasCounter
<1> QED BY <1>2, <1>3, <1>5, <1>6 DEF TabInv, TablesCount, RulesOf, CountersOf

(* A counter and the count of counters come together ...                   *)
LEMMA CreateCounterTab ==
  ASSUME TabInv, NEW k \in Counter, NEW t \in ATable, CreateCounter(k, t)
  PROVE  TabInv'
<1>1. /\ counters[k] = NoTable /\ HasTable(t) /\ installed' = installed \cup {t}
      /\ UNCHANGED <<atables, rule_count, calls, rules, orphans>>
  BY DEF CreateCounter, HasCounter, ruleVars
<1>2. CallsRight'
  BY <1>1 DEF TabInv, CallsRight, CallRight, HasTable
<1>3. \A u : RulesOf(u)' = RulesOf(u)
  BY <1>1 DEF RulesOf, HasRule
<1>4. \A u \in ATable : HasTable(u)' <=> HasTable(u)
  BY <1>1 DEF HasTable
<1>5. CASE UNCHANGED <<counters, num_counters>>
  <2>1. TabTypes'
    BY <1>1, <1>5 DEF TabInv, TabTypes
  <2>2. \A u : CountersOf(u)' = CountersOf(u)
    BY <1>5 DEF CountersOf
  <2> QED BY <1>1, <1>2, <1>3, <1>5, <2>1, <2>2, CountIsOf
          DEF TabInv, TablesCount, RulesOf, CountersOf, HasTable, HasRule, HasCounter
<1>6. CASE /\ counters' = [counters EXCEPT ![k] = t]
           /\ num_counters' = [num_counters EXCEPT ![t] = @ + 1]
  <2>1. TabTypes'
    BY <1>1, <1>6 DEF TabInv, TabTypes
  <2>2. k \notin CountersOf(t) /\ CountersOf(t)' = CountersOf(t) \cup {k}
    BY <1>1, <1>6, AclTableAssumption DEF CountersOf, TabInv, TabTypes
  <2>3. \A u \in ATable \ {t} : CountersOf(u)' = CountersOf(u)
    BY <1>1, <1>6, AclTableAssumption DEF CountersOf, TabInv, TabTypes
  <2>4. num_counters'[t] = Cardinality(CountersOf(t)')
    <3>1. num_counters[t] = Cardinality(CountersOf(t))
      BY <1>1, CountIsOf DEF TabInv
    <3>2. Cardinality(CountersOf(t)') = Cardinality(CountersOf(t)) + 1
      BY <2>2, OfFinite, OneMore
    <3> QED BY <1>6, <3>1, <3>2 DEF TabInv, TabTypes
  <2>5. ASSUME NEW u \in ATable, HasTable(u)'
        PROVE  rule_count'[u] = Cardinality(RulesOf(u)') /\ num_counters'[u] = Cardinality(CountersOf(u)')
    <3>1. HasTable(u)
      BY <1>4, <2>5
    <3>2. CASE u = t
      BY <1>1, <1>3, <2>4, <3>1, <3>2, CountIsOf DEF TabInv
    <3>3. CASE u # t
      BY <1>1, <1>3, <1>6, <2>3, <3>1, <3>3, CountIsOf DEF TabInv, TabTypes
    <3> QED BY <3>2, <3>3
  <2>6. /\ \A r \in ARule \ orphans' : HasRule(r)' => HasTable(rules'[r].table)
        /\ \A j \in Counter : HasCounter(j)' => HasTable(counters'[j])
    BY <1>1, <1>6, CountIsOf DEF TabInv, TabTypes, HasRule, HasCounter
  <2> QED BY <1>1, <1>2, <2>1, <2>5, <2>6 DEF TabInv, TablesCount, RulesOf, CountersOf, HasTable
<1> QED BY <1>5, <1>6 DEF CreateCounter

(* ... and go together.                                                    *)
LEMMA DeleteCounterTab ==
  ASSUME TabInv, NEW k \in Counter, DeleteCounter(k)
  PROVE  TabInv'
<1>1. PICK t : t = counters[k]
  OBVIOUS
<1>2. /\ t # NoTable /\ counters' = [counters EXCEPT ![k] = NoTable]
      /\ num_counters' = [num_counters EXCEPT ![t] = @ - 1]
      /\ UNCHANGED <<atables, installed, rule_count, calls, rules, orphans>>
  BY <1>1 DEF DeleteCounter, HasCounter, ruleVars
<1>3. t \in ATable /\ HasTable(t)
  BY <1>1, <1>2, CountIsOf DEF TabInv, TabTypes, HasCounter
<1>4. CallsRight'
  BY <1>2 DEF TabInv, CallsRight, CallRight, HasTable
<1>5. \A u : RulesOf(u)' = RulesOf(u)
  BY <1>2 DEF RulesOf, HasRule
<1>6. \A u \in ATable : HasTable(u)' <=> HasTable(u)
  BY <1>2 DEF HasTable
<1>7. k \in CountersOf(t) /\ CountersOf(t)' = CountersOf(t) \ {k}
  BY <1>1, <1>2, <1>3, AclTableAssumption DEF CountersOf, TabInv, TabTypes
<1>8. \A u \in ATable \ {t} : CountersOf(u)' = CountersOf(u)
  BY <1>1, <1>2, AclTableAssumption DEF CountersOf, TabInv, TabTypes
<1>9. num_counters[t] = Cardinality(CountersOf(t)) /\ num_counters[t] \in Nat
  BY <1>3, CountIsOf DEF TabInv, TabTypes
<1>10. num_counters[t] - 1 = Cardinality(CountersOf(t)') /\ num_counters[t] - 1 \in Nat
  <2>1. Cardinality(CountersOf(t)') = Cardinality(CountersOf(t)) - 1 /\ Cardinality(CountersOf(t)) - 1 \in Nat
    BY <1>7, OfFinite, OneLess
  <2> QED BY <1>9, <2>1
<1>11. num_counters' \in [ATable -> Nat] /\ num_counters'[t] = num_counters[t] - 1
       /\ \A u \in ATable \ {t} : num_counters'[u] = num_counters[u]
  BY <1>2, <1>3, <1>10 DEF TabInv, TabTypes
<1>12. TabTypes'
  BY <1>2, <1>11 DEF TabInv, TabTypes
<1>13. ASSUME NEW u \in ATable, HasTable(u)'
       PROVE  rule_count'[u] = Cardinality(RulesOf(u)') /\ num_counters'[u] = Cardinality(CountersOf(u)')
  <2>1. HasTable(u)
    BY <1>6, <1>13
  <2>2. CASE u = t
    BY <1>2, <1>5, <1>10, <1>11, <2>1, <2>2, CountIsOf DEF TabInv
  <2>3. CASE u # t
    BY <1>2, <1>5, <1>8, <1>11, <2>1, <2>3, CountIsOf DEF TabInv
  <2> QED BY <2>2, <2>3
<1>14. /\ \A r \in ARule \ orphans' : HasRule(r)' => HasTable(rules'[r].table)
       /\ \A j \in Counter : HasCounter(j)' => HasTable(counters'[j])
  BY <1>2, CountIsOf DEF TabInv, TabTypes, HasRule, HasCounter
<1> QED BY <1>2, <1>4, <1>12, <1>13, <1>14 DEF TabInv, TablesCount, RulesOf, CountersOf, HasTable

(* A rule created in freed memory is no rule of any table.                 *)
LEMMA CreateOrphanTab ==
  ASSUME TabInv, NEW c \in Caller, NEW r \in ARule, CreateOrphan(c, r)
  PROVE  TabInv'
<1>1. PICK h : h = [table |-> calls[c].table, counter |-> NoCounter, policer |-> NoPol,
                    samplepacket_id |-> NoSess, sample |-> NoSess, ports |-> {AllPorts}]
  OBVIOUS
<1>2. /\ calls[c].stale /\ ~ HasRule(r) /\ calls' = [calls EXCEPT ![c] = Idle]
      /\ rules' = [rules EXCEPT ![r] = h] /\ orphans' = orphans \cup {r}
      /\ UNCHANGED <<atables, installed, rule_count, num_counters, counters>>
  BY <1>1 DEF CreateOrphan
<1>3. calls[c].table \in ATable
  BY <1>2 DEF TabInv, CallsRight, CallRight
<1>4. h \in RuleInfo
  BY <1>1, <1>3 DEF RuleInfo, Lists
<1>5. TabTypes'
  BY <1>2, <1>4, IdleIs DEF TabInv, TabTypes
<1>6. CallsRight'
  <2> SUFFICES ASSUME NEW b \in Caller  PROVE CallRight(b)'
    BY DEF CallsRight
  <2>1. calls \in [Caller -> Call]
    BY DEF TabInv, TabTypes
  <2>2. CASE b = c
    BY <1>2, <2>1, <2>2, IdleIs DEF CallRight
  <2>3. CASE b # c
    BY <1>2, <2>1, <2>3 DEF TabInv, CallsRight, CallRight, HasTable
  <2> QED BY <2>2, <2>3
<1>7. \A q \in ARule \ {r} : rules'[q] = rules[q]
  BY <1>2 DEF TabInv, TabTypes
<1>8. \A u : RulesOf(u)' = RulesOf(u) /\ CountersOf(u)' = CountersOf(u)
  BY <1>2, <1>7 DEF RulesOf, CountersOf, HasRule
<1>9. \A u \in ATable : HasTable(u)' =>
        rule_count'[u] = Cardinality(RulesOf(u)') /\ num_counters'[u] = Cardinality(CountersOf(u)')
  BY <1>2, <1>8, CountIsOf DEF TabInv, HasTable
<1>10. /\ \A q \in ARule \ orphans' : HasRule(q)' => HasTable(rules'[q].table)
       /\ \A j \in Counter : HasCounter(j)' => HasTable(counters'[j])
  BY <1>2, <1>7, CountIsOf DEF TabInv, HasRule, HasCounter
<1> QED BY <1>2, <1>5, <1>6, <1>9, <1>10 DEF TabInv, TablesCount, RulesOf, CountersOf, HasTable

(* A new rule h in a table that is still there                             *)
LEMMA NewRuleTab ==
  ASSUME TabInv, NEW c \in Caller, NEW r \in ARule, NEW h \in RuleInfo,
         calls[c].op = "rule", ~ calls[c].stale, ~ HasRule(r), h.table = calls[c].table,
         calls' = [calls EXCEPT ![c] = Idle], installed' = installed \cup {h.table},
         rules' = [rules EXCEPT ![r] = h], orphans' = orphans \ {r},
         rule_count' = [rule_count EXCEPT ![h.table] = @ + 1],
         UNCHANGED <<atables, num_counters, counters>>
  PROVE  TabInv'
<1>1. PICK t : t = h.table
  OBVIOUS
<1>2. t \in ATable /\ HasTable(t)
  BY <1>1 DEF TabInv, CallsRight, CallRight
<1>3. TabTypes'
  <2>1. rule_count' \in [ATable -> Nat]
    BY <1>1, <1>2 DEF TabInv, TabTypes
  <2>2. installed' \subseteq ATable /\ calls' \in [Caller -> Call]
    BY <1>1, <1>2, IdleIs DEF TabInv, TabTypes
  <2>3. rules' \in [ARule -> RuleInfo \cup {NoARule}] /\ orphans' \subseteq ARule
    BY DEF TabInv, TabTypes
  <2> QED BY <2>1, <2>2, <2>3 DEF TabInv, TabTypes
<1>4. CallsRight'
  <2> SUFFICES ASSUME NEW b \in Caller  PROVE CallRight(b)'
    BY DEF CallsRight
  <2>1. calls \in [Caller -> Call]
    BY DEF TabInv, TabTypes
  <2>2. CASE b = c
    BY <2>1, <2>2, IdleIs DEF CallRight
  <2>3. CASE b # c
    BY <2>1, <2>3 DEF TabInv, CallsRight, CallRight, HasTable
  <2> QED BY <2>2, <2>3
<1>5. h # NoARule /\ rules'[r] = h /\ \A q \in ARule \ {r} : rules'[q] = rules[q]
  BY AclAssumption DEF TabInv, TabTypes
<1>6. r \notin RulesOf(t) /\ RulesOf(t)' = RulesOf(t) \cup {r}
  BY <1>1, <1>5 DEF RulesOf, HasRule
<1>7. \A u : CountersOf(u)' = CountersOf(u) /\ (u # t => RulesOf(u)' = RulesOf(u))
  BY <1>1, <1>5 DEF RulesOf, CountersOf, HasRule
<1>8. rule_count'[t] = Cardinality(RulesOf(t)')
  <2>1. rule_count[t] = Cardinality(RulesOf(t))
    BY <1>2, CountIsOf DEF TabInv
  <2>2. Cardinality(RulesOf(t)') = Cardinality(RulesOf(t)) + 1
    BY <1>6, OfFinite, OneMore
  <2> QED BY <1>1, <1>2, <2>1, <2>2 DEF TabInv, TabTypes
<1>9. ASSUME NEW u \in ATable, HasTable(u)'
      PROVE  rule_count'[u] = Cardinality(RulesOf(u)') /\ num_counters'[u] = Cardinality(CountersOf(u)')
  <2>1. HasTable(u)
    BY <1>9 DEF HasTable
  <2>2. CASE u = t
    BY <1>7, <1>8, <2>1, <2>2, CountIsOf DEF TabInv
  <2>3. CASE u # t
    BY <1>1, <1>7, <2>1, <2>3, CountIsOf DEF TabInv, TabTypes
  <2> QED BY <2>2, <2>3
<1>10. /\ \A q \in ARule \ orphans' : HasRule(q)' => HasTable(rules'[q].table)
       /\ \A j \in Counter : HasCounter(j)' => HasTable(counters'[j])
  BY <1>1, <1>2, <1>5, CountIsOf DEF TabInv, HasRule, HasCounter
<1> QED BY <1>3, <1>4, <1>9, <1>10 DEF TabInv, TablesCount, RulesOf, CountersOf, HasTable

(* A rule of a table leaves the tree.                                      *)
LEMMA OldRuleTab ==
  ASSUME TabInv, NEW r \in ARule \ orphans, HasRule(r), HasTable(rules[r].table),
         rules' = [rules EXCEPT ![r] = NoARule],
         rule_count' = [rule_count EXCEPT ![rules[r].table] = @ - 1],
         UNCHANGED <<atables, installed, num_counters, calls, counters, orphans>>
  PROVE  TabInv'
<1>1. PICK t : t = rules[r].table
  OBVIOUS
<1>2. t \in ATable /\ HasTable(t)
  BY <1>1 DEF TabInv, TabTypes, HasRule, RuleInfo
<1>3. CallsRight'
  BY DEF TabInv, CallsRight, CallRight, HasTable
<1>4. rules' \in [ARule -> RuleInfo \cup {NoARule}] /\ rules'[r] = NoARule
      /\ \A q \in ARule \ {r} : rules'[q] = rules[q]
  BY DEF TabInv, TabTypes
<1>5. r \in RulesOf(t) /\ RulesOf(t)' = RulesOf(t) \ {r}
  BY <1>1, <1>4 DEF RulesOf, HasRule
<1>6. \A u : CountersOf(u)' = CountersOf(u) /\ (u # t => RulesOf(u)' = RulesOf(u))
  BY <1>1, <1>4 DEF RulesOf, CountersOf, HasRule
<1>7. rule_count[t] - 1 = Cardinality(RulesOf(t)') /\ rule_count[t] - 1 \in Nat
  <2>1. rule_count[t] = Cardinality(RulesOf(t))
    BY <1>2, CountIsOf DEF TabInv
  <2>2. Cardinality(RulesOf(t)') = Cardinality(RulesOf(t)) - 1 /\ Cardinality(RulesOf(t)) - 1 \in Nat
    BY <1>5, OfFinite, OneLess
  <2> QED BY <2>1, <2>2
<1>8. rule_count' \in [ATable -> Nat] /\ rule_count'[t] = rule_count[t] - 1
      /\ \A u \in ATable \ {t} : rule_count'[u] = rule_count[u]
  BY <1>1, <1>2, <1>7 DEF TabInv, TabTypes
<1>9. TabTypes'
  BY <1>4, <1>8 DEF TabInv, TabTypes
<1>10. ASSUME NEW u \in ATable, HasTable(u)'
       PROVE  rule_count'[u] = Cardinality(RulesOf(u)') /\ num_counters'[u] = Cardinality(CountersOf(u)')
  <2>1. HasTable(u)
    BY <1>10 DEF HasTable
  <2>2. CASE u = t
    BY <1>6, <1>7, <1>8, <2>1, <2>2, CountIsOf DEF TabInv
  <2>3. CASE u # t
    BY <1>6, <1>8, <2>1, <2>3, CountIsOf DEF TabInv
  <2> QED BY <2>2, <2>3
<1>11. /\ \A q \in ARule \ orphans' : HasRule(q)' => HasTable(rules'[q].table)
       /\ \A j \in Counter : HasCounter(j)' => HasTable(counters'[j])
  BY <1>4, CountIsOf DEF TabInv, HasRule, HasCounter
<1> QED BY <1>3, <1>9, <1>10, <1>11 DEF TabInv, TablesCount, RulesOf, CountersOf, HasTable

---------------------------------------------------------------------------
(* Groups                                                                  *)

GrpInv ==
  /\ table_list \in [AGroup -> (SUBSET AMember) \cup {{NoGroup}}]
  /\ members \in [AMember -> [table : ATable \cup {NoTable}, group : AGroup \cup {NoGroup}]]
  /\ freedMember \in BOOLEAN
  /\ GroupsListMembers

(* What a group lists, and that no list is that of no group                *)
LEMMA GroupListIs ==
  ASSUME GrpInv, NEW g \in AGroup
  PROVE  /\ HasGroup(g) => table_list[g] \subseteq AMember
         /\ \A S \in SUBSET AMember : S # {NoGroup}
BY AclTableAssumption DEF GrpInv, HasGroup

(* A new group lists nobody, and nobody names it.                          *)
LEMMA CreateGroupGrp ==
  ASSUME GrpInv, NEW g \in AGroup, CreateGroup(g)
  PROVE  GrpInv'
<1>1. ~ HasGroup(g) /\ table_list' = [table_list EXCEPT ![g] = {}] /\ UNCHANGED <<members, freedMember>>
  BY DEF CreateGroup
<1>2. \A m \in AMember : members[m].group # g
  BY <1>1 DEF GrpInv, GroupsListMembers
<1> QED BY <1>1, <1>2 DEF GrpInv, GroupsListMembers, HasGroup

(* A group that lists nobody is named by nobody.                           *)
LEMMA DeleteGroupGrp ==
  ASSUME GrpInv, NEW g \in AGroup, DeleteGroup(g)
  PROVE  GrpInv'
<1>1. /\ table_list[g] = {} /\ table_list' = [table_list EXCEPT ![g] = {NoGroup}]
      /\ UNCHANGED <<members, freedMember>>
  BY DEF DeleteGroup
<1>2. \A m \in AMember : members[m].group # g
  BY <1>1 DEF GrpInv, GroupsListMembers
<1> QED BY <1>1, <1>2 DEF GrpInv, GroupsListMembers, HasGroup

(* A new member is listed, or is freed and not known.                      *)
LEMMA CreateMemberGrp ==
  ASSUME GrpInv, NEW m \in AMember, NEW t \in ATable, NEW g \in AGroup, NEW prio \in APrio,
         CreateMember(m, t, g, prio)
  PROVE  GrpInv'
<1>1. CASE HasTable(t) /\ HasGroup(g)
  <2>1. PICK d : d = [table |-> t, group |-> g]
    OBVIOUS
  <2>2. /\ members[m] = Absent /\ members' = [members EXCEPT ![m] = d]
        /\ table_list' = [table_list EXCEPT ![g] = @ \cup {m}] /\ UNCHANGED freedMember
    BY <1>1, <2>1 DEF CreateMember, ListMember
  <2>3. table_list[g] \cup {m} \in SUBSET AMember /\ table_list[g] \cup {m} # {NoGroup}
    BY <1>1, GroupListIs
  <2>4. \A h \in AGroup : ~ (HasGroup(h) /\ m \in table_list[h])
    BY <2>2, AclTableAssumption DEF Absent, GrpInv, GroupsListMembers
  <2>5. GroupsListMembers'
    <3> SUFFICES ASSUME NEW h \in AGroup, NEW n \in AMember
                 PROVE  members'[n].group = h <=> table_list'[h] # {NoGroup} /\ n \in table_list'[h]
      BY DEF GroupsListMembers, HasGroup
    <3>1. members[n].group = h <=> HasGroup(h) /\ n \in table_list[h]
      BY DEF GrpInv, GroupsListMembers
    <3>2. CASE n = m
      BY <1>1, <2>1, <2>2, <2>3, <2>4, <3>2 DEF GrpInv, HasGroup
    <3>3. CASE n # m
      BY <1>1, <2>2, <2>3, <3>1, <3>3 DEF GrpInv, HasGroup
    <3> QED BY <3>2, <3>3
  <2> QED BY <2>1, <2>2, <2>3, <2>5 DEF GrpInv
<1>2. CASE ~ (HasTable(t) /\ HasGroup(g))
  <2>1. UNCHANGED <<members, table_list>> /\ freedMember' = TRUE
    BY <1>2 DEF CreateMember
  <2> QED BY <2>1 DEF GrpInv, GroupsListMembers, HasGroup
<1> QED BY <1>1, <1>2

(* A member leaves the list of its group.                                  *)
LEMMA DeleteMemberGrp ==
  ASSUME GrpInv, NEW m \in AMember, DeleteMember(m)
  PROVE  GrpInv'
<1>1. PICK g : g = members[m].group
  OBVIOUS
<1>2. /\ members' = [members EXCEPT ![m] = Absent]
      /\ table_list' = [table_list EXCEPT ![g] = @ \ {m}] /\ UNCHANGED freedMember
  BY <1>1 DEF DeleteMember
<1>3. g \in AGroup => HasGroup(g) /\ table_list[g] \ {m} \in SUBSET AMember /\ table_list[g] \ {m} # {NoGroup}
  BY <1>1, GroupListIs DEF GrpInv, GroupsListMembers
<1>4. GroupsListMembers'
  <2> SUFFICES ASSUME NEW h \in AGroup, NEW n \in AMember
               PROVE  members'[n].group = h <=> table_list'[h] # {NoGroup} /\ n \in table_list'[h]
    BY DEF GroupsListMembers, HasGroup
  <2>1. members[n].group = h <=> HasGroup(h) /\ n \in table_list[h]
    BY DEF GrpInv, GroupsListMembers
  <2>2. CASE n = m
    <3>1. members'[n].group # h
      BY <1>2, <2>2, AclTableAssumption DEF Absent, GrpInv
    <3>2. ~ (table_list'[h] # {NoGroup} /\ n \in table_list'[h])
      BY <1>1, <1>2, <2>1, <2>2 DEF GrpInv, HasGroup
    <3> QED BY <3>1, <3>2
  <2>3. CASE n # m
    <3>1. members'[n] = members[n]
      BY <1>2, <2>3 DEF GrpInv
    <3>2. CASE h = g
      BY <1>2, <1>3, <2>1, <2>3, <3>1, <3>2 DEF GrpInv, HasGroup
    <3>3. CASE h # g
      BY <1>2, <2>1, <3>1, <3>3 DEF GrpInv, HasGroup
    <3> QED BY <3>2, <3>3
  <2> QED BY <2>2, <2>3
<1>5. table_list' \in [AGroup -> (SUBSET AMember) \cup {{NoGroup}}]
  BY <1>2, <1>3 DEF GrpInv
<1> QED BY <1>2, <1>4, <1>5 DEF GrpInv, Absent

---------------------------------------------------------------------------
(* What the counters count                                                 *)

CntInv == attached \in [Counter -> SUBSET ARule] /\ loose \subseteq ARule /\ CountersCountRules

CountedRight(r) ==
  \/ r \in loose \/ ~ HasRule(r) \/ rules[r].counter = NoCounter
  \/ r \in attached[rules[r].counter] /\ counters[rules[r].counter] = rules[r].table

(* CountersCountRules, rule by rule                                        *)
LEMMA CntIs == CountersCountRules <=> \A r \in ARule : CountedRight(r)
BY DEF CountersCountRules, CountedRight, CanDetach

(* Only r is handled, and it is counted as it must be.                     *)
LEMMA CntStep ==
  ASSUME TabInv, CntInv, NEW r \in ARule, UNCHANGED counters,
         attached' \in [Counter -> SUBSET ARule], loose' \subseteq ARule,
         \A q \in ARule \ {r} : /\ rules'[q] = rules[q]
                                /\ q \in loose' <=> q \in loose
                                /\ \A k \in Counter : q \in attached[k] => q \in attached'[k],
         CountedRight(r)'
  PROVE  CntInv'
<1>1. ASSUME NEW q \in ARule  PROVE CountedRight(q)'
  <2>1. CASE q = r
    BY <2>1
  <2>2. CASE q # r
    <3>1. CountedRight(q)
      BY CntIs DEF CntInv
    <3>2. HasRule(q) => rules[q].counter \in Counter \cup {NoCounter}
      BY DEF TabInv, TabTypes, HasRule, RuleInfo
    <3> QED BY <2>2, <3>1, <3>2 DEF CountedRight, HasRule
  <2> QED BY <2>1, <2>2
<1>2. CountersCountRules'
  BY <1>1 DEF CountersCountRules, CountedRight, CanDetach, HasRule
<1> QED BY <1>2 DEF CntInv

(* No rule moves, and no counter.                                          *)
LEMMA CntKept ==
  ASSUME CntInv, UNCHANGED <<attached, counters, loose>>,
         \A q \in ARule : /\ HasRule(q)' <=> HasRule(q)
                          /\ HasRule(q) => rules'[q].table = rules[q].table /\ rules'[q].counter = rules[q].counter
  PROVE  CntInv'
BY DEF CntInv, CountersCountRules, CanDetach

(* A new counter is the one no rule names.                                 *)
LEMMA CreateCounterCnt ==
  ASSUME TabInv, CntInv, NEW k \in Counter, NEW t \in ATable, CreateCounter(k, t)
  PROVE  CntInv'
<1>1. /\ counters[k] = NoTable /\ UNCHANGED <<attached, rules, loose>>
      /\ counters' \in {counters, [counters EXCEPT ![k] = t]}
  BY DEF CreateCounter, HasCounter, ruleVars
<1>2. ASSUME NEW q \in ARule \ loose, HasRule(q), rules[q].counter # NoCounter
      PROVE  q \in attached[rules[q].counter] /\ counters'[rules[q].counter] = rules[q].table
  <2>1. /\ q \in attached[rules[q].counter] /\ counters[rules[q].counter] = rules[q].table
        /\ rules[q].table \in ATable
    BY <1>2 DEF CntInv, CountersCountRules, CanDetach, TabInv, TabTypes, HasRule, RuleInfo
  <2>2. rules[q].counter # k
    BY <1>1, <2>1, AclTableAssumption
  <2>3. counters \in [Counter -> ATable \cup {NoTable}] /\ rules[q].counter \in Counter
    BY <1>2 DEF TabInv, TabTypes, HasRule, RuleInfo
  <2> QED BY <1>1, <2>1, <2>2, <2>3
<1> QED BY <1>1, <1>2 DEF CntInv, CountersCountRules, CanDetach, HasRule

(* A counter that counts no rule is named by none.                         *)
LEMMA DeleteCounterCnt ==
  ASSUME TabInv, CntInv, NEW k \in Counter, DeleteCounter(k)
  PROVE  CntInv'
<1>1. /\ attached[k] = {} /\ UNCHANGED <<attached, rules, loose>>
      /\ counters' = [counters EXCEPT ![k] = NoTable]
  BY DEF DeleteCounter, ruleVars
<1>2. ASSUME NEW q \in ARule \ loose, HasRule(q), rules[q].counter # NoCounter
      PROVE  q \in attached[rules[q].counter] /\ counters'[rules[q].counter] = rules[q].table
  <2>1. q \in attached[rules[q].counter] /\ counters[rules[q].counter] = rules[q].table
    BY <1>2 DEF CntInv, CountersCountRules, CanDetach
  <2>2. rules[q].counter # k
    BY <1>1, <2>1
  <2> QED BY <1>1, <2>1, <2>2 DEF TabInv, TabTypes
<1> QED BY <1>1, <1>2 DEF CntInv, CountersCountRules, CanDetach, HasRule

---------------------------------------------------------------------------
(* Policers                                                                *)

PolTypes ==
  /\ policers \in [Policer -> [mode : {"none", "storm", "tcm"}, rate : PolRate \cup {NoRate}]]
  /\ port_dll \in [Policer -> SUBSET Storm]
  /\ acl_dll \in [Policer -> SUBSET ARule]
  /\ policer_id \in [Storm -> Policer \cup {NoPol}]
  /\ portRate \in [Storm -> PolRate \cup {NoRate}]
  /\ meters \in [ARule -> Policer \cup {NoPol}]
  /\ stray \subseteq ARule /\ attaching \subseteq ARule \X Policer

(* A rule on its way into the list of a policer names it, and the policer  *)
(* is there or known to be gone.                                           *)
AttachingRight ==
  \A r \in ARule, p \in Policer : <<r, p>> \in attaching =>
    HasRule(r) /\ rules[r].policer = p /\ (r \in stray \/ HasPolicer(p))
PolInv == PolTypes /\ PolicersListRules /\ AttachingRight

(* Only r leaves or changes, and no list keeps it that should not.         *)
PolEffect(r) ==
  /\ acl_dll' \in [Policer -> SUBSET ARule]
  /\ \A p \in Policer : HasPolicer(p) =>
       /\ \A q \in ARule \ {r} : q \in acl_dll'[p] => q \in acl_dll[p]
       /\ r \in acl_dll'[p] => HasRule(r)' /\ rules'[r].policer = p
  /\ \A q \in ARule \ {r} : rules'[q] = rules[q]
  /\ meters' \in [ARule -> Policer \cup {NoPol}] /\ stray' \subseteq ARule
  /\ \/ attaching' = {}
     \/ \E p \in Policer : /\ attaching' = {<<r, p>>} /\ HasPolicer(p)
                           /\ HasRule(r)' /\ rules'[r].policer = p
  /\ UNCHANGED <<policers, stormVars>>

(* The effect on one rule keeps the invariant of the policers.             *)
LEMMA PolStep ==
  ASSUME PolInv, NEW r \in ARule, PolEffect(r)
  PROVE  PolInv'
<1>1. UNCHANGED <<policers, port_dll, policer_id, portRate>>
  BY DEF PolEffect, stormVars
<1>2. PolTypes'
  <2>1. attaching' \subseteq ARule \X Policer
    BY DEF PolEffect
  <2> QED BY <1>1, <2>1 DEF PolInv, PolTypes, PolEffect
<1>3. PolicersListRules'
  <2> SUFFICES ASSUME NEW p \in Policer, HasPolicer(p), NEW q \in acl_dll'[p]
               PROVE  HasRule(q)' /\ rules'[q].policer = p
    BY <1>1 DEF PolicersListRules, HasPolicer
  <2>1. q \in ARule
    BY DEF PolEffect
  <2>2. CASE q = r
    BY <2>2 DEF PolEffect
  <2>3. CASE q # r
    BY <2>1, <2>3 DEF PolEffect, PolInv, PolicersListRules, HasRule
  <2> QED BY <2>2, <2>3
<1>4. AttachingRight'
  BY <1>1 DEF PolEffect, AttachingRight, HasPolicer
<1> QED BY <1>2, <1>3, <1>4 DEF PolInv

(* No rule changes its policer.                                            *)
LEMMA PolKept ==
  ASSUME PolInv, UNCHANGED <<polVars, meters, stray, attaching>>,
         \A q \in ARule : HasRule(q) => HasRule(q)' /\ rules'[q].policer = rules[q].policer
  PROVE  PolInv'
<1>1. UNCHANGED <<policers, port_dll, acl_dll, policer_id, portRate, meters, stray, attaching>>
  BY DEF polVars
<1>2. PolTypes'
  BY <1>1 DEF PolInv, PolTypes
<1>3. PolicersListRules'
  <2> SUFFICES ASSUME NEW p \in Policer, HasPolicer(p), NEW q \in acl_dll[p]
               PROVE  HasRule(q)' /\ rules'[q].policer = p
    BY <1>1 DEF PolicersListRules, HasPolicer
  <2>1. q \in ARule /\ HasRule(q) /\ rules[q].policer = p
    BY DEF PolInv, PolTypes, PolicersListRules
  <2> QED BY <2>1
<1>4. AttachingRight'
  BY <1>1 DEF PolInv, AttachingRight, HasPolicer
<1> QED BY <1>2, <1>3, <1>4 DEF PolInv

(* The rule joins the list of the policer it found, if that was not freed. *)
LEMMA AttachPolicerPol ==
  ASSUME PolInv, NEW r \in ARule, NEW p \in Policer, AttachPolicer(r, p)
  PROVE  PolInv'
<1>1. /\ <<r, p>> \in attaching /\ attaching' = {}
      /\ acl_dll' = IF r \in stray THEN acl_dll ELSE RuleAttached(acl_dll, r, p)
      /\ UNCHANGED <<policers, stormVars, rules, meters, stray>>
  BY DEF AttachPolicer
<1>2. HasRule(r) /\ rules[r].policer = p
  BY <1>1 DEF PolInv, AttachingRight
<1>3. /\ acl_dll' \in [Policer -> SUBSET ARule]
      /\ \A x \in Policer, q \in ARule : q \in acl_dll'[x] => q \in acl_dll[x] \/ (q = r /\ x = p)
  BY <1>1 DEF PolInv, PolTypes, RuleAttached
<1>4. PolEffect(r)
  <2>1. \A x \in Policer : HasPolicer(x) /\ r \in acl_dll'[x] => HasRule(r)' /\ rules'[r].policer = x
    BY <1>1, <1>2, <1>3 DEF PolInv, PolicersListRules, HasRule
  <2> QED BY <1>1, <1>3, <2>1 DEF PolEffect, PolInv, PolTypes
<1> QED BY <1>4, PolStep

(* A call on policers: a new one lists no rule, and one that goes while a  *)
(* rule is on its way to it is known to be gone.                           *)
LEMMA PolicerCallPol ==
  ASSUME PolInv, PolicerCall
  PROVE  PolInv'
<1>1. /\ PolNext
      /\ stray' = stray \cup {r \in ARule : \E p \in Policer :
                                <<r, p>> \in attaching /\ ~ HasPolicer(p)'}
      /\ UNCHANGED <<rules, meters, attaching>>
  BY DEF PolicerCall
<1>2. PolTypes' /\ \A p \in Policer : HasPolicer(p)' => acl_dll'[p] = {} \/ (HasPolicer(p) /\ acl_dll'[p] = acl_dll[p])
  <2>1. stray' \subseteq ARule
    BY <1>1 DEF PolInv, PolTypes
  <2>2. ASSUME NEW p \in Policer, CreatePolicer(p)
        PROVE  /\ PolTypes'
               /\ \A x \in Policer : HasPolicer(x)' =>
                    acl_dll'[x] = {} \/ (HasPolicer(x) /\ acl_dll'[x] = acl_dll[x])
    <3>1. PICK d \in [mode : {"storm", "tcm"}, rate : PolRate] : policers' = [policers EXCEPT ![p] = d]
      BY <2>2 DEF CreatePolicer
    <3>2. /\ port_dll' = [port_dll EXCEPT ![p] = {}] /\ acl_dll' = [acl_dll EXCEPT ![p] = {}]
          /\ UNCHANGED <<policer_id, portRate>>
      BY <2>2 DEF CreatePolicer
    <3>3. PolTypes'
      BY <1>1, <2>1, <3>1, <3>2 DEF PolInv, PolTypes
    <3> QED BY <3>1, <3>2, <3>3 DEF PolInv, PolTypes, HasPolicer
  <2>3. ASSUME NEW p \in Policer, RemovePolicer(p)
        PROVE  /\ PolTypes'
               /\ \A x \in Policer : HasPolicer(x)' =>
                    acl_dll'[x] = {} \/ (HasPolicer(x) /\ acl_dll'[x] = acl_dll[x])
    <3>1. PICK d : d = [mode |-> "none", rate |-> NoRate]
      OBVIOUS
    <3>2. /\ policers' = [policers EXCEPT ![p] = d]
          /\ UNCHANGED <<acl_dll, port_dll, policer_id, portRate>>
      BY <2>3, <3>1 DEF RemovePolicer, stormVars
    <3>3. d \in [mode : {"none", "storm", "tcm"}, rate : PolRate \cup {NoRate}] /\ d.mode = "none"
      BY <3>1
    <3>4. PolTypes'
      BY <1>1, <2>1, <3>2, <3>3 DEF PolInv, PolTypes
    <3> QED BY <3>2, <3>3, <3>4 DEF PolInv, PolTypes, HasPolicer
  <2>4. ASSUME NEW p \in Policer, SetPolicer(p)
        PROVE  /\ PolTypes'
               /\ \A x \in Policer : HasPolicer(x)' =>
                    acl_dll'[x] = {} \/ (HasPolicer(x) /\ acl_dll'[x] = acl_dll[x])
    <3>1. PICK rate \in PolRate, done \in StormReapplied(p) :
            /\ portRate' = [s \in Storm |-> IF s \in done THEN rate ELSE portRate[s]]
            /\ policers' \in {policers, [policers EXCEPT ![p].rate = rate]}
      BY <2>4 DEF SetPolicer
    <3>2. UNCHANGED <<port_dll, acl_dll, policer_id>>
      BY <2>4 DEF SetPolicer
    <3>3. /\ policers' \in [Policer -> [mode : {"none", "storm", "tcm"}, rate : PolRate \cup {NoRate}]]
          /\ \A x \in Policer : policers'[x].mode = policers[x].mode
      <4>1. CASE policers' = policers
        BY <4>1 DEF PolInv, PolTypes
      <4>2. CASE policers' = [policers EXCEPT ![p].rate = rate]
        <5>1. PICK e : e = policers[p]
          OBVIOUS
        <5>2. e \in [mode : {"none", "storm", "tcm"}, rate : PolRate \cup {NoRate}]
          BY <5>1 DEF PolInv, PolTypes
        <5>3. PICK d : d = [e EXCEPT !.rate = rate]
          OBVIOUS
        <5>4. d \in [mode : {"none", "storm", "tcm"}, rate : PolRate \cup {NoRate}] /\ d.mode = e.mode
          BY <5>2, <5>3
        <5>5. policers' = [policers EXCEPT ![p] = d]
          BY <4>2, <5>1, <5>3
        <5> QED BY <5>1, <5>4, <5>5 DEF PolInv, PolTypes
      <4> QED BY <3>1, <4>1, <4>2
    <3>4. PolTypes'
      BY <1>1, <2>1, <3>1, <3>2, <3>3 DEF PolInv, PolTypes
    <3> QED BY <3>2, <3>3, <3>4 DEF HasPolicer
  <2>5. ASSUME NEW s \in Storm, NEW p \in Policer \cup {NoPol}, SetPortPolicer(s, p)
        PROVE  /\ PolTypes'
               /\ \A x \in Policer : HasPolicer(x)' =>
                    acl_dll'[x] = {} \/ (HasPolicer(x) /\ acl_dll'[x] = acl_dll[x])
    <3>1. UNCHANGED <<policers, acl_dll>>
      BY <2>5 DEF SetPortPolicer
    <3>2. policer_id' \in [Storm -> Policer \cup {NoPol}] /\ port_dll' \in [Policer -> SUBSET Storm]
      BY <2>5 DEF SetPortPolicer, StormNodeUpdate, PolInv, PolTypes
    <3>3. portRate' \in [Storm -> PolRate \cup {NoRate}]
      <4>1. p # NoPol => policers[p].rate \in PolRate \cup {NoRate}
        BY DEF PolInv, PolTypes
      <4> QED BY <2>5, <4>1 DEF SetPortPolicer, PolInv, PolTypes
    <3> QED BY <1>1, <2>1, <3>1, <3>2, <3>3 DEF PolInv, PolTypes, HasPolicer
  <2> QED BY <1>1, <2>2, <2>3, <2>4, <2>5, Zenon DEF PolNext
<1>3. PolicersListRules'
  BY <1>1, <1>2 DEF PolInv, PolicersListRules, HasRule
<1>4. AttachingRight'
  BY <1>1 DEF PolInv, AttachingRight, HasRule
<1> QED BY <1>2, <1>3, <1>4 DEF PolInv

---------------------------------------------------------------------------
(* The invariant of the whole                                              *)
AclInv == TabInv /\ GrpInv /\ CntInv /\ PolInv /\ SampleInv

(* The rule r is now as g in its table and its counter.                    *)
RuleIs(r, g) ==
  \E h \in RuleInfo : h.table = g.table /\ h.counter = g.counter /\ rules' = [rules EXCEPT ![r] = h]

(* A rule of the tree has a node of a rule.                                *)
LEMMA RulesAre ==
  ASSUME TabInv, NEW r \in ARule, HasRule(r)
  PROVE  rules \in [ARule -> RuleInfo \cup {NoARule}] /\ rules[r] \in RuleInfo
BY DEF TabInv, TabTypes, HasRule

(* No group changes.                                                       *)
LEMMA GrpKept ==
  ASSUME GrpInv, UNCHANGED groupVars
  PROVE  GrpInv'
BY DEF GrpInv, groupVars, GroupsListMembers, HasGroup

(* A rule that becomes h and names the policer it named                    *)
LEMMA PolSame ==
  ASSUME TabInv, PolInv, AclFree, NEW r \in ARule, HasRule(r), NEW h \in RuleInfo,
         rules' = [rules EXCEPT ![r] = h], h.policer = rules[r].policer,
         acl_dll' = acl_dll, stray' = stray, UNCHANGED <<policers, stormVars, attaching>>,
         meters' \in [ARule -> Policer \cup {NoPol}]
  PROVE  PolEffect(r)
<1>1. /\ rules'[r] = h /\ \A q \in ARule \ {r} : rules'[q] = rules[q]
      /\ HasRule(r)'
  BY RulesAre, AclAssumption DEF HasRule
<1>2. attaching' = {}
  BY DEF AclFree
<1>3. \A p \in Policer : HasPolicer(p) /\ r \in acl_dll[p] => rules[r].policer = p
  BY DEF PolInv, PolicersListRules
<1> QED BY <1>1, <1>2, <1>3 DEF PolEffect, PolInv, PolTypes

(* A rule that becomes h and leaves the policer it named, or that was gone *)
LEMMA PolLeft ==
  ASSUME TabInv, PolInv, AclFree, NEW r \in ARule, HasRule(r), NEW h \in RuleInfo \cup {NoARule},
         rules' = [rules EXCEPT ![r] = h],
         acl_dll' = IF rules[r].policer = NoPol THEN acl_dll
                    ELSE RuleDetached(acl_dll, r, rules[r].policer),
         stray' \subseteq ARule, UNCHANGED <<policers, stormVars, attaching>>,
         meters' \in [ARule -> Policer \cup {NoPol}]
  PROVE  PolEffect(r)
<1>1. \A q \in ARule \ {r} : rules'[q] = rules[q]
  BY RulesAre
<1>2. attaching' = {}
  BY DEF AclFree
<1>3. \A p \in Policer : HasPolicer(p) /\ r \in acl_dll[p] => rules[r].policer = p
  BY DEF PolInv, PolicersListRules
<1>4. rules[r].policer \in Policer \cup {NoPol}
  BY RulesAre DEF RuleInfo
<1>5. /\ acl_dll' \in [Policer -> SUBSET ARule]
      /\ \A p \in Policer : HasPolicer(p) => /\ acl_dll'[p] \subseteq acl_dll[p]
                                             /\ r \notin acl_dll'[p]
  <2>1. CASE rules[r].policer = NoPol
    BY <1>3, <2>1, PolicerAssumption DEF PolInv, PolTypes
  <2>2. CASE rules[r].policer # NoPol
    BY <1>3, <1>4, <2>2 DEF PolInv, PolTypes, RuleDetached
  <2> QED BY <2>1, <2>2
<1> QED BY <1>1, <1>2, <1>5 DEF PolEffect

(* What PolicerUpdate does to a rule that is otherwise g by now            *)
LEMMA PolicerUpdateOk ==
  ASSUME TabInv, PolInv, AclFree, NEW r \in ARule, HasRule(r), NEW g \in RuleInfo,
         g.policer = rules[r].policer, PolicerUpdate(r, g),
         UNCHANGED <<policers, stormVars, attaching>>,
         meters' \in [ARule -> Policer \cup {NoPol}]
  PROVE  PolEffect(r) /\ RuleIs(r, g)
<1>1. CASE g.policer # NoPol /\ HasPolicer(g.policer)
  <2>1. PICK h : h = [g EXCEPT !.policer = NoPol]
    OBVIOUS
  <2>2. h \in RuleInfo /\ h.table = g.table /\ h.counter = g.counter
    BY <2>1 DEF RuleInfo
  <2>3. /\ acl_dll' = RuleDetached(acl_dll, r, rules[r].policer)
        /\ rules' = [rules EXCEPT ![r] = h] /\ stray' = stray \ {r}
    BY <1>1, <2>1 DEF PolicerUpdate
  <2>4. stray' \subseteq ARule
    BY <2>3 DEF PolInv, PolTypes
  <2>5. PolEffect(r)
    BY <1>1, <2>2, <2>3, <2>4, PolLeft
  <2> QED BY <2>2, <2>3, <2>5 DEF RuleIs
<1>2. CASE ~ (g.policer # NoPol /\ HasPolicer(g.policer))
  <2>1. acl_dll' = acl_dll /\ rules' = [rules EXCEPT ![r] = g] /\ stray' = stray
    BY <1>2 DEF PolicerUpdate
  <2>2. PolEffect(r)
    BY <2>1, PolSame
  <2> QED BY <2>1, <2>2 DEF RuleIs
<1> QED BY <1>1, <1>2

(* A call sets an attribute of a rule that is not its counter.             *)
LEMMA RuleSet ==
  ASSUME AclInv, NEW r \in ARule, HasRule(r), SetFrame, UNCHANGED <<attached, loose>>,
         RuleIs(r, rules[r]), PolEffect(r), SOk(SState)'
  PROVE  AclInv'
<1>1. PICK h \in RuleInfo : /\ h.table = rules[r].table /\ h.counter = rules[r].counter
                            /\ rules' = [rules EXCEPT ![r] = h]
  BY DEF RuleIs
<1>2. /\ rules \in [ARule -> RuleInfo \cup {NoARule}]
      /\ rules' \in [ARule -> RuleInfo \cup {NoARule}]
      /\ rules'[r] = h /\ \A q \in ARule \ {r} : rules'[q] = rules[q]
  BY <1>1, RulesAre DEF AclInv
<1>3. \A q \in ARule : /\ HasRule(q)' <=> HasRule(q)
                       /\ HasRule(q) => rules'[q].table = rules[q].table /\ rules'[q].counter = rules[q].counter
  BY <1>1, <1>2, AclAssumption DEF HasRule
<1>4. UNCHANGED <<tableVars, groupVars, sessions, sample_object, counters, orphans>>
  BY DEF SetFrame
<1>5. TabInv'
  BY <1>2, <1>3, <1>4, TabKept DEF AclInv
<1>6. CntInv'
  BY <1>3, <1>4, CntKept DEF AclInv
<1>7. GrpInv'
  BY <1>4, GrpKept DEF AclInv
<1>8. PolInv'
  BY PolStep DEF AclInv
<1>9. SampleInv'
  BY <1>4 DEF AclInv, SampleInv
<1> QED BY <1>5, <1>6, <1>7, <1>8, <1>9 DEF AclInv

---------------------------------------------------------------------------
(* Attributes of a rule                                                    *)

(* The ports of a list are ports.                                          *)
LEMMA ListIs ==
  ASSUME NEW list \in Lists
  PROVE  PortsOf(list) \subseteq SPort /\ list \subseteq SPort \cup {AllPorts}
BY DEF Lists, PortsOf

(* The sampling of a rule ends, if it has one.                             *)
LEMMA SampleDeleteOk ==
  ASSUME NEW s, SOk(s), NEW list \in Lists, NEW x \in Sess \cup {NoSess},
         NEW d \in SampleDelete(s, list, x)
  PROVE  SOk(d.s) /\ (Room(s) => Room(d.s)) /\ d.s.torn = s.torn
<1>1. CASE x = NoSess
  BY <1>1 DEF SampleDelete
<1>2. CASE x # NoSess
  <2>1. d \in SampleRemove(s, list, x)
    BY <1>2 DEF SampleDelete
  <2> QED BY <1>2, <2>1, ListIs, SampleRemoveOk
<1> QED BY <1>1, <1>2

(* A rule is sampled, if it asks for it.                                   *)
LEMMA SampleCreateOk ==
  ASSUME NEW s, SOk(s), NEW list \in Lists, NEW x \in Sess \cup {NoSess},
         x # NoSess => Room(s), NEW o \in SampleCreate(s, list, x)
  PROVE  SOk(o.s)
<1>1. CASE x = NoSess \/ ~ SampleFree(s, list, x)
  BY <1>1 DEF SampleCreate
<1>2. CASE x # NoSess /\ SampleFree(s, list, x)
  <2>1. o \in SampleUpdate(s, list, x)
    BY <1>2 DEF SampleCreate
  <2> QED BY <1>2, <2>1, ListIs, SampleUpdateOk
<1> QED BY <1>1, <1>2

(* The bound of the counts is one for the record.                          *)
LEMMA BoundedRoom == FlowsBounded => Room(SState)
BY StateIs DEF FlowsBounded, Room

(* No sampling changes.                                                    *)
LEMMA NoSamplingOk ==
  ASSUME SampleInv, NoSampling, UNCHANGED sessions
  PROVE  SOk(SState)'
<1>1. SState' = SState
  BY DEF NoSampling, SState
<1> QED BY <1>1 DEF SampleInv, SOk, NodesIn, Held

(* An attribute that is not the policer drops the policer.                 *)
LEMMA SetFieldInv ==
  ASSUME AclInv, NEW r \in ARule, SetField(r)
  PROVE  AclInv'
<1>1. /\ AclFree /\ HasRule(r) /\ PolicerUpdate(r, rules[r]) /\ NoSampling /\ SetFrame
      /\ UNCHANGED <<attached, loose, meters, attaching>>
  BY DEF SetField, Settable
<1>2. rules[r] \in RuleInfo
  BY <1>1, RulesAre DEF AclInv
<1>3. UNCHANGED <<policers, stormVars, sessions>>
  BY <1>1 DEF SetFrame
<1>4. meters' \in [ARule -> Policer \cup {NoPol}]
  BY <1>1 DEF AclInv, PolInv, PolTypes
<1>5. PolEffect(r) /\ RuleIs(r, rules[r])
  BY <1>1, <1>2, <1>3, <1>4, PolicerUpdateOk DEF AclInv
<1>6. SOk(SState)'
  BY <1>1, <1>3, NoSamplingOk DEF AclInv
<1> QED BY <1>1, <1>5, <1>6, RuleSet

(* So does the policer action disabled.                                    *)
LEMMA ResetRulePolicerInv ==
  ASSUME AclInv, NEW r \in ARule, ResetRulePolicer(r)
  PROVE  AclInv'
<1>1. /\ AclFree /\ HasRule(r) /\ PolicerUpdate(r, rules[r]) /\ NoSampling /\ SetFrame
      /\ meters' = [meters EXCEPT ![r] = NoPol] /\ UNCHANGED <<attached, loose, attaching>>
  BY DEF ResetRulePolicer, Settable
<1>2. rules[r] \in RuleInfo
  BY <1>1, RulesAre DEF AclInv
<1>3. UNCHANGED <<policers, stormVars, sessions>>
  BY <1>1 DEF SetFrame
<1>4. meters' \in [ARule -> Policer \cup {NoPol}]
  BY <1>1 DEF AclInv, PolInv, PolTypes
<1>5. PolEffect(r) /\ RuleIs(r, rules[r])
  BY <1>1, <1>2, <1>3, <1>4, PolicerUpdateOk DEF AclInv
<1>6. SOk(SState)'
  BY <1>1, <1>3, NoSamplingOk DEF AclInv
<1> QED BY <1>1, <1>5, <1>6, RuleSet

(* The rule names a policer that is found, and nothing lists it until then.*)
LEMMA SetRulePolicerInv ==
  ASSUME AclInv, NEW r \in ARule, NEW p \in Policer, SetRulePolicer(r, p)
  PROVE  AclInv'
<1>1. PICK old : old = rules[r].policer
  OBVIOUS
<1>2. /\ AclFree /\ HasRule(r) /\ meters' = [meters EXCEPT ![r] = p] /\ NoSampling /\ SetFrame
      /\ UNCHANGED <<attached, loose>>
      /\ IF p = old \/ (old # NoPol /\ ~ HasPolicer(old))
         THEN UNCHANGED <<acl_dll, rules, stray, attaching>>
         ELSE /\ rules' = [rules EXCEPT ![r].policer = p]
              /\ acl_dll' = IF old = NoPol THEN acl_dll ELSE RuleDetached(acl_dll, r, old)
              /\ stray' = stray \ {r}
              /\ attaching' = IF HasPolicer(p) THEN {<<r, p>>} ELSE attaching
  BY <1>1 DEF SetRulePolicer, Settable
<1>3. rules[r] \in RuleInfo /\ rules \in [ARule -> RuleInfo \cup {NoARule}]
  BY <1>2, RulesAre DEF AclInv
<1>4. UNCHANGED <<policers, stormVars, sessions>>
  BY <1>2 DEF SetFrame
<1>5. meters' \in [ARule -> Policer \cup {NoPol}]
  BY <1>2 DEF AclInv, PolInv, PolTypes
<1>6. ASSUME p = old \/ (old # NoPol /\ ~ HasPolicer(old))
      PROVE  PolEffect(r) /\ RuleIs(r, rules[r])
  <2>1. acl_dll' = acl_dll /\ stray' = stray /\ attaching' = attaching
        /\ rules' = [rules EXCEPT ![r] = rules[r]]
    BY <1>2, <1>3, <1>6
  <2>2. PolEffect(r)
    BY <1>2, <1>3, <1>4, <1>5, <2>1, PolSame DEF AclInv
  <2> QED BY <1>3, <2>1, <2>2 DEF RuleIs
<1>7. ASSUME ~ (p = old \/ (old # NoPol /\ ~ HasPolicer(old)))
      PROVE  PolEffect(r) /\ RuleIs(r, rules[r])
  <2>1. PICK h : h = [rules[r] EXCEPT !.policer = p]
    OBVIOUS
  <2>2. h \in RuleInfo /\ h.policer = p /\ h.table = rules[r].table /\ h.counter = rules[r].counter
    BY <1>3, <2>1 DEF RuleInfo
  <2>3. /\ rules' = [rules EXCEPT ![r] = h]
        /\ acl_dll' = IF old = NoPol THEN acl_dll ELSE RuleDetached(acl_dll, r, old)
        /\ stray' = stray \ {r}
        /\ attaching' = IF HasPolicer(p) THEN {<<r, p>>} ELSE attaching
    BY <1>2, <1>7, <2>1
  <2>4. /\ rules'[r] = h /\ HasRule(r)' /\ \A q \in ARule \ {r} : rules'[q] = rules[q]
    BY <1>3, <2>2, <2>3, AclAssumption DEF HasRule
  <2>5. attaching = {}
    BY <1>2 DEF AclFree
  <2>6. \A x \in Policer : HasPolicer(x) /\ r \in acl_dll[x] => old = x
    BY <1>1 DEF AclInv, PolInv, PolicersListRules
  <2>7. acl_dll \in [Policer -> SUBSET ARule] /\ stray \subseteq ARule
    BY DEF AclInv, PolInv, PolTypes
  <2>8. /\ acl_dll' \in [Policer -> SUBSET ARule]
        /\ \A x \in Policer : HasPolicer(x) => acl_dll'[x] \subseteq acl_dll[x] /\ r \notin acl_dll'[x]
    <3>1. CASE old = NoPol
      BY <2>3, <2>6, <2>7, <3>1, PolicerAssumption
    <3>2. CASE old # NoPol
      <4>1. old \in Policer
        BY <1>1, <1>3, <3>2 DEF RuleInfo
      <4> QED BY <2>3, <2>6, <2>7, <3>2, <4>1 DEF RuleDetached
    <3> QED BY <3>1, <3>2
  <2>9. PolEffect(r)
    BY <1>4, <1>5, <2>2, <2>3, <2>4, <2>5, <2>7, <2>8 DEF PolEffect
  <2> QED BY <2>2, <2>3, <2>9 DEF RuleIs
<1>8. SOk(SState)'
  BY <1>2, <1>4, NoSamplingOk DEF AclInv
<1> QED BY <1>2, <1>6, <1>7, <1>8, RuleSet

(* What is done to the sampling of a rule leaves the sessions as they must *)
(* be, in whatever order.                                                  *)
LEMMA SetRuleSampleInv ==
  ASSUME AclInv, NEW r \in ARule, NEW x \in Sess \cup {NoSess}, SetRuleSample(r, x)
  PROVE  AclInv'
<1>1. PICK g : g = rules[r]
  OBVIOUS
<1>2. /\ AclFree /\ HasRule(r) /\ FlowsBounded /\ SetFrame
      /\ UNCHANGED <<attached, loose, meters, attaching>>
  BY DEF SetRuleSample, Settable
<1>3. g \in RuleInfo /\ rules \in [ARule -> RuleInfo \cup {NoARule}]
  BY <1>1, <1>2, RulesAre DEF AclInv
<1>4. /\ UNCHANGED <<policers, stormVars, sessions>>
      /\ meters' \in [ARule -> Policer \cup {NoPol}]
  BY <1>2 DEF SetFrame, AclInv, PolInv, PolTypes
<1>5. g.ports \in Lists /\ g.samplepacket_id \in Sess \cup {NoSess} /\ g.sample \in Sess \cup {NoSess}
  BY <1>3 DEF RuleInfo
<1>6. SOk(SState) /\ Room(SState)
  BY <1>2, BoundedRoom DEF AclInv, SampleInv
<1>7. PICK d \in SampleDelete(SState, g.ports, g.samplepacket_id) :
       \/ Commit(d.s) /\ Stopped
       \/ /\ x # NoSess /\ d.s.torn = {} /\ ~ SampleFree(d.s, g.ports, x)
          /\ g.ports # {AllPorts}
          /\ \E o \in SampleCreate(d.s, g.ports, g.samplepacket_id) : Commit(o.s)
          /\ Stopped
       \/ /\ x = NoSess /\ d.ok
          /\ Commit(d.s)
          /\ PolicerUpdate(r, [g EXCEPT !.sample = NoSess])
       \/ /\ x # NoSess /\ d.s.torn = {} /\ SampleFree(d.s, g.ports, x)
          /\ \E o \in SampleUpdate(d.s, g.ports, x) :
               /\ Commit(o.s)
               /\ IF o.ok THEN PolicerUpdate(r, [g EXCEPT !.sample = x])
                  ELSE /\ rules' = [rules EXCEPT ![r].sample = x]
                       /\ UNCHANGED <<acl_dll, stray>>
  BY <1>1 DEF SetRuleSample
<1>8. SOk(d.s) /\ Room(d.s)
  BY <1>5, <1>6, SampleDeleteOk
<1>9. PICK e : e = [g EXCEPT !.sample = x]
  OBVIOUS
<1>10. /\ e \in RuleInfo /\ e.policer = g.policer /\ e.table = g.table /\ e.counter = g.counter
  BY <1>3, <1>9 DEF RuleInfo
<1>11. ASSUME Stopped  PROVE PolEffect(r) /\ RuleIs(r, g)
  <2>1. rules' = [rules EXCEPT ![r] = g] /\ acl_dll' = acl_dll /\ stray' = stray
    BY <1>1, <1>3, <1>11 DEF Stopped
  <2>2. PolEffect(r)
    BY <1>1, <1>2, <1>3, <1>4, <2>1, PolSame DEF AclInv
  <2> QED BY <1>3, <2>1, <2>2 DEF RuleIs
<1>12. ASSUME PolicerUpdate(r, e)  PROVE PolEffect(r) /\ RuleIs(r, g)
  <2>1. PolEffect(r) /\ RuleIs(r, e)
    BY <1>1, <1>2, <1>4, <1>10, <1>12, PolicerUpdateOk DEF AclInv
  <2> QED BY <1>10, <2>1 DEF RuleIs
<1>13. ASSUME rules' = [rules EXCEPT ![r].sample = x], UNCHANGED <<acl_dll, stray>>
       PROVE  PolEffect(r) /\ RuleIs(r, g)
  <2>1. rules' = [rules EXCEPT ![r] = e]
    BY <1>1, <1>9, <1>13
  <2>2. PolEffect(r)
    BY <1>1, <1>2, <1>4, <1>10, <1>13, <2>1, PolSame DEF AclInv
  <2> QED BY <1>10, <2>1, <2>2 DEF RuleIs
<1>14. ASSUME Commit(d.s)  PROVE SOk(SState)'
  BY <1>4, <1>8, <1>14, CommitOk
<1>15. ASSUME NEW o \in SampleCreate(d.s, g.ports, g.samplepacket_id), Commit(o.s)
       PROVE  SOk(SState)'
  BY <1>4, <1>5, <1>8, <1>15, SampleCreateOk, CommitOk
<1>16. ASSUME NEW o \in SampleUpdate(d.s, g.ports, x), Commit(o.s), x # NoSess
       PROVE  SOk(SState)'
  <2>1. SOk(o.s)
    BY <1>5, <1>8, <1>16, ListIs, SampleUpdateOk
  <2> QED BY <1>4, <1>16, <2>1, CommitOk
<1>17. x = NoSess => e = [g EXCEPT !.sample = NoSess]
  BY <1>9
<1>18. PolEffect(r) /\ RuleIs(r, g) /\ SOk(SState)'
  BY <1>7, <1>9, <1>11, <1>12, <1>13, <1>14, <1>15, <1>16, <1>17, Zenon
<1> QED BY <1>1, <1>2, <1>18, RuleSet

(* The same for a new list of ports                                        *)
LEMMA SetRulePortsInv ==
  ASSUME AclInv, NEW r \in ARule, NEW list \in Lists, SetRulePorts(r, list)
  PROVE  AclInv'
<1>1. PICK g : g = rules[r]
  OBVIOUS
<1>2. /\ AclFree /\ HasRule(r) /\ FlowsBounded /\ SetFrame
      /\ UNCHANGED <<attached, loose, meters, attaching>>
  BY DEF SetRulePorts, Settable
<1>3. g \in RuleInfo /\ rules \in [ARule -> RuleInfo \cup {NoARule}]
  BY <1>1, <1>2, RulesAre DEF AclInv
<1>4. /\ UNCHANGED <<policers, stormVars, sessions>>
      /\ meters' \in [ARule -> Policer \cup {NoPol}]
  BY <1>2 DEF SetFrame, AclInv, PolInv, PolTypes
<1>5. g.ports \in Lists /\ g.samplepacket_id \in Sess \cup {NoSess} /\ g.sample \in Sess \cup {NoSess}
  BY <1>3 DEF RuleInfo
<1>6. SOk(SState) /\ Room(SState)
  BY <1>2, BoundedRoom DEF AclInv, SampleInv
<1>7. PICK e : e = [g EXCEPT !.ports = list]
  OBVIOUS
<1>8. /\ e \in RuleInfo /\ e.policer = g.policer /\ e.table = g.table /\ e.counter = g.counter
  BY <1>3, <1>7 DEF RuleInfo
<1>9. ASSUME Stopped  PROVE PolEffect(r) /\ RuleIs(r, g)
  <2>1. rules' = [rules EXCEPT ![r] = g] /\ acl_dll' = acl_dll /\ stray' = stray
    BY <1>1, <1>3, <1>9 DEF Stopped
  <2>2. PolEffect(r)
    BY <1>1, <1>2, <1>3, <1>4, <2>1, PolSame DEF AclInv
  <2> QED BY <1>3, <2>1, <2>2 DEF RuleIs
<1>10. ASSUME PolicerUpdate(r, e)  PROVE PolEffect(r) /\ RuleIs(r, g)
  <2>1. PolEffect(r) /\ RuleIs(r, e)
    BY <1>1, <1>2, <1>4, <1>8, <1>10, PolicerUpdateOk DEF AclInv
  <2> QED BY <1>8, <2>1 DEF RuleIs
<1>11. ASSUME rules' = [rules EXCEPT ![r].ports = list], UNCHANGED <<acl_dll, stray>>
       PROVE  PolEffect(r) /\ RuleIs(r, g)
  <2>1. rules' = [rules EXCEPT ![r] = e]
    BY <1>1, <1>7, <1>11
  <2>2. PolEffect(r)
    BY <1>1, <1>2, <1>4, <1>8, <1>11, <2>1, PolSame DEF AclInv
  <2> QED BY <1>8, <2>1, <2>2 DEF RuleIs
<1>12. ASSUME NoSampling  PROVE SOk(SState)'
  BY <1>4, <1>12, NoSamplingOk DEF AclInv
<1>13. ASSUME NEW d \in SampleDelete(SState, g.ports, g.samplepacket_id), Commit(d.s)
       PROVE  SOk(SState)'
  BY <1>4, <1>5, <1>6, <1>13, SampleDeleteOk, CommitOk
<1>14. ASSUME NEW d \in SampleDelete(SState, g.ports, g.samplepacket_id),
              NEW o \in SampleCreate(d.s, g.ports, g.samplepacket_id), Commit(o.s)
       PROVE  SOk(SState)'
  <2>1. SOk(d.s) /\ Room(d.s)
    BY <1>5, <1>6, SampleDeleteOk
  <2> QED BY <1>4, <1>5, <1>14, <2>1, SampleCreateOk, CommitOk
<1>15. ASSUME NEW d \in SampleDelete(SState, g.ports, g.samplepacket_id),
              NEW o \in SampleUpdate(d.s, list, g.sample), Commit(o.s), g.sample # NoSess
       PROVE  SOk(SState)'
  <2>1. SOk(d.s) /\ Room(d.s)
    BY <1>5, <1>6, SampleDeleteOk
  <2>2. SOk(o.s)
    BY <1>5, <1>15, <2>1, ListIs, SampleUpdateOk
  <2> QED BY <1>4, <1>15, <2>2, CommitOk
<1>16. CASE g.samplepacket_id = NoSess /\ g.sample = NoSess
  <2>1. NoSampling /\ PolicerUpdate(r, e)
    BY <1>1, <1>7, <1>16 DEF SetRulePorts
  <2> QED BY <1>1, <1>2, <1>10, <1>12, <2>1, RuleSet
<1>17. CASE ~ (g.samplepacket_id = NoSess /\ g.sample = NoSess)
  <2>1. PICK d \in SampleDelete(SState, g.ports, g.samplepacket_id) :
            \/ Commit(d.s) /\ Stopped
            \/ /\ g.sample # NoSess /\ d.ok /\ d.s.torn = {} /\ ~ SampleFree(d.s, list, g.sample)
               /\ \E o \in SampleCreate(d.s, g.ports, g.samplepacket_id) : Commit(o.s)
               /\ Stopped
            \/ /\ g.sample = NoSess /\ d.ok
               /\ Commit(d.s)
               /\ PolicerUpdate(r, e)
            \/ /\ g.sample # NoSess /\ d.ok /\ d.s.torn = {} /\ SampleFree(d.s, list, g.sample)
               /\ \E o \in SampleUpdate(d.s, list, g.sample) :
                    /\ Commit(o.s)
                    /\ IF o.ok THEN PolicerUpdate(r, e)
                       ELSE /\ rules' = [rules EXCEPT ![r].ports = list]
                            /\ UNCHANGED <<acl_dll, stray>>
    BY <1>1, <1>7, <1>17 DEF SetRulePorts
  <2>2. PolEffect(r) /\ RuleIs(r, g) /\ SOk(SState)'
    BY <1>9, <1>10, <1>11, <1>13, <1>14, <1>15, <2>1, Zenon
  <2> QED BY <1>1, <1>2, <2>2, RuleSet
<1> QED BY <1>16, <1>17

---------------------------------------------------------------------------
(* A new counter of a rule                                                 *)

CounterMoved(r, o) ==
  /\ o.g \in RuleInfo /\ o.g.table = rules[r].table /\ o.g.policer = rules[r].policer
  /\ o.att \in [Counter -> SUBSET ARule]
  /\ \A q \in ARule \ {r}, k \in Counter : q \in attached[k] => q \in o.att[k]
  /\ ~ o.lost /\ o.g.counter # NoCounter =>
       r \in o.att[o.g.counter] /\ counters[o.g.counter] = o.g.table

(* Each outcome of the swap of counters counts the rule right.             *)
LEMMA CounterUpdateOk ==
  ASSUME TabInv, CntInv, NEW r \in ARule, HasRule(r), NEW c \in Counter \cup {NoCounter},
         c \notin {NoCounter, rules[r].counter} => counters[c] = rules[r].table,
         NEW o \in CounterUpdate(r, c)
  PROVE  CounterMoved(r, o)
<1>1. PICK g : g = rules[r]
  OBVIOUS
<1>2. g \in RuleInfo /\ attached \in [Counter -> SUBSET ARule]
  BY <1>1, RulesAre DEF CntInv
<1>3. PICK h : h = [g EXCEPT !.counter = c]
  OBVIOUS
<1>4. h \in RuleInfo /\ h.table = g.table /\ h.policer = g.policer /\ h.counter = c
  BY <1>2, <1>3 DEF RuleInfo
<1>5. CASE o = [g |-> g, att |-> attached, lost |-> r \in loose]
  BY <1>1, <1>2, <1>5, CntIs DEF CntInv, CountedRight, CounterMoved
<1>6. ASSUME c # NoCounter, c # g.counter, NEW att \in [Counter -> SUBSET ARule],
             \A q \in ARule \ {r}, k \in Counter : q \in attached[k] => q \in att[k],
             \/ o = [g |-> h, att |-> Counted(att, r, c), lost |-> FALSE]
             \/ o = [g |-> h, att |-> att, lost |-> TRUE]
      PROVE  CounterMoved(r, o)
  <2>1. PICK b : b = Counted(att, r, c)
    OBVIOUS
  <2>2. /\ b \in [Counter -> SUBSET ARule] /\ r \in b[c]
        /\ \A q \in ARule, k \in Counter : q \in att[k] => q \in b[k]
    BY <1>6, <2>1 DEF Counted
  <2>3. counters[c] = g.table
    BY <1>1, <1>6
  <2>4. CASE o = [g |-> h, att |-> b, lost |-> FALSE]
    BY <1>1, <1>4, <1>6, <2>2, <2>3, <2>4 DEF CounterMoved
  <2>5. CASE o = [g |-> h, att |-> att, lost |-> TRUE]
    BY <1>1, <1>4, <1>6, <2>5 DEF CounterMoved
  <2> QED BY <1>6, <2>1, <2>4, <2>5
<1>7. CASE c = g.counter
  BY <1>1, <1>5, <1>7 DEF CounterUpdate
<1>8. CASE c # g.counter /\ g.counter = NoCounter
  <2>1. \/ o = [g |-> h, att |-> Counted(attached, r, c), lost |-> FALSE]
        \/ o = [g |-> h, att |-> attached, lost |-> TRUE]
    BY <1>1, <1>3, <1>8 DEF CounterUpdate
  <2> QED BY <1>2, <1>6, <1>8, <2>1
<1>9. CASE c # g.counter /\ g.counter # NoCounter
  <2>1. PICK a : a = Uncounted(attached, r, g.counter)
    OBVIOUS
  <2>2. g.counter \in Counter
    BY <1>2, <1>9 DEF RuleInfo
  <2>3. /\ a \in [Counter -> SUBSET ARule]
        /\ \A q \in ARule \ {r}, k \in Counter : q \in attached[k] => q \in a[k]
    BY <1>2, <2>1, <2>2 DEF Uncounted
  <2>4. CASE c = NoCounter
    <3>1. \/ o = [g |-> g, att |-> attached, lost |-> r \in loose]
          \/ o = [g |-> h, att |-> a, lost |-> FALSE]
      BY <1>1, <1>3, <1>9, <2>1, <2>4 DEF CounterUpdate
    <3>2. CASE o = [g |-> h, att |-> a, lost |-> FALSE]
      BY <1>1, <1>4, <2>3, <2>4, <3>2 DEF CounterMoved
    <3> QED BY <1>5, <3>1, <3>2
  <2>5. CASE c # NoCounter
    <3>1. \/ o = [g |-> g, att |-> attached, lost |-> r \in loose]
          \/ o = [g |-> h, att |-> Counted(a, r, c), lost |-> FALSE]
          \/ o = [g |-> h, att |-> a, lost |-> TRUE]
      BY <1>1, <1>3, <1>9, <2>1, <2>5 DEF CounterUpdate
    <3> QED BY <1>5, <1>6, <1>9, <2>3, <2>5, <3>1
  <2> QED BY <2>4, <2>5
<1> QED BY <1>7, <1>8, <1>9

(* The swap, with the loss of the policer that comes with it               *)
LEMMA SetCounterInv ==
  ASSUME AclInv, NEW r \in ARule, NEW c \in Counter \cup {NoCounter}, SetCounter(r, c)
  PROVE  AclInv'
<1>1. /\ AclFree /\ HasRule(r) /\ NoSampling /\ SetFrame /\ UNCHANGED <<meters, attaching>>
      /\ c \notin {NoCounter, rules[r].counter} => counters[c] = rules[r].table
  BY DEF SetCounter, Settable
<1>2. PICK o \in CounterUpdate(r, c) :
        /\ attached' = o.att
        /\ loose' = (IF o.lost THEN loose \cup {r} ELSE loose \ {r})
        /\ rules' = [rules EXCEPT ![r] = IF o.g.policer # NoPol /\ HasPolicer(o.g.policer)
                                         THEN [o.g EXCEPT !.policer = NoPol] ELSE o.g]
        /\ acl_dll' = IF o.g.policer # NoPol /\ HasPolicer(o.g.policer)
                      THEN RuleDetached(acl_dll, r, o.g.policer) ELSE acl_dll
        /\ stray' = IF o.g.policer # NoPol /\ HasPolicer(o.g.policer) THEN stray \ {r} ELSE stray
  BY DEF SetCounter
<1>3. CounterMoved(r, o)
  BY <1>1, CounterUpdateOk DEF AclInv
<1>4. PICK g \in RuleInfo : g = o.g
  BY <1>3 DEF CounterMoved
<1>5. g.policer = rules[r].policer /\ g.table = rules[r].table
  BY <1>3, <1>4 DEF CounterMoved
<1>6. PolicerUpdate(r, g)
  BY <1>2, <1>4 DEF PolicerUpdate
<1>7. UNCHANGED <<policers, stormVars, sessions, tableVars, groupVars, sample_object, counters, orphans>>
  BY <1>1 DEF SetFrame
<1>8. meters' \in [ARule -> Policer \cup {NoPol}]
  BY <1>1 DEF AclInv, PolInv, PolTypes
<1>9. PolEffect(r) /\ RuleIs(r, g)
  BY <1>1, <1>5, <1>6, <1>7, <1>8, PolicerUpdateOk DEF AclInv
<1>10. PICK h \in RuleInfo : h.table = g.table /\ h.counter = g.counter /\ rules' = [rules EXCEPT ![r] = h]
  BY <1>9 DEF RuleIs
<1>11. /\ rules \in [ARule -> RuleInfo \cup {NoARule}]
       /\ rules' \in [ARule -> RuleInfo \cup {NoARule}]
       /\ rules'[r] = h /\ \A q \in ARule \ {r} : rules'[q] = rules[q]
  BY <1>1, <1>10, RulesAre DEF AclInv
<1>12. TabInv'
  <2>1. \A q \in ARule : /\ HasRule(q)' <=> HasRule(q)
                         /\ HasRule(q) => rules'[q].table = rules[q].table
    BY <1>1, <1>5, <1>10, <1>11, AclAssumption DEF HasRule
  <2> QED BY <1>7, <1>11, <2>1, TabKept DEF AclInv
<1>13. CntInv'
  <2>1. loose' \subseteq ARule
    BY <1>2 DEF AclInv, CntInv
  <2>2. CountedRight(r)'
    BY <1>2, <1>3, <1>4, <1>7, <1>10, <1>11 DEF CountedRight, CounterMoved
  <2>3. attached' \in [Counter -> SUBSET ARule]
    BY <1>2, <1>3 DEF CounterMoved
  <2>4. \A q \in ARule \ {r} : /\ q \in loose' <=> q \in loose
                               /\ \A k \in Counter : q \in attached[k] => q \in attached'[k]
    BY <1>2, <1>3 DEF CounterMoved
  <2> QED BY <1>7, <1>11, <2>1, <2>2, <2>3, <2>4, CntStep DEF AclInv
<1>14. GrpInv' /\ PolInv'
  BY <1>7, <1>9, GrpKept, PolStep DEF AclInv
<1>15. SampleInv'
  BY <1>1, <1>7, NoSamplingOk DEF AclInv, SampleInv
<1> QED BY <1>12, <1>13, <1>14, <1>15 DEF AclInv

---------------------------------------------------------------------------
(* Rules come and go.                                                      *)

(* What a rule asks for exists or is none.                                 *)
LEMMA WantIs ==
  ASSUME NEW w \in Wants(Kind)
  PROVE  /\ w.counter \in Counter \cup {NoCounter} /\ w.policer \in Policer \cup {NoPol}
         /\ w.sample \in Sess \cup {NoSess} /\ w.ports \in Lists
BY DEF Wants, Kind

(* A rule enters its table, its counter and its sampling at once.          *)
LEMMA CreateRuleInv ==
  ASSUME AclInv, NEW c \in Caller, NEW r \in ARule, NEW w \in Wants(Kind), CreateRule(c, r, w)
  PROVE  AclInv'
<1>1. PICK h : h = [table |-> calls[c].table, counter |-> w.counter, policer |-> w.policer,
                    samplepacket_id |-> w.sample, sample |-> w.sample, ports |-> w.ports]
  OBVIOUS
<1>2. /\ AclFree /\ calls[c].op = "rule" /\ ~ calls[c].stale /\ ~ HasRule(r)
      /\ Valid(w, h.table) /\ (w.policer # NoPol => HasPolicer(w.policer))
      /\ calls' = [calls EXCEPT ![c] = Idle] /\ installed' = installed \cup {h.table}
      /\ attached' = IF w.counter = NoCounter THEN attached ELSE Counted(attached, r, w.counter)
      /\ attaching' = IF w.policer = NoPol THEN {} ELSE {<<r, w.policer>>}
      /\ meters' = [meters EXCEPT ![r] = w.policer]
      /\ rules' = [rules EXCEPT ![r] = h]
      /\ rule_count' = [rule_count EXCEPT ![h.table] = @ + 1]
      /\ loose' = loose \ {r} /\ orphans' = orphans \ {r} /\ stray' = stray \ {r}
      /\ UNCHANGED <<atables, num_counters, groupVars, polVars, sessions, sample_object, counters>>
  BY <1>1 DEF CreateRule
<1>3. /\ h \in RuleInfo /\ h.counter = w.counter /\ h.policer = w.policer /\ h.table = calls[c].table
  <2>1. h.table \in ATable
    BY <1>1, <1>2 DEF AclInv, TabInv, CallsRight, CallRight
  <2> QED BY <1>1, <2>1, WantIs DEF RuleInfo
<1>4. TabInv'
  BY <1>2, <1>3, NewRuleTab DEF AclInv
<1>5. /\ rules \in [ARule -> RuleInfo \cup {NoARule}]
      /\ rules'[r] = h /\ HasRule(r)' /\ \A q \in ARule \ {r} : rules'[q] = rules[q]
  BY <1>2, <1>3, AclAssumption DEF HasRule, AclInv, TabInv, TabTypes
<1>6. CntInv'
  <2>1. attached \in [Counter -> SUBSET ARule] /\ loose \subseteq ARule
    BY DEF AclInv, CntInv
  <2>2. CASE w.counter = NoCounter
    <3>1. CountedRight(r)'
      BY <1>3, <1>5, <2>2 DEF CountedRight
    <3> QED BY <1>2, <1>5, <2>1, <2>2, <3>1, CntStep DEF AclInv
  <2>3. CASE w.counter # NoCounter
    <3>1. w.counter \in Counter /\ counters[w.counter] = h.table
      BY <1>2, <2>3, WantIs DEF Valid
    <3>2. attached' = [attached EXCEPT ![w.counter] = @ \cup {r}]
      BY <1>2, <2>3 DEF Counted
    <3>3. /\ attached' \in [Counter -> SUBSET ARule] /\ r \in attached'[w.counter]
          /\ \A q \in ARule, k \in Counter : q \in attached[k] => q \in attached'[k]
      BY <2>1, <3>1, <3>2
    <3>4. CountedRight(r)'
      BY <1>2, <1>3, <1>5, <3>1, <3>3 DEF CountedRight
    <3> QED BY <1>2, <1>5, <2>1, <3>3, <3>4, CntStep DEF AclInv
  <2> QED BY <2>2, <2>3
<1>7. PolInv'
  <2>1. UNCHANGED <<policers, acl_dll, stormVars>>
    BY <1>2 DEF polVars, stormVars
  <2>2. \A p \in Policer : HasPolicer(p) => r \notin acl_dll[p]
    BY <1>2 DEF AclInv, PolInv, PolicersListRules
  <2>3. meters' \in [ARule -> Policer \cup {NoPol}] /\ stray' \subseteq ARule
        /\ acl_dll' \in [Policer -> SUBSET ARule]
    BY <1>2, <2>1, WantIs DEF AclInv, PolInv, PolTypes
  <2>4. \/ attaching' = {}
        \/ \E p \in Policer : /\ attaching' = {<<r, p>>} /\ HasPolicer(p)
                              /\ HasRule(r)' /\ rules'[r].policer = p
    BY <1>2, <1>3, <1>5, WantIs
  <2>5. PolEffect(r)
    BY <1>5, <2>1, <2>2, <2>3, <2>4 DEF PolEffect
  <2> QED BY <2>5, PolStep DEF AclInv
<1>8. SampleInv'
  <2>1. PICK o \in SampleCreate(SState, w.ports, w.sample) : o.ok /\ Commit(o.s)
    BY DEF CreateRule
  <2>2. w.sample # NoSess => Room(SState)
    BY <1>2, BoundedRoom DEF Valid
  <2>3. SOk(o.s)
    BY <2>1, <2>2, WantIs, SampleCreateOk DEF AclInv, SampleInv
  <2>4. SOk(SState)'
    BY <1>2, <2>1, <2>3, CommitOk
  <2> QED BY <1>2, <2>4 DEF AclInv, SampleInv
<1> QED BY <1>2, <1>4, <1>6, <1>7, <1>8, GrpKept DEF AclInv

(* A creation that fails leaves counts that are too high, none too low.    *)
LEMMA FailRuleInv ==
  ASSUME AclInv, NEW c \in Caller, NEW r \in ARule, NEW w \in Wants(Kind), FailRule(c, r, w)
  PROVE  AclInv'
<1>1. /\ calls[c].op = "rule" /\ ~ HasRule(r) /\ calls' = [calls EXCEPT ![c] = Idle]
      /\ UNCHANGED <<atables, rule_count, num_counters, groupVars, polVars, sessions,
                     sample_object, counters, rules, meters, loose, orphans, stray, attaching>>
  BY DEF FailRule, ruleVars
<1>2. \/ UNCHANGED <<installed, attached, port_tree, npuSampled, acl_info, torn, refused>>
      \/ /\ ~ calls[c].stale /\ Valid(w, calls[c].table)
         /\ installed' = installed \cup {calls[c].table}
         /\ \E o \in SampleCreate(SState, w.ports, w.sample) :
              \/ ~ o.ok /\ Commit(o.s) /\ UNCHANGED attached
              \/ /\ o.ok
                 /\ \E d \in SampleDelete(o.s, w.ports, w.sample) : Commit(d.s)
                 /\ \/ w.counter # NoCounter /\ UNCHANGED attached
                    \/ /\ w.policer # NoPol /\ ~ HasPolicer(w.policer)
                       /\ attached' \in {attached} \cup
                            (IF w.counter = NoCounter THEN {} ELSE {Counted(attached, r, w.counter)})
  BY DEF FailRule
<1>3. installed' \subseteq ATable
  <2>1. calls[c].table \in ATable
    BY <1>1 DEF AclInv, TabInv, CallsRight, CallRight
  <2> QED BY <1>2, <2>1 DEF AclInv, TabInv, TabTypes
<1>4. TabInv'
  BY <1>1, <1>3, CallEndsTab DEF AclInv
<1>5. attached' = attached \/ (w.counter # NoCounter /\ attached' = Counted(attached, r, w.counter))
  BY <1>2
<1>6. /\ attached' \in [Counter -> SUBSET ARule]
      /\ \A q \in ARule, k \in Counter : q \in attached[k] => q \in attached'[k]
  <2>1. attached \in [Counter -> SUBSET ARule]
    BY DEF AclInv, CntInv
  <2>2. CASE w.counter # NoCounter /\ attached' = Counted(attached, r, w.counter)
    BY <2>1, <2>2, WantIs DEF Counted
  <2> QED BY <1>5, <2>1, <2>2
<1>7. CntInv'
  <2>1. CountedRight(r)'
    BY <1>1 DEF CountedRight, HasRule
  <2>2. loose' \subseteq ARule
    BY <1>1 DEF AclInv, CntInv
  <2> QED BY <1>1, <1>6, <2>1, <2>2, CntStep DEF AclInv
<1>8. PolInv'
  BY <1>1, PolKept DEF AclInv, HasRule
<1>9. SOk(SState)'
  <2>1. CASE UNCHANGED <<port_tree, npuSampled, acl_info, torn, refused>>
    BY <1>1, <2>1, NoSamplingOk DEF AclInv, NoSampling
  <2>2. ASSUME NEW o \in SampleCreate(SState, w.ports, w.sample), Valid(w, calls[c].table)
        PROVE  SOk(o.s)
    <3>1. w.sample # NoSess => Room(SState)
      BY <2>2, BoundedRoom DEF Valid
    <3> QED BY <2>2, <3>1, WantIs, SampleCreateOk DEF AclInv, SampleInv
  <2>3. ASSUME NEW o \in SampleCreate(SState, w.ports, w.sample), Valid(w, calls[c].table), Commit(o.s)
        PROVE  SOk(SState)'
    BY <1>1, <2>2, <2>3, CommitOk
  <2>4. ASSUME NEW o \in SampleCreate(SState, w.ports, w.sample), Valid(w, calls[c].table),
               NEW d \in SampleDelete(o.s, w.ports, w.sample), Commit(d.s)
        PROVE  SOk(SState)'
    <3>1. SOk(o.s)
      BY <2>2, <2>4
    <3>2. SOk(d.s)
      BY <3>1, WantIs, SampleDeleteOk
    <3> QED BY <1>1, <2>4, <3>2, CommitOk
  <2> QED BY <1>2, <2>1, <2>3, <2>4, Zenon
<1> QED BY <1>1, <1>4, <1>7, <1>8, <1>9, GrpKept DEF AclInv, SampleInv

(* A rule in freed memory is one of its table no longer.                   *)
LEMMA CreateOrphanInv ==
  ASSUME AclInv, NEW c \in Caller, NEW r \in ARule, CreateOrphan(c, r)
  PROVE  AclInv'
<1>1. PICK h : h = [table |-> calls[c].table, counter |-> NoCounter, policer |-> NoPol,
                    samplepacket_id |-> NoSess, sample |-> NoSess, ports |-> {AllPorts}]
  OBVIOUS
<1>2. /\ AclFree /\ calls[c].stale /\ ~ HasRule(r) /\ rules' = [rules EXCEPT ![r] = h]
      /\ UNCHANGED <<groupVars, polVars, sampleVars, counters, attached, meters, loose, stray, attaching>>
  BY <1>1 DEF CreateOrphan
<1>3. /\ calls[c].table \in ATable \cup {NoTable} /\ calls[c].op = "rule"
  BY <1>2 DEF AclInv, TabInv, TabTypes, Call, CallsRight, CallRight
<1>4. h \in RuleInfo /\ h.counter = NoCounter
  <2>1. calls[c].table \in ATable
    BY <1>3 DEF AclInv, TabInv, CallsRight, CallRight
  <2> QED BY <1>1, <2>1 DEF RuleInfo, Lists
<1>5. /\ rules \in [ARule -> RuleInfo \cup {NoARule}]
      /\ rules'[r] = h /\ HasRule(r)' /\ \A q \in ARule \ {r} : rules'[q] = rules[q]
  BY <1>2, <1>4, AclAssumption DEF HasRule, AclInv, TabInv, TabTypes
<1>6. TabInv'
  BY CreateOrphanTab DEF AclInv
<1>7. CntInv'
  <2>1. CountedRight(r)'
    BY <1>4, <1>5 DEF CountedRight
  <2>2. attached' \in [Counter -> SUBSET ARule] /\ loose' \subseteq ARule
    BY <1>2 DEF AclInv, CntInv
  <2> QED BY <1>2, <1>5, <2>1, <2>2, CntStep DEF AclInv
<1>8. PolInv'
  BY <1>2, <1>5, PolKept DEF AclInv, HasRule
<1>9. SampleInv'
  <2>1. SState' = SState /\ sessions' = sessions /\ sample_object' = sample_object
    BY <1>2 DEF sampleVars, SState
  <2> QED BY <2>1 DEF AclInv, SampleInv, SOk, NodesIn, Held
<1> QED BY <1>2, <1>6, <1>7, <1>8, <1>9, GrpKept DEF AclInv

(* The rule leaves its table, its counter and its policer at once.         *)
LEMMA DeleteRuleInv ==
  ASSUME AclInv, NEW r \in ARule, DeleteRule(r)
  PROVE  AclInv'
<1>1. PICK g : g = rules[r]
  OBVIOUS
<1>2. /\ AclFree /\ HasRule(r) /\ HasTable(g.table) /\ r \notin orphans
      /\ attached' = IF g.counter = NoCounter THEN attached ELSE Uncounted(attached, r, g.counter)
      /\ acl_dll' = IF g.policer = NoPol THEN acl_dll ELSE RuleDetached(acl_dll, r, g.policer)
      /\ rules' = [rules EXCEPT ![r] = NoARule]
      /\ meters' = [meters EXCEPT ![r] = NoPol]
      /\ rule_count' = [rule_count EXCEPT ![g.table] = @ - 1]
      /\ loose' = loose \ {r} /\ stray' = stray \ {r}
      /\ UNCHANGED <<atables, installed, num_counters, calls, groupVars, policers, stormVars,
                     sessions, sample_object, counters, orphans, attaching>>
  BY <1>1 DEF DeleteRule
<1>3. g \in RuleInfo /\ rules \in [ARule -> RuleInfo \cup {NoARule}]
  BY <1>1, <1>2, RulesAre DEF AclInv
<1>4. TabInv'
  BY <1>1, <1>2, OldRuleTab DEF AclInv
<1>5. rules'[r] = NoARule /\ \A q \in ARule \ {r} : rules'[q] = rules[q]
  BY <1>2, <1>3
<1>6. CntInv'
  <2>1. CountedRight(r)'
    BY <1>5 DEF CountedRight, HasRule
  <2>2. attached \in [Counter -> SUBSET ARule] /\ loose' \subseteq ARule
    BY <1>2 DEF AclInv, CntInv
  <2>3. /\ attached' \in [Counter -> SUBSET ARule]
        /\ \A q \in ARule \ {r}, k \in Counter : q \in attached[k] => q \in attached'[k]
    <3>1. CASE g.counter = NoCounter
      BY <1>2, <2>2, <3>1
    <3>2. CASE g.counter # NoCounter
      BY <1>2, <1>3, <2>2, <3>2 DEF Uncounted, RuleInfo
    <3> QED BY <3>1, <3>2
  <2> QED BY <1>2, <1>5, <2>1, <2>2, <2>3, CntStep DEF AclInv
<1>7. PolInv'
  <2>1. stray' \subseteq ARule /\ meters' \in [ARule -> Policer \cup {NoPol}]
    BY <1>2 DEF AclInv, PolInv, PolTypes
  <2>2. PolEffect(r)
    BY <1>1, <1>2, <2>1, PolLeft DEF AclInv
  <2> QED BY <2>2, PolStep DEF AclInv
<1>8. SampleInv'
  <2>1. PICK x : x = IF g.samplepacket_id = NoSess THEN NoSess ELSE g.sample
    OBVIOUS
  <2>2. PICK d \in SampleDelete(SState, g.ports, x) : Commit(d.s)
    BY <1>1, <2>1 DEF DeleteRule
  <2>3. x \in Sess \cup {NoSess} /\ g.ports \in Lists
    BY <1>3, <2>1 DEF RuleInfo
  <2>4. SOk(d.s)
    BY <2>3, SampleDeleteOk DEF AclInv, SampleInv
  <2>5. SOk(SState)'
    BY <1>2, <2>2, <2>4, CommitOk
  <2> QED BY <1>2, <2>5 DEF AclInv, SampleInv
<1> QED BY <1>2, <1>4, <1>6, <1>7, <1>8, GrpKept DEF AclInv

(* What a deletion that fails does again is not the counting.              *)
LEMMA FailDeleteInv ==
  ASSUME AclInv, NEW r \in ARule, FailDelete(r)
  PROVE  AclInv'
<1>1. PICK g : g = rules[r]
  OBVIOUS
<1>2. PICK x : x = IF g.samplepacket_id = NoSess THEN NoSess ELSE g.sample
  OBVIOUS
<1>3. /\ HasRule(r) /\ (g.samplepacket_id # NoSess => FlowsBounded)
      /\ \/ UNCHANGED <<attached, loose>>
         \/ /\ g.counter # NoCounter
            /\ attached' = Uncounted(attached, r, g.counter)
            /\ loose' = loose \cup {r}
      /\ UNCHANGED <<tableVars, groupVars, polVars, sessions, sample_object, counters, rules, meters,
                     orphans, stray, attaching>>
  BY <1>1 DEF FailDelete
<1>4. g \in RuleInfo /\ rules \in [ARule -> RuleInfo \cup {NoARule}]
  BY <1>1, <1>3, RulesAre DEF AclInv
<1>5. TabInv'
  BY <1>3, <1>4, TabKept DEF AclInv, HasRule
<1>6. CntInv'
  <2>1. CASE UNCHANGED <<attached, loose>>
    BY <1>3, <2>1, CntKept DEF AclInv, HasRule
  <2>2. CASE g.counter # NoCounter /\ attached' = Uncounted(attached, r, g.counter) /\ loose' = loose \cup {r}
    <3>1. attached \in [Counter -> SUBSET ARule] /\ loose' \subseteq ARule
      BY <2>2 DEF AclInv, CntInv
    <3>2. /\ attached' \in [Counter -> SUBSET ARule]
          /\ \A q \in ARule \ {r}, k \in Counter : q \in attached[k] => q \in attached'[k]
      BY <1>4, <2>2, <3>1 DEF Uncounted, RuleInfo
    <3>3. CountedRight(r)'
      BY <2>2 DEF CountedRight
    <3> QED BY <1>3, <2>2, <3>1, <3>2, <3>3, CntStep DEF AclInv
  <2> QED BY <1>3, <2>1, <2>2
<1>7. PolInv'
  BY <1>3, PolKept DEF AclInv, HasRule
<1>8. x \in Sess \cup {NoSess} /\ g.ports \in Lists /\ (x # NoSess => Room(SState))
  BY <1>2, <1>3, <1>4, BoundedRoom DEF RuleInfo
<1>9. PICK d \in SampleDelete(SState, g.ports, x) :
        IF d.s.torn # {} THEN Commit(d.s) ELSE \E o \in SampleCreate(d.s, g.ports, x) : Commit(o.s)
  BY <1>1, <1>2 DEF FailDelete
<1>10. SOk(d.s) /\ (x # NoSess => Room(d.s))
  BY <1>8, SampleDeleteOk DEF AclInv, SampleInv
<1>11. SOk(SState)'
  <2>1. CASE Commit(d.s)
    BY <1>3, <1>10, <2>1, CommitOk
  <2>2. ASSUME NEW o \in SampleCreate(d.s, g.ports, x), Commit(o.s)
        PROVE  SOk(SState)'
    BY <1>3, <1>8, <1>10, <2>2, SampleCreateOk, CommitOk
  <2> QED BY <1>9, <2>1, <2>2
<1> QED BY <1>3, <1>5, <1>6, <1>7, <1>11, GrpKept DEF AclInv, SampleInv

---------------------------------------------------------------------------
(* The other calls                                                         *)

(* The sessions are left alone.                                            *)
LEMMA SampleKept ==
  ASSUME SampleInv, UNCHANGED sampleVars
  PROVE  SampleInv'
<1>1. SState' = SState /\ sessions' = sessions /\ sample_object' = sample_object
  BY DEF sampleVars, SState
<1> QED BY <1>1 DEF SampleInv, SOk, NodesIn, Held

(* The rules and what they hold are left alone.                            *)
LEMMA OwnKept ==
  ASSUME AclInv, UNCHANGED <<polVars, sampleVars, aclOwn>>
  PROVE  CntInv' /\ PolInv' /\ SampleInv'
<1>1. UNCHANGED <<counters, attached, rules, meters, loose, orphans, stray, attaching>>
  BY DEF aclOwn, ruleVars
<1>2. CntInv'
  BY <1>1, CntKept DEF AclInv, HasRule
<1>3. PolInv'
  BY <1>1, PolKept DEF AclInv, HasRule
<1> QED BY <1>2, <1>3, SampleKept DEF AclInv

(* Calls on tables                                                         *)
LEMMA TableNextInv ==
  ASSUME AclInv, TableNext, UNCHANGED <<polVars, sampleVars, aclOwn>>
  PROVE  AclInv'
<1>1. UNCHANGED <<counters, rules, orphans>>
  BY DEF aclOwn, ruleVars
<1>2. ASSUME NEW c \in Caller, NEW prio \in APrio, ValidateTable(c, prio)
      PROVE  TabInv' /\ UNCHANGED groupVars
  BY <1>1, <1>2, ValidateTableTab DEF AclInv, ValidateTable
<1>3. ASSUME NEW c \in Caller, NEW t \in ATable, CreateTable(c, t)
      PROVE  TabInv' /\ UNCHANGED groupVars
  BY <1>1, <1>3, CreateTableTab DEF AclInv, CreateTable
<1>4. ASSUME NEW t \in ATable, DeleteTable(t)
      PROVE  TabInv' /\ UNCHANGED groupVars
  BY <1>1, <1>4, DeleteTableTab DEF AclInv, DeleteTable
<1>5. TabInv' /\ UNCHANGED groupVars
  BY <1>2, <1>3, <1>4, Zenon DEF TableNext
<1> QED BY <1>5, GrpKept, OwnKept DEF AclInv

(* Calls on groups and members                                             *)
LEMMA GroupNextInv ==
  ASSUME AclInv, GroupNext, UNCHANGED <<polVars, sampleVars, aclOwn>>
  PROVE  AclInv'
<1>1. UNCHANGED <<counters, rules, orphans>>
  BY DEF aclOwn, ruleVars
<1>2. ASSUME UNCHANGED tableVars  PROVE TabInv'
  <2>1. rules' \in [ARule -> RuleInfo \cup {NoARule}]
    BY <1>1 DEF AclInv, TabInv, TabTypes
  <2> QED BY <1>1, <1>2, <2>1, TabKept DEF AclInv, HasRule
<1>3. ASSUME NEW g \in AGroup, CreateGroup(g)  PROVE TabInv' /\ GrpInv'
  BY <1>2, <1>3, CreateGroupGrp DEF AclInv, CreateGroup
<1>4. ASSUME NEW g \in AGroup, DeleteGroup(g)  PROVE TabInv' /\ GrpInv'
  BY <1>2, <1>4, DeleteGroupGrp DEF AclInv, DeleteGroup
<1>5. ASSUME NEW m \in AMember, DeleteMember(m)  PROVE TabInv' /\ GrpInv'
  BY <1>2, <1>5, DeleteMemberGrp DEF AclInv, DeleteMember
<1>6. ASSUME NEW m \in AMember, NEW t \in ATable, NEW g \in AGroup, NEW prio \in APrio,
             CreateMember(m, t, g, prio)
      PROVE  TabInv' /\ GrpInv'
  <2>1. /\ atables' = IF HasTable(t) THEN [atables EXCEPT ![t] = prio] ELSE atables
        /\ UNCHANGED <<installed, rule_count, num_counters, calls>>
    BY <1>6 DEF CreateMember
  <2> QED BY <1>1, <1>6, <2>1, PriorityTab, CreateMemberGrp DEF AclInv
<1>7. TabInv' /\ GrpInv'
  BY <1>3, <1>4, <1>5, <1>6, Zenon DEF GroupNext
<1> QED BY <1>7, OwnKept DEF AclInv

(* The first step of the creation of a rule                                *)
LEMMA LookupTableInv ==
  ASSUME AclInv, NEW c \in Caller, NEW t \in ATable, LookupTable(c, t)
  PROVE  AclInv'
<1>1. UNCHANGED <<groupVars, polVars, sampleVars, aclOwn>>
  BY DEF LookupTable, aclOwn
<1> QED BY <1>1, LookupTableTab, GrpKept, OwnKept DEF AclInv

(* Calls on counters                                                       *)
LEMMA CounterCallInv ==
  ASSUME AclInv, NEW k \in Counter,
         DeleteCounter(k) \/ \E t \in ATable : CreateCounter(k, t)
  PROVE  AclInv'
<1>1. UNCHANGED <<groupVars, polVars, sampleVars, rules, meters, stray, attaching>>
  BY DEF CreateCounter, DeleteCounter, ruleVars
<1>2. PolInv'
  BY <1>1, PolKept DEF AclInv, HasRule
<1>3. TabInv' /\ CntInv'
  BY CreateCounterTab, CreateCounterCnt, DeleteCounterTab, DeleteCounterCnt DEF AclInv
<1> QED BY <1>1, <1>2, <1>3, GrpKept, SampleKept DEF AclInv

(* Calls that leave the rules, the tables and the counters alone           *)
LEMMA RulesKept ==
  ASSUME AclInv, UNCHANGED <<tableVars, groupVars, counters, attached, rules, loose, orphans>>
  PROVE  TabInv' /\ GrpInv' /\ CntInv'
<1>1. rules' \in [ARule -> RuleInfo \cup {NoARule}]
  BY DEF AclInv, TabInv, TabTypes
<1>2. TabInv'
  BY <1>1, TabKept DEF AclInv, HasRule
<1>3. CntInv'
  BY CntKept DEF AclInv, HasRule
<1> QED BY <1>2, <1>3, GrpKept DEF AclInv

(* Calls on policers, and the second step of joining one                   *)
LEMMA PolicerStepInv ==
  ASSUME AclInv, PolicerCall \/ \E r \in ARule, p \in Policer : AttachPolicer(r, p)
  PROVE  AclInv'
<1>1. UNCHANGED <<tableVars, groupVars, counters, attached, rules, loose, orphans, sampleVars>>
  BY DEF PolicerCall, AttachPolicer
<1>2. PolInv'
  BY PolicerCallPol, AttachPolicerPol DEF AclInv
<1> QED BY <1>1, <1>2, RulesKept, SampleKept DEF AclInv

(* Calls on sessions                                                       *)
LEMMA SampleCallInv ==
  ASSUME AclInv, SampleNext, UNCHANGED <<tableVars, groupVars, polVars, aclOwn>>
  PROVE  AclInv'
<1>1. UNCHANGED <<counters, attached, rules, meters, loose, orphans, stray, attaching>>
  BY DEF aclOwn, ruleVars
<1>2. PolInv'
  BY <1>1, PolKept DEF AclInv, HasRule
<1>3. SampleInv'
  BY SampleNextOk DEF AclInv
<1> QED BY <1>1, <1>2, <1>3, RulesKept DEF AclInv

---------------------------------------------------------------------------
(* The invariant holds at first ...                                        *)
LEMMA AclInitInv ==
  ASSUME AclInit
  PROVE  AclInv
<1>1. TabInv
  <2>1. TabTypes /\ CallsRight
    BY IdleIs DEF AclInit, TableInit, TabTypes, CallsRight, CallRight
  <2>2. TablesCount
    BY DEF AclInit, TableInit, TablesCount, HasTable, HasRule, HasCounter
  <2> QED BY <2>1, <2>2 DEF TabInv
<1>2. GrpInv
  BY AclTableAssumption DEF AclInit, TableInit, GrpInv, GroupsListMembers, HasGroup, Absent
<1>3. CntInv
  BY DEF AclInit, CntInv, CountersCountRules, HasRule
<1>4. PolInv
  BY DEF AclInit, PolInit, PolInv, PolTypes, PolicersListRules, AttachingRight, HasPolicer
<1>5. SampleInv
  BY SampleInitOk DEF AclInit
<1> QED BY <1>1, <1>2, <1>3, <1>4, <1>5 DEF AclInv

(* ... is kept by every action ...                                         *)
LEMMA AclNextInv ==
  ASSUME AclInv, AclNext(Kind)
  PROVE  AclInv'
<1>1. ASSUME RuleNext(Kind)  PROVE AclInv'
  BY <1>1, LookupTableInv, CreateOrphanInv, CreateRuleInv, FailRuleInv, DeleteRuleInv,
     FailDeleteInv, SetFieldInv, Zenon DEF RuleNext
<1>2. ASSUME CounterNext  PROVE AclInv'
  BY <1>2, CounterCallInv, SetCounterInv, Zenon DEF CounterNext
<1>3. ASSUME RulePolicerNext \/ PolicerCall  PROVE AclInv'
  BY <1>3, PolicerStepInv, SetRulePolicerInv, ResetRulePolicerInv, Zenon DEF RulePolicerNext
<1>4. ASSUME RuleSampleNext  PROVE AclInv'
  BY <1>4, SetRuleSampleInv, SetRulePortsInv, Zenon DEF RuleSampleNext
<1> QED BY <1>1, <1>2, <1>3, <1>4, TableNextInv, GroupNextInv, SampleCallInv, Zenon DEF AclNext

(* ... and when nothing happens.                                           *)
LEMMA AclStutters ==
  ASSUME AclInv, UNCHANGED aclVars
  PROVE  AclInv'
<1>1. UNCHANGED <<tableVars, groupVars, polVars, sampleVars, counters, attached, rules, meters, loose,
                  orphans, stray, attaching>>
  BY DEF aclVars, ruleVars
<1>2. PolInv'
  BY <1>1, PolKept DEF AclInv, HasRule
<1> QED BY <1>1, <1>2, RulesKept, SampleKept DEF AclInv

(* The invariant holds of every reachable state.                           *)
LEMMA AclInvHolds == AclSpec => []AclInv
<1>1. AclInit => AclInv
  BY AclInitInv
<1>2. AclInv /\ [AclNext(Kind)]_aclVars => AclInv'
  BY AclNextInv, AclStutters
<1> QED BY <1>1, <1>2, PTL DEF AclSpec

(* Every variable of the access lists keeps to its type.                   *)
THEOREM AclTypes == AclSpec => []AclTypeOK
<1>1. AclInv => AclTypeOK
  <2> SUFFICES ASSUME AclInv  PROVE AclTypeOK
    OBVIOUS
  <2>1. TableTypeOK
    BY DEF AclInv, TabInv, TabTypes, GrpInv, TableTypeOK, Call
  <2>2. PolTypeOK
    BY AclAssumption DEF AclInv, PolInv, PolTypes, PolTypeOK
  <2>3. SampleTypeOK
    BY SampleInvIs DEF AclInv
  <2>4. /\ counters \in [Counter -> ATable \cup {NoTable}]
        /\ attached \in [Counter -> SUBSET ARule]
        /\ rules \in [ARule -> RuleInfo \cup {NoARule}]
        /\ meters \in [ARule -> Policer \cup {NoPol}]
        /\ loose \subseteq ARule /\ orphans \subseteq ARule /\ stray \subseteq ARule
        /\ attaching \subseteq ARule \X Policer
    BY DEF AclInv, TabInv, TabTypes, CntInv, PolInv, PolTypes
  <2> QED BY <2>1, <2>2, <2>3, <2>4 DEF AclTypeOK
<1> QED BY <1>1, AclInvHolds, PTL

(* What a deletion is decided by is exact: the rules and the counters a    *)
(* table counts, the members a group lists, the rules a counter counts     *)
(* (sai_acl_table.c:688, sai_acl_table_group.c:350,                        *)
(* sai_acl_counter.c:327).                                                 *)
THEOREM AclCountsExact == AclSpec => []AclCounts
<1>1. AclInv => AclCounts
  BY DEF AclInv, TabInv, GrpInv, CntInv, AclCounts
<1> QED BY <1>1, AclInvHolds, PTL

(* The list of a policer has only rules that are there and name it, with   *)
(* calls on policers between the two steps of a rule that joins it         *)
(* (sai_acl_policer.c:40-142).                                             *)
THEOREM PolicersListTheirRules == AclSpec => []PolicersListRules
<1>1. AclInv => PolicersListRules
  BY DEF AclInv, PolInv
<1> QED BY <1>1, AclInvHolds, PTL

(* What the rules sample is held by a session that is there, through every *)
(* refusal but that to end a sampling (sai_samplepacket_port.c:250-484).   *)
THEOREM RuleSamplesAreHeld == AclSpec => []RuleSamplesHeld
<1>1. AclInv => RuleSamplesHeld
  BY StateIs DEF AclInv, SampleInv, SOk, NodesIn, Held, RuleSamplesHeld
<1> QED BY <1>1, AclInvHolds, PTL
=============================================================================
