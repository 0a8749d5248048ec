----------------------------- MODULE QosBuffer -----------------------------
(* Buffer pools, buffer profiles and the ports, queues and priority groups *)
(* that use them: src/qos/sai_qos_buffer.c, sai_qos_buffer_common.c and    *)
(* sai_qos_pg.c.  The handlers run under the QoS lock and are one action   *)
(* each, but for the creation of a profile, which reads the pools before   *)
(* it takes the lock.  The WRED of a pool is in QosWred.                   *)
EXTENDS Integers, FiniteSets, FiniteSetsExt

CONSTANTS BPool, BProf, BPort, BQueue, BPg,   \* ids
          Mode,                               \* threshold modes: static, dynamic
          PoolSize, ProfSize, Xoff, BVal,     \* sizes and thresholds tried
          ThKind,                             \* modes of a profile, "inherit", "unset"
          NoNode, NoProf, NoReq, NoBVal,
          MaxFault                            \* bound on refusals that leave a trace

VARIABLES
  pools,     \* pool nodes: shared is what is left, ref is num_ref
  profs,     \* profile nodes
  userOf,    \* buffer_profile_id of ports, queues and priority groups
  applied,   \* the thresholds the NPU last took for a user
  pgs,       \* priority groups in the tree
  req,       \* a validated creation that waits for the lock
  leaked,    \* ghost: freed profiles still counted in a pool
  unbooked,  \* ghost: how often the booking of a pool went wrong
  unrestored       \* ghost: profiles whose users could not be set back

bufVars == <<pools, profs, userOf, applied, pgs, req, leaked, unbooked, unrestored>>

User == BPort \cup BQueue \cup BPg
PoolNode == [dir : {"in", "out"}, mode : Mode, size : Nat, xoff : Xoff, shared : Int, ref : Nat]
ProfNode == [pool : BPool, size : ProfSize, xoff : Xoff,
             th : ThKind, val : BVal, ref : Nat]
Request == [pool : BPool, pfc : BOOLEAN]

ASSUME BufferAssumption ==
  /\ IsFiniteSet(BPool) /\ IsFiniteSet(BProf) /\ IsFiniteSet(User)
  /\ PoolSize \subseteq Nat /\ ProfSize \subseteq Nat /\ Xoff \subseteq Nat
  /\ NoNode \notin BPool /\ NoNode \notin PoolNode /\ NoNode \notin ProfNode
  /\ NoProf \notin BProf

HasPool(p) == pools[p] # NoNode
HasProf(f) == profs[f] # NoNode
UsersOf(f) == {u \in User : userOf[u] = f}

(* sai_qos_is_object_buffer_profile_compatible *)
UserFits(u, f) == IF pools[profs[f].pool].dir = "in" THEN u \in BPort \cup BPg
                                                     ELSE u \in BQueue

(* sai_qos_is_buffer_pool_compatible *)
PoolsFit(p, q, checkTh) ==
  /\ HasPool(p) /\ HasPool(q)
  /\ pools[p].dir = pools[q].dir
  /\ checkTh => pools[p].mode = pools[q].mode

(* The threshold a profile takes: sai_qos_buffer_profile_is_mandatory_th_  *)
(* attr_present asks for it at creation, ..._is_valid_threshold_applied    *)
(* when one is set.  A profile without a mode goes by its pool.            *)
ModeOf(th, pool) == IF th \in Mode THEN th ELSE pool.mode
ThresholdFits(f, kind) ==
  IF kind \in Mode THEN kind = ModeOf(profs[f].th, pools[profs[f].pool])
                   ELSE pools[profs[f].pool].dir = "in"

(* XOFF headroom is taken from the pool unless the pool sets its own aside *)
(* (sai_qos_buffer_profile_get_reserved_xoff_th_get)                       *)
Reserved(pl, prof) == IF pl[prof.pool].xoff > 0 THEN 0 ELSE prof.xoff
Charge(pl, prof) == prof.size + Reserved(pl, prof)

(* sai_qos_is_buffer_pool_available *)
Available(p, n) == HasPool(p) /\ pools[p].shared >= n

(* Mutant: what a user reserved does not return to the pool                *)
RecalcKeeps(pl, p, n, ok) ==
  IF p \notin BPool \/ ~ok \/ n < 0 \/ pl[p].shared < n THEN pl
  ELSE [pl EXCEPT ![p].shared = @ - n]

(* sai_qos_buffer_pool_size_recalc: n units leave the pool (n < 0: return) *)
(* unless the NPU refuses; its callers ignore which.                       *)
Recalc(pl, p, n, ok) ==
  IF p \notin BPool \/ ~ok \/ pl[p].shared < n THEN pl
  ELSE [pl EXCEPT ![p].shared = @ - n]

(* The ghost count of the pools in s, whose booking went wrong             *)
Misbooked(s) == [p \in BPool |-> unbooked[p] + IF p \in s THEN 1 ELSE 0]

---------------------------------------------------------------------------
(* sai_qos_update_buffer_pool_node and sai_qos_validate_shared_buffer_pool_*)
(* size: what a pool becomes; FALSE size means it is refused.              *)
ValidPool(node) == node.xoff <= node.size /\ node.shared >= 0 /\ (node.xoff > 0 => node.dir = "in")
Resized(node, size, xoff) ==
  [node EXCEPT !.size = size, !.xoff = xoff, !.shared = @ + size - node.size - xoff + node.xoff]

(* sai_qos_create_buffer_pool.  NPU and WRED may refuse: no trace then.    *)
CreatePool(p) ==
  /\ ~HasPool(p)
  /\ \E dir \in {"in", "out"}, mode \in Mode, size \in PoolSize, xoff \in Xoff :
       LET node == Resized([dir |-> dir, mode |-> mode, size |-> 0, xoff |-> 0,
                            shared |-> 0, ref |-> 0], size, xoff)
       IN ValidPool(node) /\ pools' = [pools EXCEPT ![p] = node]
  /\ UNCHANGED <<profs, userOf, applied, pgs, req, leaked, unbooked, unrestored>>

(* sai_qos_remove_buffer_pool *)
RemovePool(p) ==
  /\ HasPool(p)
  /\ pools[p].ref = 0
  /\ pools' = [pools EXCEPT ![p] = NoNode]
  /\ unbooked' = [unbooked EXCEPT ![p] = 0]
  /\ UNCHANGED <<profs, userOf, applied, pgs, req, leaked, unrestored>>

(* sai_qos_buffer_pool_attr_set: the size; XOFF size goes to the NPU only  *)
SetPoolSize(p) ==
  /\ HasPool(p)
  /\ \E size \in PoolSize :
       LET node == Resized(pools[p], size, pools[p].xoff)
       IN ValidPool(node) /\ pools' = [pools EXCEPT ![p] = node]
  /\ UNCHANGED <<profs, userOf, applied, pgs, req, leaked, unbooked, unrestored>>

---------------------------------------------------------------------------
(* sai_qos_buffer_profile_attributes_validate, without the lock: the pool  *)
(* exists, its threshold is given, and PFC thresholds need an ingress pool *)
CheckProfile ==
  /\ req = NoReq
  /\ \E r \in Request :
       /\ HasPool(r.pool)
       /\ r.pfc => pools[r.pool].dir = "in"
       /\ req' = r
  /\ UNCHANGED <<pools, profs, userOf, applied, pgs, leaked, unbooked, unrestored>>

(* sai_qos_create_buffer_profile: the node is counted in its pool before   *)
(* the NPU is asked; if that or the tree refuses, the node is freed as it  *)
(* is.  A pool that went after the validation is not found.                *)
CreateProfile(f) ==
  /\ req # NoReq /\ ~HasProf(f)
  /\ req' = NoReq
  /\ IF ~HasPool(req.pool) THEN UNCHANGED <<pools, profs, leaked>>
     ELSE \E ok \in BOOLEAN, size \in ProfSize, xoff \in Xoff, v \in BVal,
             th \in ThKind :
       /\ xoff > 0 => req.pfc
       /\ pools' = [pools EXCEPT ![req.pool].ref = @ + 1]
       /\ profs' = IF ok THEN [profs EXCEPT ![f] =
                     [pool |-> req.pool, size |-> size, xoff |-> xoff,
                      th |-> th, val |-> v, ref |-> 0]] ELSE profs
       /\ leaked' = IF ok THEN leaked ELSE [leaked EXCEPT ![req.pool] = @ + 1]
  /\ UNCHANGED <<userOf, applied, pgs, unbooked, unrestored>>

(* sai_qos_remove_buffer_profile *)
RemoveProfile(f) ==
  /\ HasProf(f)
  /\ profs[f].ref = 0
  /\ pools' = [pools EXCEPT ![profs[f].pool].ref = @ - 1]
  /\ profs' = [profs EXCEPT ![f] = NoNode]
  /\ unrestored' = unrestored \ {f}
  /\ UNCHANGED <<userOf, applied, pgs, req, leaked, unbooked>>

(* sai_qos_update_buffer_profile_objects: ports, then queues, then PGs are *)
(* set; a refusal sets back those before it, where the NPU lets it.  The   *)
(* result names the users left with the new value.                         *)
Rank(u) == IF u \in BPort THEN 1 ELSE IF u \in BQueue THEN 2 ELSE 3
Reached(users) ==
  {[ok |-> TRUE, at |-> users]} \cup
  UNION {{[ok |-> FALSE, at |-> s] :
            s \in SUBSET {u \in users \ {bad} : Rank(u) <= Rank(bad)}} : bad \in users}

(* sai_qos_buffer_profile_attr_set: a threshold                            *)
SetThreshold(f) ==
  /\ HasProf(f)
  /\ \E kind \in Mode \cup {"xon"}, v \in BVal :
       /\ ThresholdFits(f, kind)
       /\ \E r \in Reached(IF kind = "xon" THEN UsersOf(f) \cap BPg ELSE UsersOf(f)) :
            IF kind = "xon" THEN UNCHANGED <<profs, applied, unrestored>>
            ELSE /\ applied' = [u \in User |-> IF u \in r.at THEN v ELSE applied[u]]
                 /\ profs' = IF r.ok THEN [profs EXCEPT ![f].val = v] ELSE profs
                 /\ unrestored' = IF r.ok THEN unrestored \ {f}
                            ELSE IF r.at # {} THEN unrestored \cup {f} ELSE unrestored
  /\ UNCHANGED <<pools, userOf, pgs, req, leaked, unbooked>>

(* ... its mode, which no user is told of                                  *)
SetThresholdMode(f) ==
  /\ HasProf(f)
  /\ \E th \in ThKind \ {"unset"} : profs' = [profs EXCEPT ![f].th = th]
  /\ UNCHANGED <<pools, userOf, applied, pgs, req, leaked, unbooked, unrestored>>

(* ... its size or its XOFF headroom: sai_qos_check_buffer_size asks for   *)
(* what all users need more, and the pool is booked afterwards.            *)
SetProfSize(f) ==
  /\ HasProf(f)
  /\ \E s \in ProfSize, x \in Xoff, ok \in BOOLEAN :
       LET p == profs[f].pool
           new == [profs[f] EXCEPT !.size = s, !.xoff = x]
           n == profs[f].ref * (Charge(pools, new) - Charge(pools, profs[f]))
       IN /\ (s = profs[f].size) # (x = profs[f].xoff)
          /\ x # profs[f].xoff => ThresholdFits(f, "xoff")
          /\ n <= 0 \/ Available(p, n)
          /\ profs' = [profs EXCEPT ![f] = new]
          /\ pools' = Recalc(pools, p, n, ok)
          /\ unbooked' = Misbooked(IF ok \/ n = 0 THEN {} ELSE {p})
  /\ UNCHANGED <<userOf, applied, pgs, req, leaked, unrestored>>

(* ... its pool: sai_qos_update_buffer_profile_node moves the count; the   *)
(* new pool is booked for what the old one reserved.                       *)
SetProfPool(f, p) ==
  /\ HasProf(f)
  /\ LET old == profs[f].pool
         n == profs[f].ref * Charge(pools, profs[f])
         moved == [pools EXCEPT ![old].ref = @ - 1]
         counted == [moved EXCEPT ![p].ref = @ + 1]
     IN /\ PoolsFit(p, old, profs[f].th = "unset")
        /\ Available(p, n)
        /\ profs' = [profs EXCEPT ![f].pool = p]
        /\ \E back, taken \in BOOLEAN :
             /\ pools' = Recalc(Recalc(counted, old, -n, back), p, n, taken)
             /\ unbooked' = Misbooked({q \in {old} : ~back /\ n # 0}
                  \cup {q \in {p} : \/ ~taken /\ n # 0
                                    \/ n # profs[f].ref * Charge(pools', profs'[f])})
  /\ UNCHANGED <<userOf, applied, pgs, req, leaked, unrestored>>

---------------------------------------------------------------------------
(* sai_qos_calc_pool_size: what the pool of the new profile must have left *)
(* (also when the user needs less than before)                             *)
Needed(old, new) ==
  LET o == IF old = NoProf THEN 0 ELSE Charge(pools, profs[old])
      n == Charge(pools, profs[new])
  IN IF old # NoProf /\ profs[old].pool = profs[new].pool
     THEN IF n > o THEN n - o ELSE o - n
     ELSE n

(* Mutant: the profile a user leaves goes on counting it                   *)
MovedToOldCounted(u, f) ==
  [g \in BProf |-> IF ~HasProf(g) THEN NoNode
                   ELSE [profs[g] EXCEPT !.ref = @ + (IF f = g THEN 1 ELSE 0)]]

(* sai_qos_obj_update_buffer_profile_node: the user changes lists          *)
MovedTo(u, f) ==
  [g \in BProf |-> IF ~HasProf(g) THEN NoNode
                   ELSE [profs[g] EXCEPT !.ref = @ - (IF userOf[u] = g THEN 1 ELSE 0)
                                                   + (IF f = g THEN 1 ELSE 0)]]

(* sai_qos_obj_update_buffer_profile: user u goes from its profile to f    *)
UpdateUser(u, f) ==
  LET old == userOf[u]
      give == IF old = NoProf THEN 0 ELSE Charge(pools, profs[old])
      take == IF f = NoProf THEN 0 ELSE Charge(pools, profs[f])
      from == IF old = NoProf THEN NoNode ELSE profs[old].pool
      to   == IF f = NoProf THEN NoNode ELSE profs[f].pool
  IN /\ old # f
     /\ f # NoProf => /\ HasProf(f) /\ UserFits(u, f)
                      /\ old # NoProf /\ from # to =>
                            PoolsFit(from, to, profs[old].th = "unset")
                      /\ Available(to, Needed(old, f))
     /\ userOf' = [userOf EXCEPT ![u] = f]
     /\ applied' = [applied EXCEPT ![u] = IF f = NoProf THEN NoBVal ELSE profs[f].val]
     /\ profs' = MovedTo(u, f)
     /\ \E back, taken \in BOOLEAN :
          IF from = to
          THEN /\ pools' = Recalc(pools, to, take - give, taken)
               /\ unbooked' = Misbooked({q \in {to} : ~taken /\ take # give})
          ELSE /\ pools' = Recalc(Recalc(pools, from, -give, back), to, take, taken)
               /\ unbooked' = Misbooked({q \in {from} \cap BPool : ~back /\ give # 0}
                                       \cup {q \in {to} \cap BPool : ~taken /\ take # 0})

(* The buffer profile of a port, queue or priority group is set            *)
SetUser(u, f) ==
  /\ u \in BPg => u \in pgs
  /\ UpdateUser(u, f)
  /\ UNCHANGED <<pgs, req, leaked, unrestored>>

(* sai_qos_pg_create_internal *)
CreatePg(u) ==
  /\ u \notin pgs
  /\ pgs' = pgs \cup {u}
  /\ UNCHANGED <<pools, profs, userOf, applied, req, leaked, unbooked, unrestored>>

(* sai_qos_pg_destroy_internal: the profile is taken off first, and stays  *)
(* off when the NPU then refuses to destroy the group.                     *)
DestroyPg(u) ==
  /\ u \in pgs
  /\ \/ UpdateUser(u, NoProf)
     \/ userOf[u] = NoProf /\ UNCHANGED <<pools, profs, userOf, applied, unbooked>>
  /\ pgs' \in {pgs, pgs \ {u}}
  /\ UNCHANGED <<req, leaked, unrestored>>

BufInit ==
  /\ pools = [p \in BPool |-> NoNode] /\ profs = [f \in BProf |-> NoNode]
  /\ userOf = [u \in User |-> NoProf]
  /\ applied = [u \in User |-> NoBVal]
  /\ pgs = {} /\ req = NoReq /\ leaked = [p \in BPool |-> 0]
  /\ unbooked = [p \in BPool |-> 0] /\ unrestored = {}

(* What refusals of the NPU have left behind                               *)
Faults == MapThenSumSet(LAMBDA p : leaked[p] + unbooked[p], BPool) + Cardinality(unrestored)

BufNext ==
  /\ \/ \E p \in BPool : CreatePool(p) \/ RemovePool(p) \/ SetPoolSize(p)
     \/ CheckProfile
     \/ \E f \in BProf : \/ CreateProfile(f) \/ RemoveProfile(f) \/ SetThreshold(f)
                         \/ SetThresholdMode(f) \/ SetProfSize(f)
                         \/ \E p \in BPool : SetProfPool(f, p)
     \/ \E u \in User, f \in BProf \cup {NoProf} : SetUser(u, f)
     \/ \E u \in BPg : CreatePg(u) \/ DestroyPg(u)
  /\ Faults' <= MaxFault

BufSpec == BufInit /\ [][BufNext]_bufVars

---------------------------------------------------------------------------
BufTypeOK ==
  /\ pools \in [BPool -> PoolNode \cup {NoNode}]
  /\ profs \in [BProf -> ProfNode \cup {NoNode}]
  /\ userOf \in [User -> BProf \cup {NoProf}]
  /\ applied \in [User -> BVal \cup {NoBVal}]
  /\ pgs \subseteq BPg
  /\ req \in Request \cup {NoReq}
  /\ leaked \in [BPool -> Nat]
  /\ unbooked \in [BPool -> Nat] /\ unrestored \subseteq BProf

ProfsIn(p) == {f \in BProf : HasProf(f) /\ profs[f].pool = p}

(* A profile that is used exists, and so does its pool, and each counts    *)
(* exactly who uses it - but for the freed profiles a refused creation     *)
(* leaves counted in their pool (sai_qos_buffer.c:446-474).  The removal   *)
(* of a pool or a profile goes by these counts alone.                      *)
BufferChain ==
  /\ \A u \in User : userOf[u] # NoProf => HasProf(userOf[u])
  /\ \A f \in BProf : HasProf(f) => /\ HasPool(profs[f].pool)
                                    /\ profs[f].ref = Cardinality(UsersOf(f))
  /\ \A p \in BPool : HasPool(p) => pools[p].ref = Cardinality(ProfsIn(p)) + leaked[p]

(* What the users of pool p reserve: a user stands for as many slots as    *)
(* its profile charges.                                                    *)
UsersIn(p) == {u \in User : userOf[u] # NoProf /\ profs[userOf[u]].pool = p}
ChargeOf == [u \in User |-> IF userOf[u] = NoProf THEN 0 ELSE Charge(pools, profs[userOf[u]])]
Slots(c, users) == UNION {{u} \X (1..c[u]) : u \in users}
Booked(p) == Cardinality(Slots(ChargeOf, UsersIn(p)))

(* What is left of a pool is its size less what is set aside and what its  *)
(* users reserve, through every change of a pool, profile or user, as long *)
(* as no booking is refused by the NPU (its callers do not look) and no    *)
(* profile moves between pools that reserve XOFF differently               *)
(* (sai_qos_buffer.c:948-955, 1089-1096): no pool is promised twice.       *)
PoolBooked ==
  \A p \in BPool : HasPool(p) /\ unbooked[p] = 0 =>
    /\ pools[p].shared >= 0
    /\ pools[p].shared = pools[p].size - pools[p].xoff - Booked(p)

(* All users of a profile run with its thresholds, whatever a refused set  *)
(* did half way, unless setting them back was refused too                  *)
(* (sai_qos_buffer.c:703-770).                                             *)
UsersFollowProfile ==
  \A u \in User : userOf[u] # NoProf /\ userOf[u] \notin unrestored => applied[u] = profs[userOf[u]].val
===========================================================================
