-------------------------------- MODULE Fib --------------------------------
(***************************************************************************)
(* The forwarding table: virtual routers and their routes (sai_l3_vrf.c,   *)
(* sai_l3_route.c), next hops (sai_l3_next_hop.c) and next hop groups      *)
(* (sai_l3_next_hop_group.c, sai_l3_next_hop_group_utl.c).                 *)
(*                                                                         *)
(* Objects point to one another and are kept alive by counts: a route      *)
(* counts in the next hop or group it forwards to, a group member in both  *)
(* its group and its next hop, a next hop in its router interface.  Every  *)
(* handler holds the FIB lock from its first look at the table to its last *)
(* change, so it is one action, whatever fails inside; but for a default   *)
(* route whose creation fails, which gets its old content back after the   *)
(* lock is released (RestoreDefault).                                      *)
(*                                                                         *)
(* An id names the node it was made for.  The router interfaces exist      *)
(* beforehand and stay (LagRif has them); a neighbour appears as far as it *)
(* shares the node of a next hop (Neighbor has the rest).  Tunnel encap    *)
(* next hops and IPv6 are left out.  Allocations and tree insertions       *)
(* succeed; the NPU may refuse anything, and does refuse to change a route *)
(* it does not have.  A handler that is refused without having changed     *)
(* anything is not shown.                                                  *)
(***************************************************************************)
EXTENDS Integers, FiniteSets

CONSTANTS
  Thread,      \* callers of the API
  Vrf,         \* virtual router ids
  RoutedVrf,   \* the virtual routers that have router interfaces
  Rif,         \* router interfaces
  Nh,          \* keys of IP next hop nodes: router interface and address
  RifOf,       \* the router interface of a key
  Group,       \* next hop group ids
  Member,      \* group member ids
  Prefix,      \* route prefixes
  Default,     \* the prefix of the default route
  MaxPaths,    \* sai_fib_max_ecmp_paths_get()
  MaxRef,      \* bound on the count of a next hop or group
  None,        \* no route, target, member or pending call
  Stale        \* a pointer to a node that was freed

ASSUME RouterAssumption == RoutedVrf \subseteq Vrf /\ Default \in Prefix
ASSUME RifOfAssumption == RifOf \in [Nh -> Rif]
ASSUME FiniteAssumption == \A S \in {Vrf, Nh, Group, Member, Prefix} : IsFiniteSet(S)
ASSUME TargetAssumption ==
  Nh \cap Group = {} /\ {None, Stale} \cap (Nh \cup Group) = {} /\ None # Stale
ASSUME ObjectAssumption == (Nh \cup Group) \cap (Vrf \X Prefix) = {}
ASSUME BoundAssumption == MaxPaths \in Nat /\ MaxRef \in Nat

VARIABLES
  vrs,       \* vrf_tree
  routes,    \* sai_route_tree of each virtual router
  nodes,     \* sai_nh_tree: the owners of each node; ref_count of the interfaces
  groups,    \* nh_group_tree
  links,     \* nh_list of the groups and nh_group_list of the next hops
             \* (weights), nh_count and ref_count
  members,   \* the member id map
  restore,   \* what each caller still has to copy back into a default route
  raced,     \* history: a default route changed while a caller had to restore it
  wild       \* a freed node was used, or one that is no next hop any more was
             \* counted as one: the model stops

vars == <<vrs, routes, nodes, groups, links, members, restore, raced, wild>>

Owner == {"nextHop", "neighbor"}
Action == {"forward", "drop"}
Target == Nh \cup Group
Route == [target : Target \cup {None, Stale}, act : Action, hw : BOOLEAN]

(* A copy of a default route; freed: the node it was made of is gone.      *)
Saved == [vr : Vrf, old : Route, freed : BOOLEAN]

(* sai_fib_internal_default_route_node_add: a default route that the NPU   *)
(* does not have; hw stands for hw_info, which the NPU code sets.          *)
EmptyDefault == [target |-> None, act |-> "drop", hw |-> FALSE]

IsNextHop(n) == n \in Nh /\ "nextHop" \in nodes.owners[n]

Live(x) == IsNextHop(x) \/ x \in groups

ASSUME NoneAssumption == None \notin Route \cup Saved \cup Vrf \cup (Group \X Nh)

(***************************************************************************)
(* Nodes and counts                                                        *)
(***************************************************************************)
(* A user of the node appears; the first one makes the node.               *)
Own(N, n, o) ==
  [owners |-> [N.owners EXCEPT ![n] = @ \cup {o}],
   rifRef |-> IF N.owners[n] = {} THEN [N.rifRef EXCEPT ![RifOf[n]] = @ + 1]
                                  ELSE N.rifRef]

(* Mutant: the interface is counted down for each user that goes.          *)
DisownAlwaysCounted(N, n, o) ==
  [owners |-> [N.owners EXCEPT ![n] = @ \ {o}],
   rifRef |-> [N.rifRef EXCEPT ![RifOf[n]] = @ - 1]]

(* A user of the node goes; sai_fib_check_and_delete_ip_next_hop_node frees *)
(* the node after the last one.                                            *)
Disown(N, n, o) ==
  [owners |-> [N.owners EXCEPT ![n] = @ \ {o}],
   rifRef |-> IF N.owners[n] \subseteq {o} /\ N.rifRef[RifOf[n]] > 0
                THEN [N.rifRef EXCEPT ![RifOf[n]] = @ - 1]
                ELSE N.rifRef]

Incr(L, x) ==
  CASE x \in Nh    -> [L EXCEPT !.nhRef[x] = @ + 1]
    [] x \in Group -> [L EXCEPT !.groupRef[x] = @ + 1]
    [] OTHER       -> L

Decr(L, x) ==
  CASE x \in Nh    -> [L EXCEPT !.nhRef[x] = IF @ > 0 THEN @ - 1 ELSE 0]
    [] x \in Group -> [L EXCEPT !.groupRef[x] = IF @ > 0 THEN @ - 1 ELSE 0]
    [] OTHER       -> L

(* Mutant: the next hop is not counted.                                    *)
AddInListsUncounted(L, g, n) ==
  Incr([L EXCEPT !.weight[g][n] = @ + 1, !.nhCount[g] = @ + 1], g)

AddInLists(L, g, n) ==
  Incr(Incr([L EXCEPT !.weight[g][n] = @ + 1, !.nhCount[g] = @ + 1], g), n)

RemoveFromLists(L, g, n) ==
  LET unlinked == IF L.weight[g][n] > 0
                    THEN [L EXCEPT !.weight[g][n] = @ - 1, !.nhCount[g] = @ - 1]
                    ELSE L
  IN Decr(Decr(unlinked, g), n)

(* No route may point to x any more; one that does keeps a bad pointer.    *)
Dangle(r, x) == IF r # None /\ r.target = x THEN [r EXCEPT !.target = Stale] ELSE r

Forget(x) ==
  /\ routes' = [v \in Vrf |-> [p \in Prefix |-> Dangle(routes[v][p], x)]]
  /\ restore' = [t \in Thread |->
                   IF restore[t] = None THEN None
                   ELSE [restore[t] EXCEPT !.old = Dangle(@, x)]]

(* The node of n is freed, unless a neighbour still has it.                *)
FreedWith(n) == IF nodes'.owners[n] = {} THEN Forget(n) ELSE UNCHANGED <<routes, restore>>

Room(x) == /\ x \in Nh => links.nhRef[x] < MaxRef
           /\ x \in Group => links.groupRef[x] < MaxRef

(***************************************************************************)
(* Initial states                                                          *)
(***************************************************************************)
Init ==
  /\ vrs = RoutedVrf
  /\ routes = [v \in Vrf |-> [p \in Prefix |->
                 IF v \in RoutedVrf /\ p = Default THEN EmptyDefault ELSE None]]
  /\ nodes = [owners |-> [n \in Nh |-> {}], rifRef |-> [r \in Rif |-> 0]]
  /\ groups = {}
  /\ links = [weight |-> [g \in Group |-> [n \in Nh |-> 0]],
              nhCount |-> [g \in Group |-> 0],
              nhRef |-> [n \in Nh |-> 0],
              groupRef |-> [g \in Group |-> 0]]
  /\ members = [m \in Member |-> None]
  /\ restore = [t \in Thread |-> None]
  /\ raced = FALSE
  /\ wild = FALSE

(***************************************************************************)
(* Virtual routers                                                         *)
(***************************************************************************)
Pending(v) == {t \in Thread : restore[t] # None /\ restore[t].vr = v}

(* sai_fib_internal_default_route_node_del: the node is freed, whatever it *)
(* forwards to; a caller that would restore it has a bad pointer.          *)
FreeDefault(v) ==
  /\ restore' = [t \in Thread |-> IF t \in Pending(v)
                                    THEN [restore[t] EXCEPT !.freed = TRUE]
                                    ELSE restore[t]]
  /\ raced' = (raced \/ Pending(v) # {})

VrCreate(v) ==
  /\ v \notin vrs
  /\ vrs' = vrs \cup {v}
  /\ routes' = [routes EXCEPT ![v][Default] = EmptyDefault]
  /\ UNCHANGED <<nodes, groups, links, members, restore, raced, wild>>

InUse(v) == v \in RoutedVrf \/ \E p \in Prefix \ {Default} : routes[v][p] # None

VrRemove(v) ==
  /\ v \in vrs
  /\ ~InUse(v)
  /\ vrs' = vrs \ {v}
  /\ routes' = [routes EXCEPT ![v][Default] = None]
  /\ FreeDefault(v)
  /\ UNCHANGED <<nodes, groups, links, members, wild>>

(* In use, or refused by the NPU: the default route is made anew.          *)
VrRemoveRefused(v) ==
  /\ v \in vrs
  /\ routes' = [routes EXCEPT ![v][Default] = EmptyDefault]
  /\ FreeDefault(v)
  /\ UNCHANGED <<vrs, nodes, groups, links, members, wild>>

(***************************************************************************)
(* Next hops and neighbours                                                *)
(***************************************************************************)
NhCreate(n) ==
  /\ ~IsNextHop(n)
  /\ nodes' = Own(nodes, n, "nextHop")
  /\ UNCHANGED <<vrs, routes, groups, links, members, restore, raced, wild>>

NhCreateFail(n) ==
  /\ ~IsNextHop(n)
  /\ nodes' = Disown(Own(nodes, n, "nextHop"), n, "nextHop")
  /\ UNCHANGED <<vrs, routes, groups, links, members, restore, raced, wild>>

(* Mutant: the next hop is removed however many routes use it.             *)
NhRemoveUnchecked(n) ==
  /\ IsNextHop(n)
  /\ \A g \in Group : links.weight[g][n] = 0
  /\ nodes' = Disown(nodes, n, "nextHop")
  /\ FreedWith(n)
  /\ UNCHANGED <<vrs, groups, links, members, raced, wild>>

NhRemove(n) ==
  /\ IsNextHop(n)
  /\ links.nhRef[n] = 0
  /\ \A g \in Group : links.weight[g][n] = 0
  /\ nodes' = Disown(nodes, n, "nextHop")
  /\ FreedWith(n)
  /\ UNCHANGED <<vrs, groups, links, members, raced, wild>>

NbrCreate(n) ==
  /\ "neighbor" \notin nodes.owners[n]
  /\ nodes' = Own(nodes, n, "neighbor")
  /\ UNCHANGED <<vrs, routes, groups, links, members, restore, raced, wild>>

NbrCreateFail(n) ==
  /\ "neighbor" \notin nodes.owners[n]
  /\ nodes' = Disown(Own(nodes, n, "neighbor"), n, "neighbor")
  /\ UNCHANGED <<vrs, routes, groups, links, members, restore, raced, wild>>

NbrRemove(n) ==
  /\ "neighbor" \in nodes.owners[n]
  /\ nodes' = Disown(nodes, n, "neighbor")
  /\ UNCHANGED <<vrs, routes, groups, links, members, restore, raced, wild>>

(***************************************************************************)
(* Next hop groups                                                         *)
(***************************************************************************)
GroupCreate(g) ==
  /\ g \notin groups
  /\ groups' = groups \cup {g}
  /\ UNCHANGED <<vrs, routes, nodes, links, members, restore, raced, wild>>

(* sai_fib_nh_group_remove_all_nh unlinks the members that are left without *)
(* giving their counts back.                                               *)
GroupRemove(g) ==
  /\ g \in groups
  /\ links.groupRef[g] = 0
  /\ groups' = groups \ {g}
  /\ links' = [links EXCEPT !.weight[g] = [n \in Nh |-> 0], !.nhCount[g] = 0]
  /\ Forget(g)
  /\ UNCHANGED <<vrs, nodes, members, raced, wild>>

Joinable(g, n) ==
  /\ g \in groups
  /\ IsNextHop(n)
  /\ links.nhCount[g] + 1 <= MaxPaths
  /\ Room(g) /\ Room(n)

MemberCreate(m, g, n) ==
  /\ Joinable(g, n)
  /\ members[m] = None
  /\ links' = AddInLists(links, g, n)
  /\ members' = [members EXCEPT ![m] = <<g, n>>]
  /\ UNCHANGED <<vrs, routes, nodes, groups, restore, raced, wild>>

(* The NPU refuses.                                                        *)
MemberCreateFail(g, n) ==
  /\ Joinable(g, n)
  /\ links' = RemoveFromLists(AddInLists(links, g, n), g, n)
  /\ UNCHANGED <<vrs, routes, nodes, groups, members, restore, raced, wild>>

(* There is no free id, or the map refuses it: nothing is undone.          *)
MemberCreateLeak(g, n) ==
  /\ Joinable(g, n)
  /\ links' = AddInLists(links, g, n)
  /\ UNCHANGED <<vrs, routes, nodes, groups, members, restore, raced, wild>>

(* Mutant: the id stays in the map.                                        *)
MemberRemoveKeepsId(m) ==
  /\ members[m] # None
  /\ members[m][1] \in groups
  /\ links.weight[members[m][1]][members[m][2]] > 0
  /\ links' = RemoveFromLists(links, members[m][1], members[m][2])
  /\ UNCHANGED <<vrs, routes, nodes, groups, members, restore, raced, wild>>

MemberRemove(m) ==
  /\ members[m] # None
  /\ LET g == members[m][1]
         n == members[m][2]
     IN /\ g \in groups
        /\ IsNextHop(n)
        /\ links.weight[g][n] > 0
        /\ links' = RemoveFromLists(links, g, n)
  /\ members' = [members EXCEPT ![m] = None]
  /\ UNCHANGED <<vrs, routes, nodes, groups, restore, raced, wild>>

(***************************************************************************)
(* Routes                                                                  *)
(***************************************************************************)
(* sai_fib_route_attributes_parse: a target that is not given stays as it  *)
(* is in the node, which is a new one or the empty default route.          *)
Parsed(r, x, a) == [target |-> IF x = None THEN r.target ELSE x, act |-> a, hw |-> TRUE]

Given(x) == x = None \/ Live(x)

Complete(r) == r.act = "forward" => r.target # None

(* The node a creation works on.                                           *)
NewNode(v, p) == IF routes[v][p] = None THEN EmptyDefault ELSE routes[v][p]

Creatable(v, p) ==
  /\ v \in vrs
  /\ routes[v][p] # None => p = Default /\ ~routes[v][p].hw

RouteCreate(v, p, x, a) ==
  /\ Creatable(v, p)
  /\ Given(x)
  /\ LET r == Parsed(NewNode(v, p), x, a)
     IN /\ Complete(r)
        /\ Given(r.target)
        /\ Room(r.target)
        /\ routes' = [routes EXCEPT ![v][p] = r]
        /\ links' = Incr(links, r.target)
  /\ raced' = (raced \/ (p = Default /\ Pending(v) # {}))
  /\ UNCHANGED <<vrs, nodes, groups, members, restore, wild>>

(* The default route keeps a pointer to an object that is gone, or to the  *)
(* node of a neighbour that was a next hop, and no target is given.        *)
RouteCreateStale(v, a) ==
  /\ Creatable(v, Default)
  /\ ~Given(Parsed(NewNode(v, Default), None, a).target)
  /\ wild' = TRUE
  /\ raced' = (raced \/ Pending(v) # {})
  /\ UNCHANGED <<vrs, routes, nodes, groups, links, members, restore>>

(* Parsing, or the NPU, fails.  The node of the default route has been     *)
(* written, and is copied back after the lock is released.                 *)
DefaultCreateFail(t, v, x, a) ==
  /\ restore[t] = None
  /\ Creatable(v, Default)
  /\ Given(x)
  /\ routes' = [routes EXCEPT ![v][Default] =
                 [Parsed(routes[v][Default], x, a) EXCEPT !.hw = FALSE]]
  /\ restore' = [restore EXCEPT ![t] = [vr |-> v, old |-> routes[v][Default],
                                        freed |-> FALSE]]
  /\ raced' = (raced \/ Pending(v) # {})
  /\ UNCHANGED <<vrs, nodes, groups, links, members, wild>>

RestoreDefault(t) ==
  /\ restore[t] # None
  /\ IF restore[t].freed
       THEN wild' = TRUE /\ UNCHANGED routes
       ELSE /\ routes' = [routes EXCEPT ![restore[t].vr][Default] = restore[t].old]
            /\ UNCHANGED wild
  /\ restore' = [restore EXCEPT ![t] = None]
  /\ UNCHANGED <<vrs, nodes, groups, links, members, raced>>

(* Mutant: the default route keeps its target.                             *)
RouteRemoveKeepsTarget(v, p) ==
  /\ routes[v][p] # None
  /\ routes[v][p].hw
  /\ routes' = [routes EXCEPT ![v][p] =
                  IF p = Default THEN [@ EXCEPT !.act = "drop", !.hw = FALSE] ELSE None]
  /\ links' = Decr(links, routes[v][p].target)
  /\ raced' = (raced \/ (p = Default /\ Pending(v) # {}))
  /\ UNCHANGED <<vrs, nodes, groups, members, restore, wild>>

RouteRemove(v, p) ==
  /\ routes[v][p] # None
  /\ routes[v][p].hw
  /\ routes' = [routes EXCEPT ![v][p] = IF p = Default THEN EmptyDefault ELSE None]
  /\ links' = Decr(links, routes[v][p].target)
  /\ raced' = (raced \/ (p = Default /\ Pending(v) # {}))
  /\ UNCHANGED <<vrs, nodes, groups, members, restore, wild>>

(* Mutant: the old target stays counted.                                   *)
RouteSetKeepsCount(v, p, r) ==
  /\ routes[v][p] # None
  /\ routes[v][p].hw
  /\ Complete(r)
  /\ routes' = [routes EXCEPT ![v][p] = r]
  /\ links' = Incr(links, r.target)
  /\ raced' = (raced \/ (p = Default /\ Pending(v) # {}))
  /\ UNCHANGED <<vrs, nodes, groups, members, restore, wild>>

(* One attribute is set: the target or the packet action.                  *)
RouteSet(v, p, r) ==
  LET old == routes[v][p]
  IN /\ old # None
     /\ old.hw
     /\ Complete(r)
     /\ routes' = [routes EXCEPT ![v][p] = r]
     /\ links' = IF r.target = old.target THEN links
                 ELSE Incr(Decr(links, old.target), r.target)
     /\ raced' = (raced \/ (p = Default /\ Pending(v) # {}))
     /\ UNCHANGED <<vrs, nodes, groups, members, restore, wild>>

RouteSetTarget(v, p, x) ==
  /\ routes[v][p] # None /\ Live(x) /\ Room(x)
  /\ RouteSet(v, p, [routes[v][p] EXCEPT !.target = x])

RouteSetAction(v, p, a) ==
  /\ routes[v][p] # None
  /\ RouteSet(v, p, [routes[v][p] EXCEPT !.act = a])

(***************************************************************************)
(* Specification                                                           *)
(***************************************************************************)
VrNext == \E v \in Vrf : VrCreate(v) \/ VrRemove(v) \/ VrRemoveRefused(v)

NhNext == \E n \in Nh : \/ NhCreate(n) \/ NhCreateFail(n) \/ NhRemove(n)
                        \/ NbrCreate(n) \/ NbrCreateFail(n) \/ NbrRemove(n)

GroupNext ==
  \/ \E g \in Group : GroupCreate(g) \/ GroupRemove(g)
  \/ \E g \in Group, n \in Nh : MemberCreateFail(g, n) \/ MemberCreateLeak(g, n)
  \/ \E m \in Member : MemberRemove(m) \/ \E g \in Group, n \in Nh : MemberCreate(m, g, n)

RouteNext ==
  \/ \E v \in Vrf, p \in Prefix :
       \/ RouteRemove(v, p)
       \/ \E x \in Target : RouteSetTarget(v, p, x)
       \/ \E a \in Action : RouteSetAction(v, p, a)
       \/ \E x \in Target \cup {None}, a \in Action : RouteCreate(v, p, x, a)
  \/ \E v \in Vrf, a \in Action :
       \/ RouteCreateStale(v, a)
       \/ \E t \in Thread, x \in Target \cup {None} : DefaultCreateFail(t, v, x, a)
  \/ \E t \in Thread : RestoreDefault(t)

Next == ~wild /\ (VrNext \/ NhNext \/ GroupNext \/ RouteNext)

Spec == Init /\ [][Next]_vars

(***************************************************************************)
(* Properties                                                              *)
(***************************************************************************)
(* Every variable has its type.                                            *)
TypeOK ==
  /\ vrs \subseteq Vrf
  /\ routes \in [Vrf -> [Prefix -> Route \cup {None}]]
  /\ nodes \in [owners : [Nh -> SUBSET Owner], rifRef : [Rif -> Nat]]
  /\ groups \subseteq Group
  /\ links \in [weight : [Group -> [Nh -> Nat]], nhCount : [Group -> Nat],
                nhRef : [Nh -> Nat], groupRef : [Group -> Nat]]
  /\ members \in [Member -> (Group \X Nh) \cup {None}]
  /\ restore \in [Thread -> Saved \cup {None}]
  /\ raced \in BOOLEAN
  /\ wild \in BOOLEAN

Installed(r) == r # None /\ r.hw

Forwards(r, x) == Installed(r) /\ r.target = x

(* The routes that the NPU has, and those of them that forward to x.       *)
RoutesIn == {e \in Vrf \X Prefix : Installed(routes[e[1]][e[2]])}

RoutesTo(x) == {e \in Vrf \X Prefix : Forwards(routes[e[1]][e[2]], x)}

(* As many slots for each element as its weight says.                      *)
Slots(w) == UNION {{s} \X (1..w[s]) : s \in DOMAIN w}

(* The entries of group g, and those for next hop n in all groups.         *)
Entries(g) == Slots(links.weight[g])

Joined(n) == Slots([g \in Group |-> links.weight[g][n]])

LinksOf(x) == IF x \in Nh THEN Joined(x) ELSE Entries(x)

(* The users of a next hop or group that are counted in its ref_count.     *)
Users(x) == Cardinality(RoutesTo(x)) + Cardinality(LinksOf(x))

NodesOn(r) == {n \in Nh : RifOf[n] = r /\ nodes.owners[n] # {}}

Count(x) == IF x \in Nh THEN links.nhRef[x] ELSE links.groupRef[x]

(* A next hop or group that a route or a group member points to exists, and *)
(* its count, which sai_fib_next_hop_remove and sai_fib_next_hop_group_remove *)
(* go by, is no less than its users; a router interface counts its nodes,   *)
(* of next hops and neighbours alike, exactly.                              *)
CountsCover ==
  /\ \A x \in Target : /\ Count(x) >= Users(x)
                       /\ Users(x) > 0 => Live(x)
  /\ RoutesTo(Stale) = {}
  /\ \A r \in Rif : nodes.rifRef[r] = Cardinality(NodesOn(r))

(* The default route of v, which is in the NPU and forwards to x, goes from *)
(* the table and nothing is counted down.                                   *)
Lost(v, x) ==
  /\ <<v, Default>> \in RoutesTo(x)
  /\ ~Installed(routes[v][Default])'
  /\ UNCHANGED links

Losing(x) == {v \in Vrf : Lost(v, x)}

(* What a count exceeds its users by changes in one way only: a default     *)
(* route is dropped from the table, by a removal of its virtual router      *)
(* (even one that is refused) or by a caller that restores it too late.     *)
(* No other sequence of route, group and next hop calls, failing ones       *)
(* included, leaves a count that no user will give back.                    *)
SurplusConserved ==
  [][\A x \in Target :
       (Count(x) - Users(x))' = (Count(x) - Users(x)) + Cardinality(Losing(x))]_vars

IdsOf(g, n) == {m \in Member : members[m] = <<g, n>>}

(* The member ids of a group are links of its lists, so that each can be    *)
(* removed; the group's size is the sum of its weights and within           *)
(* max ecmp-paths.                                                          *)
MembersLinked ==
  \A g \in Group :
    /\ \A n \in Nh : Cardinality(IdsOf(g, n)) <= links.weight[g][n]
    /\ links.nhCount[g] = Cardinality(Entries(g))
    /\ links.nhCount[g] <= MaxPaths

(* sai_fib_route_create restores a default route after it has released the  *)
(* lock: unless the route changes in between, no freed node is used, and a  *)
(* default route that the NPU does not have points to nothing.              *)
UndefinedOnlyByRace ==
  ~raced =>
    /\ ~wild
    /\ \A v \in vrs : Pending(v) = {} /\ ~routes[v][Default].hw =>
                       routes[v][Default] = EmptyDefault

(* Routes, groups and next hops implement the graph of objects: an object   *)
(* that is pointed to is never deleted (sai_l3_next_hop.c:934,              *)
(* sai_l3_next_hop_group.c:940).                                            *)
Graph == INSTANCE ObjectGraph WITH
  Object <- Nh \cup Group \cup (Vrf \X Prefix),
  alive <- {x \in Target : Live(x)} \cup RoutesIn,
  uses <- (UNION {RoutesTo(x) \X {x} : x \in Target}) \cup
            {e \in Group \X Nh : links.weight[e[1]][e[2]] > 0}

ImplementsObjectGraph == Graph!Spec
=============================================================================
