------------------------------- MODULE Encap -------------------------------
(* What an encapsulating next hop resolves to in the underlay router:      *)
(* sai_l3_encap_next_hop.c, with the calls that routes, neighbours and     *)
(* groups make of it.  A hop follows the neighbour that has its address,   *)
(* or else the best matching route; the objects it follows list it; and    *)
(* the overlay routes on a hop that changed are written again by a thread  *)
(* that is woken through a pipe.  Every handler and every walk of that     *)
(* thread holds the FIB lock from its first look to its last change, so    *)
(* each is one action.                                                     *)
(*                                                                         *)
(* Next hops and groups stay; the overlay routes are in another router;    *)
(* neighbours forward; memory suffices.  The prefixes of the underlay lie  *)
(* on one path of the tree and are their lengths; Bits[x] says how far an  *)
(* address follows the path and is that address.                           *)
EXTENDS Integers

CONSTANTS EHop, ENode, EGroup, EOver,   \* ids: encap hops, IP next hops, groups, routes
          EPrefix, Bits,                \* 0 is the default route
          MaxWalks,                     \* bound: bytes in the pipe
          EKept,                        \* bound: targets of routes that do not forward
          NoEHop, NoTarget, NoRoute, NoNbr

VARIABLES
  eroutes,    \* routes of the underlay router
  groupNhs,   \* next hops of a group
  neighbors,  \* next hops that a neighbour owns
  ehops,      \* the encap hops, and who lists them
  hwDefault,  \* the NPU has the default route
  over,       \* overlay routes: their hop, and what the NPU last took it for
  changelist, \* overlay routes to be written again
  signals,    \* bytes in the pipe
  walking     \* the thread has read a byte and waits for the lock

encVars == <<eroutes, groupNhs, neighbors, ehops, hwDefault, over, changelist, signals, walking>>

ETarget == ENode \cup EGroup \cup {NoTarget}
ERoute == [fwd : {TRUE}, target : ETarget] \cup [fwd : {FALSE}, target : EKept]
EmptyRoute == [fwd |-> FALSE, target |-> NoTarget]
Dropped == "dropped"

(* What a hop resolves to and who lists it.  off and left are histories:   *)
(* an update the code could not make good, a neighbour it passed over.     *)
(* broken: a link was used that is not there, or freed.                    *)
NewHop == [lpm |-> NoRoute, nbr |-> NoNbr, fwd |-> FALSE, npu |-> Dropped,
           nodes |-> {}, grps |-> {}, off |-> FALSE, left |-> FALSE, broken |-> FALSE]

EHopInfo == [lpm : EPrefix \cup {NoRoute}, nbr : ENode \cup {NoNbr}, fwd : BOOLEAN,
             npu : ETarget \cup {Dropped}, nodes : SUBSET ENode, grps : SUBSET EGroup,
             off : BOOLEAN, left : BOOLEAN, broken : BOOLEAN]

ASSUME EncapAssumption ==
  /\ EPrefix \subseteq Nat /\ 0 \in EPrefix /\ \A x \in EHop \cup ENode : Bits[x] \in Nat
  /\ EKept \subseteq ETarget /\ NoTarget \in EKept /\ MaxWalks \in Nat \ {0}
  /\ NoRoute \notin EPrefix \cup ERoute \cup [fwd : BOOLEAN, target : ETarget]
  /\ NoEHop \notin EHop \cup EHopInfo /\ NoNbr \notin ENode

IsHop(e) == ehops[e] # NoEHop
Follows(e, n) == Bits[e] = Bits[n]
Intact == \A e \in EHop : IsHop(e) => ~ehops[e].broken
Settled == \A e \in EHop : IsHop(e) => ~ehops[e].off

(* What a route makes of packets, and whom it leads to                     *)
Content(r) == IF r.fwd THEN r.target ELSE Dropped
NodesOf(r) == IF ~r.fwd THEN {}
              ELSE IF r.target \in EGroup THEN groupNhs[r.target] ELSE {r.target} \cap ENode
GroupsOf(r) == IF r.fwd THEN {r.target} \cap EGroup ELSE {}

(* The group holds a hop by a link inside the hop: to take it off a list   *)
(* it is not on, or to put it on a second one, breaks the lists.           *)
Unlink(h, r) == [h EXCEPT !.nodes = @ \ NodesOf(r), !.grps = @ \ GroupsOf(r),
                          !.broken = @ \/ ~(GroupsOf(r) \subseteq h.grps)]
Link(h, r) == [h EXCEPT !.nodes = @ \cup NodesOf(r), !.grps = @ \cup GroupsOf(r),
                        !.broken = @ \/ (GroupsOf(r) # {} /\ h.grps # {})]

(* Mutant: the shortcut looks at the target only                           *)
AskedTargetOnly(h, old, new) == old = NoRoute \/ old.target # new.target

(* sai_fib_encap_nh_lpm_route_attr_set: old is what the route of the hop   *)
(* says, or NoRoute.  The packet action is changed before the NPU is.      *)
Asked(h, old, new) == h.fwd # new.fwd \/ old = NoRoute \/ old.target # new.target
AttrSet(h, old, new, ok) ==
  IF ~Asked(h, old, new) THEN h
  ELSE IF ~ok THEN [h EXCEPT !.fwd = new.fwd, !.off = TRUE]
  ELSE LET told == [h EXCEPT !.fwd = new.fwd, !.npu = Content(new)]
       IN Link(IF old = NoRoute THEN told ELSE Unlink(told, old), new)

Known == {p \in EPrefix : eroutes[p] # NoRoute}
BestOf(e, known) ==
  CHOOSE p \in known : p <= Bits[e] /\ \A q \in known : q <= Bits[e] => q <= p

(* sai_fib_encap_nh_lpm_route_resolve to route q with content new          *)
OldRoute(h) == IF h.lpm = NoRoute THEN NoRoute ELSE eroutes[h.lpm]
Resolve(h, q, new, ok) ==
  IF h.lpm = q THEN h
  ELSE LET set == AttrSet(h, OldRoute(h), new, ok)
       IN IF Asked(h, OldRoute(h), new) /\ ~ok THEN set ELSE [set EXCEPT !.lpm = q]
ResolveAsks(h, q, new) == h.lpm # q /\ Asked(h, OldRoute(h), new)

(* sai_fib_encap_next_hop_remove_from_underlay_obj                         *)
LeaveUnderlay(h) ==
  LET h1 == [h EXCEPT !.nodes = @ \ {h.nbr}, !.nbr = NoNbr]
  IN IF h.lpm = NoRoute THEN h1 ELSE [Unlink(h1, eroutes[h.lpm]) EXCEPT !.lpm = NoRoute]

(* sai_fib_encap_nh_neighbor_resolve                                       *)
NeighborResolve(h, n, ok) ==
  IF ~ok THEN [h EXCEPT !.fwd = TRUE, !.off = TRUE]
  ELSE [h EXCEPT !.fwd = TRUE, !.npu = n, !.nbr = n, !.nodes = @ \cup {n}, !.left = FALSE]

(* Mutant: the last change is all there is on the list                     *)
ChangedAnew(told) == changelist' = {o \in EOver : over[o].hop \in told}

(* The routes on the hops that were told of a change are to be written     *)
(* again, and the thread is told: sai_fib_encap_nh_signal_dep_route_walk.  *)
Changed(told) == changelist' = changelist \cup {o \in EOver : over[o].hop \in told}
Signal == signals' = IF signals < MaxWalks THEN signals + 1 ELSE signals
NoSignal == UNCHANGED <<changelist, signals>>

Dependants(p) == {e \in EHop : IsHop(e) /\ ehops[e].lpm = p}
SameAddress(n) == {e \in EHop : IsHop(e) /\ Follows(e, n)}

(* sai_fib_route_create: hops of less specific routes look again.          *)
Reresolved(S, known, rts, bad) ==
  [e \in EHop |-> IF e \notin S THEN ehops[e] ELSE
     LET q == BestOf(e, known) IN Resolve(ehops[e], q, rts[q], e \notin bad)]
Told(S, known, rts, bad) ==
  {e \in S \ bad : LET q == BestOf(e, known) IN ResolveAsks(ehops[e], q, rts[q])}

CreateRoute(p, r, bad) ==
  LET rts == [eroutes EXCEPT ![p] = r]
      S == {e \in EHop : IsHop(e) /\ ehops[e].lpm \in {q \in EPrefix : q < p} /\ p <= Bits[e]}
  IN /\ p # 0 /\ eroutes[p] = NoRoute /\ bad \subseteq S
     /\ eroutes' = rts
     /\ ehops' = Reresolved(S, Known \cup {p}, rts, bad)
     /\ Changed(Told(S, Known \cup {p}, rts, bad)) /\ Signal
     /\ UNCHANGED <<groupNhs, neighbors, hwDefault, over, walking>>

(* Mutant: the hops on the route are not looked after                      *)
RemoveRouteAlone(p, bad) ==
  /\ p # 0 /\ eroutes[p] # NoRoute /\ bad = {}
  /\ eroutes' = [eroutes EXCEPT ![p] = NoRoute]
  /\ Signal
  /\ UNCHANGED <<ehops, changelist, groupNhs, neighbors, hwDefault, over, walking>>

(* sai_fib_route_remove: a hop whose update is refused keeps the freed     *)
(* route.                                                                  *)
RemoveRoute(p, bad) ==
  LET S == Dependants(p)
      moved == Reresolved(S, Known \ {p}, eroutes, bad)
  IN /\ p # 0 /\ eroutes[p] # NoRoute /\ bad \subseteq S
     /\ eroutes' = [eroutes EXCEPT ![p] = NoRoute]
     /\ ehops' = [e \in EHop |-> IF e \in S /\ moved[e].lpm = p
                               THEN [moved[e] EXCEPT !.broken = TRUE] ELSE moved[e]]
     /\ Changed(Told(S, Known \ {p}, eroutes, bad)) /\ Signal
     /\ UNCHANGED <<groupNhs, neighbors, hwDefault, over, walking>>

(* The update of the hops on route p; off says it cannot be right.         *)
Updated(p, old, new, bad, off) ==
  /\ bad \subseteq Dependants(p)
  /\ ehops' = [e \in EHop |-> IF e \notin Dependants(p) THEN ehops[e] ELSE
               AttrSet([ehops[e] EXCEPT !.off = @ \/ off], old, new, e \notin bad)]
  /\ Changed({e \in Dependants(p) \ bad : Asked(ehops[e], old, new)}) /\ Signal
  /\ UNCHANGED <<groupNhs, neighbors, over, walking>>

(* sai_fib_route_attribute_set                                             *)
SetRoute(p, r, bad) ==
  /\ eroutes[p] # NoRoute /\ (p = 0 => hwDefault)
  /\ Updated(p, eroutes[p], r, bad, FALSE)
  /\ eroutes' = [eroutes EXCEPT ![p] = r]
  /\ UNCHANGED hwDefault

(* A default route is always in the tree.  Its creation and its removal    *)
(* are updates from what it is already to the same: the creation takes     *)
(* hops off the new group, the removal leaves them on the old lists.       *)
CreateDefault(r, bad) ==
  /\ ~hwDefault
  /\ Updated(0, r, r, bad, GroupsOf(r) # {})
  /\ eroutes' = [eroutes EXCEPT ![0] = r] /\ hwDefault' = TRUE
RemoveDefault(bad) ==
  /\ hwDefault
  /\ LET r == [eroutes[0] EXCEPT !.fwd = FALSE]
     IN Updated(0, r, r, bad, Content(eroutes[0]) \in ENode \cup EGroup)
  /\ eroutes' = [eroutes EXCEPT ![0] = EmptyRoute] /\ hwDefault' = FALSE

(* sai_fib_neighbor_affected_encap_nh_resolve: every hop with the address  *)
(* leaves what it follows first.                                           *)
CreateNeighbor(n, bad) ==
  LET S == SameAddress(n) IN
  /\ n \notin neighbors /\ bad \subseteq S
  /\ neighbors' = neighbors \cup {n}
  /\ ehops' = [e \in EHop |-> IF e \in S THEN NeighborResolve(LeaveUnderlay(ehops[e]), n, e \notin bad) ELSE ehops[e]]
  /\ IF S = {} THEN NoSignal ELSE Changed(S \ bad) /\ Signal
  /\ UNCHANGED <<eroutes, groupNhs, hwDefault, over, walking>>

RemoveNeighbor(n, bad) ==
  LET S == SameAddress(n)
      ToRoute(e) == LET q == BestOf(e, Known) IN Resolve(LeaveUnderlay(ehops[e]), q, eroutes[q], e \notin bad)
      left == \E m \in neighbors \ {n} : Bits[m] = Bits[n]
  IN /\ n \in neighbors /\ bad \subseteq S
     /\ neighbors' = neighbors \ {n}
     /\ ehops' = [e \in EHop |-> IF e \in S THEN [ToRoute(e) EXCEPT !.left = left] ELSE ehops[e]]
     /\ IF S = {} THEN NoSignal ELSE Changed(S \ bad) /\ Signal
     /\ UNCHANGED <<eroutes, groupNhs, hwDefault, over, walking>>

(* sai_fib_nh_group_dep_encap_nh_update: a next hop comes into a group, or *)
(* its last link goes; the NPU is not told.                                *)
InGroup(g, nhs) ==
  LET new == nhs \ groupNhs[g]
      gone == groupNhs[g] \ nhs
  IN /\ groupNhs' = [groupNhs EXCEPT ![g] = nhs]
     /\ ehops' = [e \in EHop |-> IF IsHop(e) /\ g \in ehops[e].grps
                                 THEN [ehops[e] EXCEPT !.nodes = (@ \cup new) \ gone] ELSE ehops[e]]
     /\ UNCHANGED <<eroutes, neighbors, hwDefault, over, changelist, signals, walking>>
JoinGroup(g, n) == n \notin groupNhs[g] /\ InGroup(g, groupNhs[g] \cup {n})
LeaveGroup(g, n) == n \in groupNhs[g] /\ InGroup(g, groupNhs[g] \ {n})

(* sai_fib_encap_next_hop_create; one that fails leaves nothing.           *)
CreateEncapHop(e) ==
  LET near == {n \in neighbors : Follows(e, n)}
      q == BestOf(e, Known)
  IN /\ ehops[e] = NoEHop
     /\ \E h \in IF near = {} THEN {Resolve(NewHop, q, eroutes[q], TRUE)}
                 ELSE {NeighborResolve(NewHop, n, TRUE) : n \in near} :
          ehops' = [ehops EXCEPT ![e] = h]
     /\ UNCHANGED <<eroutes, groupNhs, neighbors, hwDefault, over, changelist, signals, walking>>

RemoveEncapHop(e) ==
  LET h == LeaveUnderlay(ehops[e]) IN
  /\ IsHop(e) /\ \A o \in EOver : over[o].hop # e
  /\ ehops' = [ehops EXCEPT ![e] = IF h.broken \/ h.nodes # {} \/ h.grps # {}
                               THEN [h EXCEPT !.broken = TRUE] ELSE NoEHop]
  /\ UNCHANGED <<eroutes, groupNhs, neighbors, hwDefault, over, changelist, signals, walking>>

(* An overlay route is created on a hop, or set to it; or is removed, and  *)
(* the tree takes it off the list of changes.                              *)
Overlay(o, e) ==
  /\ e = NoEHop => over[o].hop # NoEHop
  /\ e # NoEHop => IsHop(e)
  /\ over' = [over EXCEPT ![o] = [hop |-> e, seen |-> IF e = NoEHop THEN Dropped ELSE ehops[e].npu,
                                  missed |-> FALSE]]
  /\ changelist' = IF e = NoEHop THEN changelist \ {o} ELSE changelist
  /\ UNCHANGED <<eroutes, groupNhs, neighbors, ehops, hwDefault, signals, walking>>

(* sai_fib_encap_nh_dep_route_walk_main: a byte is read without the lock,  *)
(* then the changes are walked under it; what the NPU refuses is missed.   *)
ReadSignal ==
  /\ ~walking /\ signals > 0
  /\ signals' = signals - 1 /\ walking' = TRUE
  /\ UNCHANGED <<eroutes, groupNhs, neighbors, ehops, hwDefault, over, changelist>>

Walk(missed) ==
  /\ walking /\ missed \subseteq changelist
  /\ over' = [o \in EOver |->
       IF o \in missed THEN [over[o] EXCEPT !.missed = TRUE]
       ELSE IF o \in changelist THEN [over[o] EXCEPT !.seen = ehops[over[o].hop].npu, !.missed = FALSE]
       ELSE over[o]]
  /\ changelist' = {} /\ walking' = FALSE
  /\ UNCHANGED <<eroutes, groupNhs, neighbors, ehops, hwDefault, signals>>

EncapInit ==
  /\ eroutes = [p \in EPrefix |-> IF p = 0 THEN EmptyRoute ELSE NoRoute]
  /\ groupNhs \in [EGroup -> SUBSET ENode] /\ neighbors = {}
  /\ ehops = [e \in EHop |-> NoEHop] /\ hwDefault = FALSE
  /\ over = [o \in EOver |-> [hop |-> NoEHop, seen |-> Dropped, missed |-> FALSE]]
  /\ changelist = {} /\ signals = 0 /\ walking = FALSE

EncapEnd ==
  \/ \E e \in EHop : RemoveEncapHop(e)
  \/ \E o \in EOver : Overlay(o, NoEHop)
  \/ ReadSignal \/ \E missed \in SUBSET EOver : Walk(missed)

(* Bound: while a hop is off, only EncapEnd goes on; nothing goes on from  *)
(* broken lists.                                                           *)
EncapNext ==
  /\ Intact
  /\ \/ EncapEnd
     \/ /\ Settled
        /\ \/ \E p \in EPrefix, bad \in SUBSET EHop :
                RemoveRoute(p, bad) \/ \E r \in ERoute : CreateRoute(p, r, bad) \/ SetRoute(p, r, bad)
           \/ \E bad \in SUBSET EHop :
                RemoveDefault(bad) \/ \E r \in ERoute : CreateDefault(r, bad)
           \/ \E n \in ENode, bad \in SUBSET EHop : CreateNeighbor(n, bad) \/ RemoveNeighbor(n, bad)
           \/ \E g \in EGroup, n \in ENode : JoinGroup(g, n) \/ LeaveGroup(g, n)
           \/ \E e \in EHop : CreateEncapHop(e)
           \/ \E o \in EOver, e \in EHop : Overlay(o, e)

EncapSpec == EncapInit /\ [][EncapNext]_encVars

---------------------------------------------------------------------------
EncapTypeOK ==
  /\ eroutes \in [EPrefix -> ERoute \cup {NoRoute}] /\ eroutes[0] # NoRoute
  /\ groupNhs \in [EGroup -> SUBSET ENode] /\ neighbors \subseteq ENode
  /\ ehops \in [EHop -> EHopInfo \cup {NoEHop}]
  /\ hwDefault \in BOOLEAN /\ walking \in BOOLEAN
  /\ over \in [EOver -> [hop : EHop \cup {NoEHop}, seen : ETarget \cup {Dropped}, missed : BOOLEAN]]
  /\ changelist \subseteq EOver /\ signals \in 0 .. MaxWalks

(* Unless the NPU refused an update of it, or it was on a default route    *)
(* that was created on a group or removed: a hop follows a neighbour with  *)
(* its address, or the best route while there is none (or it was passed    *)
(* over); the NPU was told of just that; and it is listed by what it       *)
(* follows and by nothing else, so that a change there will find it, and   *)
(* no list keeps a freed one (sai_l3_encap_next_hop.c:358-461, 513-536,    *)
(* 714-940).                                                               *)
FollowsNeighbor(h, e) ==
  /\ h.nbr \in neighbors /\ Follows(e, h.nbr) /\ h.lpm = NoRoute
  /\ h.npu = h.nbr /\ h.nodes = {h.nbr} /\ h.grps = {}
FollowsRoute(h, e) ==
  /\ h.nbr = NoNbr /\ h.lpm = BestOf(e, Known)
  /\ \A n \in neighbors : Follows(e, n) => h.left
  /\ LET r == eroutes[h.lpm]
     IN h.npu = Content(r) /\ h.nodes = NodesOf(r) /\ h.grps = GroupsOf(r)
EncapResolved ==
  \A e \in EHop : IsHop(e) /\ ~ehops[e].off =>
    ~ehops[e].broken /\ (FollowsNeighbor(ehops[e], e) \/ FollowsRoute(ehops[e], e))

(* The NPU knows an overlay route by what its hop resolves to now, or the  *)
(* route is on the list of changes (or was refused); and a list of changes *)
(* has a byte in the pipe or the thread awake: none waits for ever         *)
(* (sai_l3_encap_next_hop.c:340-356, 660-700, 942-958).                    *)
OverlayFollows ==
  /\ \A o \in EOver \ changelist : over[o].hop # NoEHop =>
       IsHop(over[o].hop) /\ (over[o].missed \/ over[o].seen = ehops[over[o].hop].npu)
  /\ changelist # {} => signals > 0 \/ walking
=============================================================================
