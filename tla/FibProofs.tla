----------------------------- MODULE FibProofs -----------------------------
(***************************************************************************)
(* Theorems of Fib: its counts cover their users and are conserved, for    *)
(* any number of threads, virtual routers, next hops, groups and prefixes. *)
(*                                                                         *)
(* The users of an object are the routes in the NPU that forward to it and *)
(* its slots: each link of weight w stands for w slots, so that Cardinality *)
(* adds weights.  First comes what a change of one weight, one route, one  *)
(* node does to users and counts, then a lemma for each action.            *)
(***************************************************************************)
EXTENDS Fib, FiniteSetTheorems, TLAPS

---------------------------------------------------------------------------
(* Weights and slots                                                       *)

(* The slots of a weight function, one by one.                             *)
LEMMA SlotsMember ==
  ASSUME NEW S, NEW w \in [S -> Nat]
  PROVE  /\ \A s \in S : \A i : <<s, i>> \in Slots(w) <=> i \in 1..w[s]
         /\ \A e \in Slots(w) : \E s \in S : \E i \in 1..w[s] : e = <<s, i>>
<1>1. DOMAIN w = S  OBVIOUS
<1>2. \A e : e \in Slots(w) <=> \E s \in S : e \in {s} \X (1..w[s])
  BY <1>1 DEF Slots
<1>3. \A s, e : e \in {s} \X (1..w[s]) <=> \E i \in 1..w[s] : e = <<s, i>>
  OBVIOUS
<1> QED BY <1>2, <1>3

(* Finitely many elements have finitely many slots.                        *)
LEMMA SlotsFinite ==
  ASSUME NEW S, IsFiniteSet(S), NEW w \in [S -> Nat]
  PROVE  IsFiniteSet(Slots(w)) /\ Cardinality(Slots(w)) \in Nat
<1> DEFINE f == [s \in S |-> {s} \X (1..w[s])]
           T == {{s} \X (1..w[s]) : s \in S}
<1>1. f \in Surjection(S, T)
  BY DEF Surjection
<1>2. IsFiniteSet(T)
  BY <1>1, FS_Surjection
<1>3. \A A \in T : IsFiniteSet(A)
  <2> SUFFICES ASSUME NEW s \in S  PROVE IsFiniteSet({s} \X (1..w[s]))
    OBVIOUS
  <2>1. IsFiniteSet({s})
    BY FS_Singleton
  <2>2. IsFiniteSet(1..w[s])
    BY FS_Interval
  <2> QED BY <2>1, <2>2, FS_Product
<1>4. Slots(w) = UNION T
  BY DEF Slots
<1>5. IsFiniteSet(UNION T)
  <2> HIDE DEF T
  <2> QED BY <1>2, <1>3, FS_UNION
<1> QED BY <1>4, <1>5, FS_CardinalityType

(* A weight that grows by one adds a slot.                                 *)
LEMMA SlotsMore ==
  ASSUME NEW S, IsFiniteSet(S), NEW w \in [S -> Nat], NEW s \in S
  PROVE  Cardinality(Slots([w EXCEPT ![s] = @ + 1])) = Cardinality(Slots(w)) + 1
<1> DEFINE v == [w EXCEPT ![s] = @ + 1]
           e == <<s, w[s] + 1>>
<1>1. v \in [S -> Nat]  OBVIOUS
<1>2. e \notin Slots(w)
  BY SlotsMember
<1>3. Slots(v) = Slots(w) \cup {e}
  <2>1. ASSUME NEW x \in Slots(v)  PROVE x \in Slots(w) \cup {e}
    <3>1. PICK q \in S : \E i \in 1..v[q] : x = <<q, i>>
      <4> HIDE DEF v
      <4> QED BY <1>1, <2>1, SlotsMember
    <3>2. PICK i \in 1..v[q] : x = <<q, i>>
      BY <3>1
    <3>3. i \in 1..w[q] \/ (q = s /\ i = w[s] + 1)
      BY <3>2
    <3> QED BY <3>2, <3>3, SlotsMember
  <2>2. ASSUME NEW x \in Slots(w)  PROVE x \in Slots(v)
    <3>1. PICK q \in S : \E i \in 1..w[q] : x = <<q, i>>
      BY <2>2, SlotsMember
    <3>2. PICK i \in 1..w[q] : x = <<q, i>>
      BY <3>1
    <3>3. i \in 1..v[q]
      BY <3>2
    <3> QED BY <1>1, <3>2, <3>3, SlotsMember
  <2>3. e \in Slots(v)
    <3>1. w[s] + 1 \in 1..v[s]
      OBVIOUS
    <3> QED BY <1>1, <3>1, SlotsMember
  <2> QED BY <2>1, <2>2, <2>3
<1> QED BY <1>2, <1>3, SlotsFinite, FS_AddElement

(* One that shrinks by one takes a slot away.                              *)
LEMMA SlotsLess ==
  ASSUME NEW S, IsFiniteSet(S), NEW w \in [S -> Nat], NEW s \in S, w[s] > 0
  PROVE  Cardinality(Slots([w EXCEPT ![s] = @ - 1])) = Cardinality(Slots(w)) - 1
<1> DEFINE v == [w EXCEPT ![s] = @ - 1]
<1>1. v \in [S -> Nat]  OBVIOUS
<1>2. [v EXCEPT ![s] = @ + 1] = w
  <2>1. [v EXCEPT ![s] = @ + 1] \in [S -> Nat]  OBVIOUS
  <2>2. \A q \in S : [v EXCEPT ![s] = @ + 1][q] = w[q]  OBVIOUS
  <2> HIDE DEF v
  <2> QED BY <2>1, <2>2
<1>3. Cardinality(Slots([v EXCEPT ![s] = @ + 1])) = Cardinality(Slots(v)) + 1
  <2> HIDE DEF v
  <2> QED BY <1>1, SlotsMore
<1>4. Cardinality(Slots(v)) \in Nat
  BY <1>1, SlotsFinite
<1>5. Cardinality(Slots(w)) = Cardinality(Slots(v)) + 1
  BY <1>2, <1>3
<1> HIDE DEF v
<1> QED BY <1>4, <1>5 DEF v

(* There is a slot if and only if a weight is positive.                    *)
LEMMA SlotsPositive ==
  ASSUME NEW S, IsFiniteSet(S), NEW w \in [S -> Nat]
  PROVE  Cardinality(Slots(w)) > 0 <=> \E s \in S : w[s] > 0
<1>1. Slots(w) # {} <=> \E s \in S : w[s] > 0
  <2>1. ASSUME NEW s \in S, w[s] > 0  PROVE Slots(w) # {}
    <3>1. 1 \in 1..w[s]  BY <2>1
    <3> QED BY <3>1, SlotsMember
  <2>2. ASSUME Slots(w) # {}  PROVE \E s \in S : w[s] > 0
    BY <2>2, SlotsMember
  <2> QED BY <2>1, <2>2
<1> QED BY <1>1, SlotsFinite, FS_EmptySet

---------------------------------------------------------------------------
(* The inductive invariant                                                 *)

(* The routes of a virtual router go with it; its default route does not    *)
(* before it.  A caller holds the content of a default route that was not   *)
(* in the NPU.                                                              *)
Routers ==
  /\ \A v \in vrs : routes[v][Default] # None
  /\ \A v \in Vrf \ vrs : \A p \in Prefix : routes[v][p] = None
  /\ \A t \in Thread : restore[t] # None =>
       /\ ~restore[t].old.hw
       /\ ~restore[t].freed => restore[t].vr \in vrs

(* Until a default route changes under a caller that has to restore it:    *)
(* the caller is alone, and both the route and what it goes back to are    *)
(* what a virtual router starts with.                                      *)
Undisturbed ==
  ~raced =>
    /\ ~wild
    /\ \A t \in Thread : restore[t] # None =>
         /\ restore[t].old = EmptyDefault
         /\ ~restore[t].freed
         /\ ~routes[restore[t].vr][Default].hw
         /\ Pending(restore[t].vr) = {t}
    /\ \A v \in vrs : Pending(v) = {} /\ ~routes[v][Default].hw =>
                       routes[v][Default] = EmptyDefault

(* The properties of Fib that are invariants, with what they rest on.      *)
IInv ==
  /\ TypeOK
  /\ CountsCover
  /\ MembersLinked
  /\ Routers
  /\ Undisturbed

---------------------------------------------------------------------------
(* What a change of routes or links does to users and counts               *)

(* What is counted is finite.                                              *)
LEMMA Finite ==
  /\ IsFiniteSet(Vrf) /\ IsFiniteSet(Nh) /\ IsFiniteSet(Group)
  /\ IsFiniteSet(Member) /\ IsFiniteSet(Vrf \X Prefix)
<1>1. /\ IsFiniteSet(Vrf) /\ IsFiniteSet(Nh) /\ IsFiniteSet(Group)
      /\ IsFiniteSet(Member) /\ IsFiniteSet(Prefix)
  BY FiniteAssumption
<1> QED BY <1>1, FS_Product

(* Users are finitely many.                                                *)
LEMMA UsersFinite ==
  ASSUME TypeOK
  PROVE  /\ \A x : IsFiniteSet(RoutesTo(x)) /\ Cardinality(RoutesTo(x)) \in Nat
         /\ \A x \in Target : /\ Cardinality(LinksOf(x)) \in Nat
                              /\ Users(x) \in Nat
                              /\ Count(x) \in Nat
<1>1. ASSUME NEW x
      PROVE  IsFiniteSet(RoutesTo(x)) /\ Cardinality(RoutesTo(x)) \in Nat
  <2>1. RoutesTo(x) \in SUBSET (Vrf \X Prefix)
    BY DEF RoutesTo
  <2>2. IsFiniteSet(RoutesTo(x))
    BY <2>1, Finite, FS_Subset
  <2> QED BY <2>2, FS_CardinalityType
<1>2. ASSUME NEW x \in Target  PROVE Cardinality(LinksOf(x)) \in Nat
  <2>1. CASE x \in Nh
    <3>1. [g \in Group |-> links.weight[g][x]] \in [Group -> Nat]
      BY <2>1 DEF TypeOK
    <3> QED BY <2>1, <3>1, Finite, SlotsFinite DEF LinksOf, Joined
  <2>2. CASE x \notin Nh
    <3>1. links.weight[x] \in [Nh -> Nat]
      BY <2>2 DEF TypeOK, Target
    <3> QED BY <2>2, <3>1, Finite, SlotsFinite DEF LinksOf, Entries
  <2> QED BY <2>1, <2>2
<1>3. ASSUME NEW x \in Target  PROVE Count(x) \in Nat
  BY DEF TypeOK, Target, Count
<1> QED BY <1>1, <1>2, <1>3 DEF Users

(* One route changes.                                                      *)
LEMMA RouteChange ==
  ASSUME TypeOK, NEW v \in Vrf, NEW p \in Prefix, NEW r,
         routes' = [routes EXCEPT ![v][p] = r], NEW x
  PROVE  /\ RoutesTo(x)' = IF Forwards(r, x) THEN RoutesTo(x) \cup {<<v, p>>}
                                             ELSE RoutesTo(x) \ {<<v, p>>}
         /\ Cardinality(RoutesTo(x)') = Cardinality(RoutesTo(x))
              + (IF Forwards(r, x) THEN 1 ELSE 0)
              - (IF Forwards(routes[v][p], x) THEN 1 ELSE 0)
<1>1. \A e \in Vrf \X Prefix :
        routes'[e[1]][e[2]] = IF e = <<v, p>> THEN r ELSE routes[e[1]][e[2]]
  BY DEF TypeOK
<1>2. RoutesTo(x)' = {e \in Vrf \X Prefix : Forwards(routes'[e[1]][e[2]], x)}
  BY DEF RoutesTo, Forwards, Installed
<1>3. RoutesTo(x)' = IF Forwards(r, x) THEN RoutesTo(x) \cup {<<v, p>>}
                                       ELSE RoutesTo(x) \ {<<v, p>>}
  <2>1. <<v, p>> \in Vrf \X Prefix /\ <<v, p>>[1] = v /\ <<v, p>>[2] = p
    OBVIOUS
  <2>2. \A e : e \in RoutesTo(x)' <=>
                 /\ e \in Vrf \X Prefix
                 /\ IF e = <<v, p>> THEN Forwards(r, x) ELSE e \in RoutesTo(x)
    BY <1>1, <1>2 DEF RoutesTo
  <2>3. RoutesTo(x) \subseteq Vrf \X Prefix
    BY DEF RoutesTo
  <2> QED BY <2>1, <2>2, <2>3
<1>4. <<v, p>> \in RoutesTo(x) <=> Forwards(routes[v][p], x)
  BY DEF RoutesTo
<1>5. IsFiniteSet(RoutesTo(x)) /\ Cardinality(RoutesTo(x)) \in Nat
  BY UsersFinite
<1>6. Forwards(r, x) \in BOOLEAN /\ Forwards(routes[v][p], x) \in BOOLEAN
  BY DEF Forwards
<1>7. CASE <<v, p>> \in RoutesTo(x) /\ Forwards(r, x)
  <2>1. RoutesTo(x)' = RoutesTo(x)
    BY <1>3, <1>7
  <2> QED BY <1>3, <1>4, <1>5, <1>6, <1>7, <2>1
<1>8. CASE <<v, p>> \notin RoutesTo(x) /\ ~Forwards(r, x)
  <2>1. RoutesTo(x)' = RoutesTo(x)
    BY <1>3, <1>8
  <2>2. ~Forwards(routes[v][p], x)
    BY <1>4, <1>8
  <2>3. Cardinality(RoutesTo(x)') = Cardinality(RoutesTo(x)) + 0 - 0
    BY <1>5, <2>1
  <2> QED BY <1>3, <1>8, <2>2, <2>3
<1>9. CASE <<v, p>> \notin RoutesTo(x) /\ Forwards(r, x)
  <2>1. Cardinality(RoutesTo(x) \cup {<<v, p>>}) = Cardinality(RoutesTo(x)) + 1
    BY <1>5, <1>9, FS_AddElement
  <2>2. Cardinality(RoutesTo(x)') = Cardinality(RoutesTo(x)) + 1
    BY <1>3, <1>9, <2>1
  <2> QED BY <1>3, <1>4, <1>5, <1>6, <1>9, <2>2
<1>10. CASE <<v, p>> \in RoutesTo(x) /\ ~Forwards(r, x)
  <2>1. Cardinality(RoutesTo(x) \ {<<v, p>>}) = Cardinality(RoutesTo(x)) - 1
    BY <1>5, <1>10, FS_RemoveElement
  <2>2. Cardinality(RoutesTo(x)') = Cardinality(RoutesTo(x)) - 1
    BY <1>3, <1>10, <2>1
  <2> QED BY <1>3, <1>4, <1>5, <1>6, <1>10, <2>2
<1> QED BY <1>6, <1>7, <1>8, <1>9, <1>10

(* Counts are taken and given back.                                        *)
CountIn(L, x) == IF x \in Nh THEN L.nhRef[x] ELSE L.groupRef[x]

(* The type of links.                                                      *)
Links == [weight : [Group -> [Nh -> Nat]], nhCount : [Group -> Nat],
          nhRef : [Nh -> Nat], groupRef : [Group -> Nat]]

(* Incr and Decr change one count by one, and no weight.  Below 0 nothing  *)
(* is counted down, which a count that covers its users never meets.       *)
LEMMA Counting ==
  ASSUME NEW L \in Links, NEW x \in Target \cup {None, Stale}
  PROVE  /\ Incr(L, x) \in Links /\ Decr(L, x) \in Links
         /\ Incr(L, x).weight = L.weight /\ Decr(L, x).weight = L.weight
         /\ Incr(L, x).nhCount = L.nhCount /\ Decr(L, x).nhCount = L.nhCount
         /\ \A y \in Target :
              /\ CountIn(Incr(L, x), y) = CountIn(L, y) + (IF y = x THEN 1 ELSE 0)
              /\ CountIn(L, x) > 0 \/ y # x =>
                   CountIn(Decr(L, x), y) = CountIn(L, y) - (IF y = x THEN 1 ELSE 0)
<1>1. CASE x \in Nh
  <2>1. x \notin Group
    BY <1>1, TargetAssumption
  <2>2. /\ Incr(L, x) = [L EXCEPT !.nhRef[x] = @ + 1]
        /\ Decr(L, x) = [L EXCEPT !.nhRef[x] = IF @ > 0 THEN @ - 1 ELSE 0]
    BY <1>1, <2>1 DEF Incr, Decr
  <2>3. Incr(L, x) \in Links /\ Decr(L, x) \in Links
    <3>1. L.nhRef \in [Nh -> Nat]
      BY DEF Links
    <3>2. /\ [L.nhRef EXCEPT ![x] = @ + 1] \in [Nh -> Nat]
          /\ [L.nhRef EXCEPT ![x] = IF @ > 0 THEN @ - 1 ELSE 0] \in [Nh -> Nat]
      BY <1>1, <3>1
    <3>3. \A F \in [Nh -> Nat] : [L EXCEPT !.nhRef = F] \in Links
      BY DEF Links
    <3> QED BY <2>2, <3>2, <3>3
  <2>4. \A y \in Nh : /\ Incr(L, x).nhRef[y] = L.nhRef[y] + (IF y = x THEN 1 ELSE 0)
                      /\ L.nhRef[x] > 0 \/ y # x =>
                           Decr(L, x).nhRef[y] = L.nhRef[y] - (IF y = x THEN 1 ELSE 0)
    BY <1>1, <2>2 DEF Links
  <2>5. \A y \in Target : y \notin Nh => y \in Group /\ y # x /\ L.groupRef[y] \in Nat
    BY <1>1 DEF Target, Links
  <2>6. /\ Incr(L, x).groupRef = L.groupRef /\ Decr(L, x).groupRef = L.groupRef
        /\ Incr(L, x).weight = L.weight /\ Decr(L, x).weight = L.weight
        /\ Incr(L, x).nhCount = L.nhCount /\ Decr(L, x).nhCount = L.nhCount
    BY <2>2 DEF Links
  <2> QED BY <1>1, <2>3, <2>4, <2>5, <2>6 DEF CountIn
<1>2. CASE x \in Group
  <2>1. x \notin Nh
    BY <1>2, TargetAssumption
  <2>2. /\ Incr(L, x) = [L EXCEPT !.groupRef[x] = @ + 1]
        /\ Decr(L, x) = [L EXCEPT !.groupRef[x] = IF @ > 0 THEN @ - 1 ELSE 0]
    BY <1>2, <2>1 DEF Incr, Decr
  <2>3. Incr(L, x) \in Links /\ Decr(L, x) \in Links
    <3>1. L.groupRef \in [Group -> Nat]
      BY DEF Links
    <3>2. /\ [L.groupRef EXCEPT ![x] = @ + 1] \in [Group -> Nat]
          /\ [L.groupRef EXCEPT ![x] = IF @ > 0 THEN @ - 1 ELSE 0] \in [Group -> Nat]
      BY <1>2, <3>1
    <3>3. \A F \in [Group -> Nat] : [L EXCEPT !.groupRef = F] \in Links
      BY DEF Links
    <3> QED BY <2>2, <3>2, <3>3
  <2>4. \A y \in Group : /\ Incr(L, x).groupRef[y] = L.groupRef[y] + (IF y = x THEN 1 ELSE 0)
                         /\ L.groupRef[x] > 0 \/ y # x =>
                              Decr(L, x).groupRef[y] = L.groupRef[y] - (IF y = x THEN 1 ELSE 0)
    BY <1>2, <2>2 DEF Links
  <2>5. \A y \in Target : y \in Nh \/ y \in Group
    BY DEF Target
  <2>6. /\ Incr(L, x).nhRef = L.nhRef /\ Decr(L, x).nhRef = L.nhRef
        /\ Incr(L, x).weight = L.weight /\ Decr(L, x).weight = L.weight
        /\ Incr(L, x).nhCount = L.nhCount /\ Decr(L, x).nhCount = L.nhCount
    BY <2>2 DEF Links
  <2>7. \A y \in Nh : y # x /\ L.nhRef[y] \in Nat
    BY <2>1 DEF Links
  <2> QED BY <2>1, <2>3, <2>4, <2>5, <2>6, <2>7 DEF CountIn
<1>3. CASE x \in {None, Stale}
  <2>1. x \notin Nh /\ x \notin Group
    BY <1>3, TargetAssumption
  <2>2. Incr(L, x) = L /\ Decr(L, x) = L
    BY <2>1 DEF Incr, Decr
  <2> QED BY <2>1, <2>2 DEF CountIn, Links, Target
<1> QED BY <1>1, <1>2, <1>3 DEF Target

(* One more link of next hop n in group g.                                 *)
OneMore(w, g, n) == [w EXCEPT ![g][n] = @ + 1]

(* A next hop joins a group, and leaves it.                                *)
LEMMA Adding ==
  ASSUME NEW L \in Links, NEW g \in Group, NEW n \in Nh
  PROVE  /\ AddInLists(L, g, n) \in Links
         /\ AddInLists(L, g, n).weight = OneMore(L.weight, g, n)
         /\ AddInLists(L, g, n).nhCount = [L.nhCount EXCEPT ![g] = @ + 1]
         /\ \A y \in Target : CountIn(AddInLists(L, g, n), y)
                                = CountIn(L, y) + (IF y \in {g, n} THEN 1 ELSE 0)
<1> DEFINE K == [L EXCEPT !.weight[g][n] = @ + 1, !.nhCount[g] = @ + 1]
<1>1. /\ K \in Links
      /\ K.weight = [L.weight EXCEPT ![g][n] = @ + 1]
      /\ K.nhCount = [L.nhCount EXCEPT ![g] = @ + 1]
      /\ K.nhRef = L.nhRef /\ K.groupRef = L.groupRef
  <2>1. [L.weight[g] EXCEPT ![n] = @ + 1] \in [Nh -> Nat]
    BY DEF Links
  <2>2. /\ [L.weight EXCEPT ![g][n] = @ + 1] \in [Group -> [Nh -> Nat]]
        /\ [L.nhCount EXCEPT ![g] = @ + 1] \in [Group -> Nat]
    BY <2>1 DEF Links
  <2> QED BY <2>2 DEF Links
<1>2. AddInLists(L, g, n) = Incr(Incr(K, g), n)
  BY DEF AddInLists
<1>3. g \in Target \cup {None, Stale} /\ n \in Target \cup {None, Stale} /\ g # n
  BY TargetAssumption DEF Target
<1>4. \A y \in Target : CountIn(K, y) = CountIn(L, y) /\ CountIn(L, y) \in Nat
  BY <1>1 DEF CountIn, Links, Target
<1> HIDE DEF K
<1>5. /\ Incr(K, g) \in Links
      /\ Incr(K, g).weight = K.weight /\ Incr(K, g).nhCount = K.nhCount
      /\ \A y \in Target : CountIn(Incr(K, g), y) = CountIn(K, y) + (IF y = g THEN 1 ELSE 0)
  BY <1>1, <1>3, Counting
<1>6. /\ Incr(Incr(K, g), n) \in Links
      /\ Incr(Incr(K, g), n).weight = K.weight /\ Incr(Incr(K, g), n).nhCount = K.nhCount
      /\ \A y \in Target : CountIn(Incr(Incr(K, g), n), y)
                             = CountIn(Incr(K, g), y) + (IF y = n THEN 1 ELSE 0)
  BY <1>3, <1>5, Counting
<1> QED BY <1>1, <1>2, <1>3, <1>4, <1>5, <1>6 DEF OneMore

(* sai_fib_nh_group_remove_from_lists takes back one link and both its     *)
(* counts.                                                                 *)
LEMMA Removing ==
  ASSUME NEW L \in Links, NEW g \in Group, NEW n \in Nh, L.weight[g][n] > 0,
         L.nhCount[g] > 0, CountIn(L, g) > 0, CountIn(L, n) > 0
  PROVE  /\ RemoveFromLists(L, g, n) \in Links
         /\ RemoveFromLists(L, g, n).weight = [L.weight EXCEPT ![g][n] = @ - 1]
         /\ L.weight = OneMore(RemoveFromLists(L, g, n).weight, g, n)
         /\ RemoveFromLists(L, g, n).nhCount = [L.nhCount EXCEPT ![g] = @ - 1]
         /\ \A y \in Target : CountIn(RemoveFromLists(L, g, n), y)
                                = CountIn(L, y) - (IF y \in {g, n} THEN 1 ELSE 0)
<1> DEFINE K == [L EXCEPT !.weight[g][n] = @ - 1, !.nhCount[g] = @ - 1]
<1>1. /\ K \in Links
      /\ K.weight = [L.weight EXCEPT ![g][n] = @ - 1]
      /\ K.nhCount = [L.nhCount EXCEPT ![g] = @ - 1]
      /\ K.nhRef = L.nhRef /\ K.groupRef = L.groupRef
  <2>1. [L.weight[g] EXCEPT ![n] = @ - 1] \in [Nh -> Nat]
    BY DEF Links
  <2>2. /\ [L.weight EXCEPT ![g][n] = @ - 1] \in [Group -> [Nh -> Nat]]
        /\ [L.nhCount EXCEPT ![g] = @ - 1] \in [Group -> Nat]
    BY <2>1 DEF Links
  <2> QED BY <2>2 DEF Links
<1>2. RemoveFromLists(L, g, n) = Decr(Decr(K, g), n)
  BY DEF RemoveFromLists
<1>3. g \in Target \cup {None, Stale} /\ n \in Target \cup {None, Stale} /\ g # n
  BY TargetAssumption DEF Target
<1>4. \A y \in Target : CountIn(K, y) = CountIn(L, y) /\ CountIn(L, y) \in Nat
  BY <1>1 DEF CountIn, Links, Target
<1>5. g \in Target /\ n \in Target
  BY DEF Target
<1> HIDE DEF K
<1>6. /\ Decr(K, g) \in Links
      /\ Decr(K, g).weight = K.weight /\ Decr(K, g).nhCount = K.nhCount
      /\ \A y \in Target : CountIn(Decr(K, g), y) = CountIn(K, y) - (IF y = g THEN 1 ELSE 0)
  <2>1. K \in Links
    BY <1>1
  <2>2. /\ Decr(K, g) \in Links
        /\ Decr(K, g).weight = K.weight /\ Decr(K, g).nhCount = K.nhCount
    BY <2>1, <1>3, Counting
  <2> QED BY <2>1, <2>2, <1>3, <1>4, <1>5, Counting, SMTT(60)
<1>7. CountIn(Decr(K, g), n) > 0
  BY <1>3, <1>4, <1>5, <1>6
<1>8. /\ Decr(Decr(K, g), n) \in Links
      /\ Decr(Decr(K, g), n).weight = K.weight /\ Decr(Decr(K, g), n).nhCount = K.nhCount
      /\ \A y \in Target : CountIn(Decr(Decr(K, g), n), y)
                             = CountIn(Decr(K, g), y) - (IF y = n THEN 1 ELSE 0)
  BY <1>3, <1>6, <1>7, Counting
<1>9. L.weight = OneMore(K.weight, g, n)
  <2>1. L.weight[g] = [K.weight[g] EXCEPT ![n] = @ + 1]
    <3>1. \A q \in Nh : L.weight[g][q] = IF q = n THEN K.weight[g][q] + 1 ELSE K.weight[g][q]
      BY <1>1 DEF Links
    <3> QED BY <1>1, <3>1 DEF Links
  <2>2. \A h \in Group : h # g => L.weight[h] = K.weight[h]
    BY <1>1 DEF Links
  <2> QED BY <1>1, <2>1, <2>2 DEF Links, OneMore
<1> QED BY <1>1, <1>2, <1>3, <1>4, <1>6, <1>8, <1>9

(* An addition that the NPU refuses is undone.                             *)
LEMMA Undone ==
  ASSUME NEW L \in Links, NEW g \in Group, NEW n \in Nh
  PROVE  RemoveFromLists(AddInLists(L, g, n), g, n) = L
<1> DEFINE A == AddInLists(L, g, n)
           R == RemoveFromLists(A, g, n)
<1>1. /\ A \in Links
      /\ A.weight = [L.weight EXCEPT ![g][n] = @ + 1]
      /\ A.nhCount = [L.nhCount EXCEPT ![g] = @ + 1]
      /\ \A y \in Target : CountIn(A, y) = CountIn(L, y) + (IF y \in {g, n} THEN 1 ELSE 0)
  BY Adding DEF OneMore
<1>2. g \in Target /\ n \in Target /\ \A y \in Target : CountIn(L, y) \in Nat
  BY DEF Target, CountIn, Links
<1> HIDE DEF A
<1>3. A.weight[g][n] > 0 /\ A.nhCount[g] > 0
  BY <1>1 DEF Links
<1>4. CountIn(A, g) > 0 /\ CountIn(A, n) > 0
  BY <1>1, <1>2
<1>5. /\ R \in Links
      /\ R.weight = [A.weight EXCEPT ![g][n] = @ - 1]
      /\ R.nhCount = [A.nhCount EXCEPT ![g] = @ - 1]
      /\ \A y \in Target : CountIn(R, y) = CountIn(A, y) - (IF y \in {g, n} THEN 1 ELSE 0)
  BY <1>1, <1>3, <1>4, Removing
<1> HIDE DEF R
<1>6. \A y \in Target : CountIn(R, y) = CountIn(L, y)
  BY <1>1, <1>2, <1>5
<1>7. R.nhRef = L.nhRef
  <2>1. \A y \in Nh : R.nhRef[y] = L.nhRef[y]
    BY <1>6 DEF CountIn, Target
  <2> QED BY <1>5, <2>1 DEF Links
<1>8. R.groupRef = L.groupRef
  <2>1. \A y \in Group : R.groupRef[y] = L.groupRef[y]
    BY <1>6, TargetAssumption DEF CountIn, Target
  <2> QED BY <1>5, <2>1 DEF Links
<1>9. R.nhCount = L.nhCount
  <2>1. \A y \in Group : R.nhCount[y] = L.nhCount[y]
    BY <1>1, <1>5 DEF Links
  <2> QED BY <1>5, <2>1 DEF Links
<1>10. R.weight = L.weight
  <2>1. \A h \in Group : \A q \in Nh : R.weight[h][q] = L.weight[h][q]
    BY <1>1, <1>5 DEF Links
  <2>2. ASSUME NEW h \in Group  PROVE R.weight[h] = L.weight[h]
    <3>1. R.weight[h] \in [Nh -> Nat] /\ L.weight[h] \in [Nh -> Nat]
      BY <1>5 DEF Links
    <3> QED BY <2>1, <3>1
  <2> QED BY <1>5, <2>2 DEF Links
<1>11. R = L
  BY <1>5, <1>7, <1>8, <1>9, <1>10 DEF Links
<1> QED BY <1>11 DEF R, A

(* The users of a group and its next hop change with the weight.           *)
Column(L, q) == [h \in Group |-> L.weight[h][q]]

(* One more link is one more entry of its group and of its next hop.       *)
LEMMA MoreLinks ==
  ASSUME NEW L \in Links, NEW M \in Links, NEW g \in Group, NEW n \in Nh,
         M.weight = OneMore(L.weight, g, n)
  PROVE  /\ \A h \in Group : Cardinality(Slots(M.weight[h]))
              = Cardinality(Slots(L.weight[h])) + (IF h = g THEN 1 ELSE 0)
         /\ \A q \in Nh : Cardinality(Slots(Column(M, q)))
              = Cardinality(Slots(Column(L, q)))
                + (IF q = n THEN 1 ELSE 0)
<1>1. ASSUME NEW h \in Group
      PROVE  Cardinality(Slots(M.weight[h]))
               = Cardinality(Slots(L.weight[h])) + (IF h = g THEN 1 ELSE 0)
  <2>1. L.weight[h] \in [Nh -> Nat] /\ IsFiniteSet(Nh)
    BY Finite DEF Links, OneMore
  <2>2. Cardinality(Slots(L.weight[h])) \in Nat
    BY <2>1, SlotsFinite
  <2>3. CASE h = g
    <3>1. M.weight[h] = [L.weight[h] EXCEPT ![n] = @ + 1]
      BY <2>3 DEF Links, OneMore
    <3> QED BY <2>1, <2>3, <3>1, SlotsMore
  <2>4. CASE h # g
    <3>1. M.weight[h] = L.weight[h]
      BY <2>4 DEF Links, OneMore
    <3> QED BY <2>2, <2>4, <3>1
  <2> QED BY <2>3, <2>4
<1>2. ASSUME NEW q \in Nh
      PROVE  Cardinality(Slots(Column(M, q)))
               = Cardinality(Slots(Column(L, q)))
                 + (IF q = n THEN 1 ELSE 0)
  <2> DEFINE u == Column(L, q)
             w == Column(M, q)
  <2>1. u \in [Group -> Nat] /\ IsFiniteSet(Group)
    BY Finite DEF Links, Column, OneMore
  <2>3. CASE q = n
    <3>1. w = [u EXCEPT ![g] = @ + 1]
      <4>1. \A h \in Group : M.weight[h][q] = L.weight[h][q] + (IF h = g THEN 1 ELSE 0)
        BY <2>3 DEF Links, OneMore
      <4> QED BY <4>1 DEF Links, Column, OneMore
    <3> HIDE DEF u, w
    <3>2. Cardinality(Slots(w)) = Cardinality(Slots(u)) + 1
      BY <2>1, <3>1, SlotsMore
    <3> QED BY <2>3, <3>2 DEF u, w
  <2>4. CASE q # n
    <3>1. w = u
      BY <2>4 DEF Links, Column, OneMore
    <3> HIDE DEF u, w
    <3>2. Cardinality(Slots(w)) = Cardinality(Slots(u)) + 0
      BY <2>1, <3>1, SlotsFinite
    <3> QED BY <2>4, <3>2 DEF u, w
  <2> QED BY <2>3, <2>4
<1> QED BY <1>1, <1>2

---------------------------------------------------------------------------
(* Surplus                                                                 *)

(* The action of SurplusConserved.                                         *)
Conserved ==
  \A x \in Target :
    (Count(x) - Users(x))' = (Count(x) - Users(x)) + Cardinality(Losing(x))

(* Count is CountIn of the current links, before and after a step.         *)
LEMMA CountIsCountIn ==
  \A x : Count(x) = CountIn(links, x) /\ Count(x)' = CountIn(links', x)
BY DEF Count, CountIn

(* A step that drops no default route loses no count.                      *)
LEMMA NothingLost ==
  ASSUME NEW x, \A v \in Vrf : ~Lost(v, x)
  PROVE  Cardinality(Losing(x)) = 0
<1>1. Losing(x) = {}
  BY DEF Losing
<1> QED BY <1>1, FS_EmptySet

(* A default route that forwards as before is not lost.                    *)
LEMMA KeptNotLost ==
  ASSUME NEW x, RoutesTo(x) \subseteq RoutesTo(x)'
  PROVE  Cardinality(Losing(x)) = 0
<1>1. ASSUME NEW v \in Vrf  PROVE ~Lost(v, x)
  <2>1. ASSUME <<v, Default>> \in RoutesTo(x)  PROVE Installed(routes[v][Default])'
    <3>1. <<v, Default>> \in RoutesTo(x)'
      BY <2>1
    <3> QED BY <3>1 DEF RoutesTo, Forwards
  <2> QED BY <2>1 DEF Lost
<1> QED BY <1>1, NothingLost

(* The links stay.                                                         *)
LEMMA SameLinks ==
  ASSUME links'.weight = links.weight, NEW x
  PROVE  Cardinality(LinksOf(x))' = Cardinality(LinksOf(x))
BY DEF LinksOf, Joined, Entries

(* Nothing that counts or is counted changes.                              *)
LEMMA SameConserved ==
  ASSUME TypeOK, links' = links, \A x \in Target : RoutesTo(x)' = RoutesTo(x)
  PROVE  Conserved /\ \A x \in Target : Users(x)' = Users(x)
<1> SUFFICES ASSUME NEW x \in Target
             PROVE  /\ Users(x)' = Users(x)
                    /\ (Count(x) - Users(x))' = (Count(x) - Users(x)) + Cardinality(Losing(x))
  BY DEF Conserved
<1>1. Cardinality(LinksOf(x))' = Cardinality(LinksOf(x))
  BY SameLinks
<1>2. Users(x)' = Users(x)
  BY <1>1 DEF Users
<1>3. Count(x)' = Count(x)
  BY DEF Count
<1>4. Cardinality(Losing(x)) = 0
  BY KeptNotLost
<1> QED BY <1>2, <1>3, <1>4, UsersFinite

(* A next hop joins a group.                                               *)
LEMMA AddConserved ==
  ASSUME TypeOK, NEW g \in Group, NEW n \in Nh, UNCHANGED routes,
         links' = AddInLists(links, g, n)
  PROVE  /\ Conserved
         /\ \A x \in Target : Users(x)' = Users(x) + (IF x \in {g, n} THEN 1 ELSE 0)
         /\ Cardinality(Entries(g)') = Cardinality(Entries(g)) + 1
         /\ \A h \in Group \ {g} : Cardinality(Entries(h)') = Cardinality(Entries(h))
<1>1. links \in Links
  BY DEF TypeOK, Links
<1> DEFINE M == AddInLists(links, g, n)
<1>2. /\ M \in Links
      /\ M.weight = OneMore(links.weight, g, n)
      /\ \A y \in Target : CountIn(M, y)
                             = CountIn(links, y) + (IF y \in {g, n} THEN 1 ELSE 0)
  BY <1>1, Adding
<1>m. links' = M
  OBVIOUS
<1> HIDE DEF M
<1>3. /\ \A h \in Group : Cardinality(Slots(M.weight[h]))
            = Cardinality(Slots(links.weight[h])) + (IF h = g THEN 1 ELSE 0)
      /\ \A q \in Nh : Cardinality(Slots(Column(M, q)))
            = Cardinality(Slots(Column(links, q)))
              + (IF q = n THEN 1 ELSE 0)
  BY <1>1, <1>2, MoreLinks
<1>4. ASSUME NEW x \in Target
      PROVE  Cardinality(LinksOf(x)') = Cardinality(LinksOf(x)) + (IF x \in {g, n} THEN 1 ELSE 0)
  <2>1. CASE x \in Nh
    <3>1. x # g
      BY <2>1, TargetAssumption
    <3> QED BY <1>3, <1>m, <2>1, <3>1 DEF LinksOf, Joined, Column
  <2>2. CASE x \notin Nh
    <3>1. x \in Group /\ x # n
      BY <2>2 DEF Target
    <3> QED BY <1>3, <1>m, <2>2, <3>1 DEF LinksOf, Entries
  <2> QED BY <2>1, <2>2
<1>5. ASSUME NEW x \in Target
      PROVE  Users(x)' = Users(x) + (IF x \in {g, n} THEN 1 ELSE 0)
  <2>1. RoutesTo(x)' = RoutesTo(x)
    BY DEF RoutesTo
  <2>2. Users(x)' = Cardinality(RoutesTo(x)) + Cardinality(LinksOf(x)')
    BY <2>1 DEF Users
  <2>3. /\ Cardinality(RoutesTo(x)) \in Nat /\ Cardinality(LinksOf(x)) \in Nat
        /\ Users(x) = Cardinality(RoutesTo(x)) + Cardinality(LinksOf(x))
    BY UsersFinite DEF Users
  <2>4. Cardinality(LinksOf(x)') = Cardinality(LinksOf(x)) + (IF x \in {g, n} THEN 1 ELSE 0)
    BY <1>4
  <2> HIDE DEF Users
  <2> QED BY <2>2, <2>3, <2>4
<1>6. ASSUME NEW x \in Target
      PROVE  (Count(x) - Users(x))' = (Count(x) - Users(x)) + Cardinality(Losing(x))
  <2>1. RoutesTo(x) \subseteq RoutesTo(x)'
    BY DEF RoutesTo
  <2>2. Cardinality(Losing(x)) = 0
    BY <2>1, KeptNotLost
  <2>3. Count(x)' = Count(x) + (IF x \in {g, n} THEN 1 ELSE 0)
    BY <1>2, <1>m, CountIsCountIn
  <2>4. Users(x)' = Users(x) + (IF x \in {g, n} THEN 1 ELSE 0)
    BY <1>5
  <2>5. Users(x) \in Nat /\ Count(x) \in Nat
    BY UsersFinite
  <2> QED BY <2>2, <2>3, <2>4, <2>5
<1>7. /\ Cardinality(Entries(g)') = Cardinality(Entries(g)) + 1
      /\ \A h \in Group \ {g} : Cardinality(Entries(h)') = Cardinality(Entries(h))
  <2>1. ASSUME NEW h \in Group
        PROVE  /\ h \in Target /\ LinksOf(h) = Entries(h) /\ LinksOf(h)' = Entries(h)'
               /\ Cardinality(Entries(h)) \in Nat
    <3>1. h \in Target /\ h \notin Nh
      BY TargetAssumption DEF Target
    <3>2. LinksOf(h) = Entries(h) /\ LinksOf(h)' = Entries(h)'
      BY <3>1 DEF LinksOf
    <3> QED BY <3>1, <3>2, UsersFinite
  <2>2. \A h \in Group : Cardinality(Entries(h)')
                           = Cardinality(Entries(h)) + (IF h \in {g, n} THEN 1 ELSE 0)
    BY <1>4, <2>1
  <2>3. \A h \in Group : h # n
    BY TargetAssumption
  <2> QED BY <2>1, <2>2, <2>3
<1> QED BY <1>5, <1>6, <1>7 DEF Conserved

(* A next hop leaves a group.                                              *)
LEMMA RemoveConserved ==
  ASSUME TypeOK, CountsCover, NEW g \in Group, NEW n \in Nh, UNCHANGED routes,
         links.weight[g][n] > 0, links.nhCount[g] = Cardinality(Entries(g)),
         links' = RemoveFromLists(links, g, n)
  PROVE  /\ Conserved
         /\ links' \in Links
         /\ links'.weight = [links.weight EXCEPT ![g][n] = @ - 1]
         /\ links'.nhCount = [links.nhCount EXCEPT ![g] = @ - 1]
         /\ \A x \in Target : Users(x)' = Users(x) - (IF x \in {g, n} THEN 1 ELSE 0)
         /\ Cardinality(Entries(g)') = Cardinality(Entries(g)) - 1
         /\ \A h \in Group \ {g} : Cardinality(Entries(h)') = Cardinality(Entries(h))
<1> DEFINE M == RemoveFromLists(links, g, n)
<1>1. /\ links \in Links /\ links.weight[g] \in [Nh -> Nat]
      /\ [h \in Group |-> links.weight[h][n]] \in [Group -> Nat]
  BY DEF TypeOK, Links
<1>2. g \in Target /\ n \in Target /\ g \notin Nh /\ \A h \in Group : h # n
  BY TargetAssumption DEF Target
<1>3. Cardinality(Entries(g)) > 0 /\ LinksOf(g) = Entries(g)
  BY <1>1, <1>2, Finite, SlotsPositive DEF Entries, LinksOf
<1>4. Cardinality(LinksOf(n)) > 0
  <2>1. [h \in Group |-> links.weight[h][n]][g] > 0
    OBVIOUS
  <2>2. Cardinality(Slots([h \in Group |-> links.weight[h][n]])) > 0
    BY <1>1, <2>1, Finite, SlotsPositive
  <2> QED BY <2>2 DEF LinksOf, Joined
<1>5. Count(g) > 0 /\ Count(n) > 0
  <2>1. ASSUME NEW x \in Target, Cardinality(LinksOf(x)) > 0  PROVE Count(x) > 0
    <3>1. Cardinality(RoutesTo(x)) \in Nat /\ Count(x) >= Users(x)
      BY UsersFinite DEF CountsCover
    <3>2. Cardinality(LinksOf(x)) \in Nat /\ Count(x) \in Nat
      BY UsersFinite
    <3> QED BY <2>1, <3>1, <3>2 DEF Users
  <2> QED BY <1>2, <1>3, <1>4, <2>1
<1>6. /\ M \in Links
      /\ M.weight = [links.weight EXCEPT ![g][n] = @ - 1]
      /\ M.nhCount = [links.nhCount EXCEPT ![g] = @ - 1]
      /\ links.weight = OneMore(M.weight, g, n)
      /\ \A y \in Target : CountIn(M, y)
                             = CountIn(links, y) - (IF y \in {g, n} THEN 1 ELSE 0)
  <2>1. links.nhCount[g] > 0 /\ CountIn(links, g) > 0 /\ CountIn(links, n) > 0
    BY <1>3, <1>5, CountIsCountIn
  <2> QED BY <1>1, <2>1, Removing
<1>7. links' = M
  OBVIOUS
<1> HIDE DEF M
<1>16. M \in Links /\ links.weight = OneMore(M.weight, g, n)
  BY <1>6
<1>8. /\ \A h \in Group : Cardinality(Slots(links.weight[h]))
            = Cardinality(Slots(M.weight[h])) + (IF h = g THEN 1 ELSE 0)
      /\ \A q \in Nh : Cardinality(Slots(Column(links, q)))
            = Cardinality(Slots(Column(M, q))) + (IF q = n THEN 1 ELSE 0)
  BY <1>1, <1>16, MoreLinks
<1>9. /\ \A h \in Group : Cardinality(Slots(M.weight[h])) \in Nat
      /\ \A q \in Nh : Cardinality(Slots(Column(M, q))) \in Nat
  <2>1. \A h \in Group : M.weight[h] \in [Nh -> Nat]
    BY <1>16 DEF Links
  <2>2. \A q \in Nh : Column(M, q) \in [Group -> Nat]
    BY <1>16 DEF Links, Column
  <2> QED BY <2>1, <2>2, Finite, SlotsFinite
<1>10. ASSUME NEW x \in Target
       PROVE  Cardinality(LinksOf(x)') = Cardinality(LinksOf(x)) - (IF x \in {g, n} THEN 1 ELSE 0)
  <2>1. CASE x \in Nh
    <3>1. x # g
      BY <1>2, <2>1
    <3>2. LinksOf(x) = Slots(Column(links, x)) /\ LinksOf(x)' = Slots(Column(M, x))
      BY <1>7, <2>1 DEF LinksOf, Joined, Column
    <3> QED BY <1>8, <1>9, <2>1, <3>1, <3>2
  <2>2. CASE x \notin Nh
    <3>1. x \in Group /\ x # n
      BY <2>2 DEF Target
    <3>2. LinksOf(x) = Slots(links.weight[x]) /\ LinksOf(x)' = Slots(M.weight[x])
      BY <1>7, <2>2 DEF LinksOf, Entries
    <3> QED BY <1>8, <1>9, <3>1, <3>2
  <2> QED BY <2>1, <2>2
<1>11. ASSUME NEW x \in Target
       PROVE  Users(x)' = Users(x) - (IF x \in {g, n} THEN 1 ELSE 0)
  <2>1. RoutesTo(x)' = RoutesTo(x)
    BY DEF RoutesTo
  <2>2. Users(x)' = Cardinality(RoutesTo(x)) + Cardinality(LinksOf(x)')
    BY <2>1 DEF Users
  <2>3. /\ Cardinality(RoutesTo(x)) \in Nat /\ Cardinality(LinksOf(x)) \in Nat
        /\ Users(x) = Cardinality(RoutesTo(x)) + Cardinality(LinksOf(x))
    BY UsersFinite DEF Users
  <2>4. Cardinality(LinksOf(x)') = Cardinality(LinksOf(x)) - (IF x \in {g, n} THEN 1 ELSE 0)
    BY <1>10
  <2> HIDE DEF Users
  <2> QED BY <2>2, <2>3, <2>4
<1>12. ASSUME NEW x \in Target
       PROVE  (Count(x) - Users(x))' = (Count(x) - Users(x)) + Cardinality(Losing(x))
  <2>1. RoutesTo(x) \subseteq RoutesTo(x)'
    BY DEF RoutesTo
  <2>2. Cardinality(Losing(x)) = 0
    BY <2>1, KeptNotLost
  <2>3. Count(x)' = Count(x) - (IF x \in {g, n} THEN 1 ELSE 0)
    BY <1>6, <1>7, CountIsCountIn
  <2>4. Users(x)' = Users(x) - (IF x \in {g, n} THEN 1 ELSE 0)
    BY <1>11
  <2>5. Users(x) \in Nat /\ Count(x) \in Nat
    BY UsersFinite
  <2> QED BY <2>2, <2>3, <2>4, <2>5
<1>13. ASSUME NEW h \in Group
       PROVE  Cardinality(Entries(h)') = Cardinality(Entries(h)) - (IF h = g THEN 1 ELSE 0)
  <2>1. Entries(h) = Slots(links.weight[h]) /\ Entries(h)' = Slots(M.weight[h])
    BY <1>7 DEF Entries
  <2> QED BY <1>8, <1>9, <2>1
<1>14. Cardinality(Entries(g)') = Cardinality(Entries(g)) - (IF g = g THEN 1 ELSE 0)
  BY <1>13
<1>15. ASSUME NEW h \in Group \ {g}  PROVE Cardinality(Entries(h)') = Cardinality(Entries(h))
  <2>1. links.weight[h] \in [Nh -> Nat] /\ IsFiniteSet(Nh)
    BY <1>1, Finite DEF Links
  <2>2. Cardinality(Entries(h)) \in Nat
    BY <2>1, SlotsFinite DEF Entries
  <2>3. h # g /\ h \in Group
    BY <1>15
  <2> QED BY <1>13, <2>2, <2>3
<1> QED BY <1>6, <1>7, <1>11, <1>12, <1>14, <1>15 DEF Conserved

(* One route changes, and the counts with it.                              *)
LEMMA RouteConserved ==
  ASSUME TypeOK, NEW v \in Vrf, NEW p \in Prefix, NEW r,
         routes' = [routes EXCEPT ![v][p] = r], links'.weight = links.weight,
         Installed(r) \/ ~Installed(routes[v][p])
           \/ \A x \in Target : Forwards(routes[v][p], x) => links' # links,
         \A x \in Target : Count(x)' = Count(x) + (IF Forwards(r, x) THEN 1 ELSE 0)
                                             - (IF Forwards(routes[v][p], x) THEN 1 ELSE 0)
  PROVE  Conserved
<1> SUFFICES ASSUME NEW x \in Target
             PROVE  (Count(x) - Users(x))' = (Count(x) - Users(x)) + Cardinality(Losing(x))
  BY DEF Conserved
<1> DEFINE a == IF Forwards(r, x) THEN 1 ELSE 0
           b == IF Forwards(routes[v][p], x) THEN 1 ELSE 0
<1>1. a \in Nat /\ b \in Nat
  OBVIOUS
<1>2. Cardinality(RoutesTo(x)') = Cardinality(RoutesTo(x)) + a - b
  BY RouteChange
<1>3. Count(x)' = Count(x) + a - b
  OBVIOUS
<1> HIDE DEF a, b
<1>4. Cardinality(LinksOf(x)') = Cardinality(LinksOf(x))
  BY SameLinks
<1>5. Users(x)' = Cardinality(RoutesTo(x)') + Cardinality(LinksOf(x)')
  BY DEF Users
<1>6. /\ Cardinality(RoutesTo(x)) \in Nat /\ Cardinality(LinksOf(x)) \in Nat
      /\ Users(x) = Cardinality(RoutesTo(x)) + Cardinality(LinksOf(x))
      /\ Count(x) \in Nat
  BY UsersFinite DEF Users
<1>7. Cardinality(Losing(x)) = 0
  <2>1. ASSUME NEW q \in Vrf, Lost(q, x)  PROVE FALSE
    <3>1. /\ Forwards(routes[q][Default], x)
          /\ ~Installed(routes'[q][Default])
          /\ links' = links
      BY <2>1 DEF Lost, RoutesTo, Installed
    <3>2. routes'[q][Default] = IF q = v /\ p = Default THEN r ELSE routes[q][Default]
      BY RouterAssumption DEF TypeOK
    <3>3. q = v /\ p = Default
      BY <3>1, <3>2 DEF Forwards
    <3> QED BY <3>1, <3>2, <3>3 DEF Forwards
  <2> QED BY <2>1, NothingLost
<1> QED BY <1>1, <1>2, <1>3, <1>4, <1>5, <1>6, <1>7

(* A default route leaves the table, and the counts stay.                  *)
LEMMA DropConserved ==
  ASSUME TypeOK, NEW v \in Vrf, NEW r, ~Installed(r),
         routes' = [routes EXCEPT ![v][Default] = r], links' = links
  PROVE  Conserved
<1> SUFFICES ASSUME NEW x \in Target
             PROVE  (Count(x) - Users(x))' = (Count(x) - Users(x)) + Cardinality(Losing(x))
  BY DEF Conserved
<1>1. Count(x)' = Count(x)
  BY DEF Count
<1>2. Cardinality(LinksOf(x)') = Cardinality(LinksOf(x))
  BY SameLinks
<1>3. Users(x)' = Cardinality(RoutesTo(x)') + Cardinality(LinksOf(x)')
  BY DEF Users
<1>4. /\ Cardinality(RoutesTo(x)) \in Nat /\ Cardinality(LinksOf(x)) \in Nat
      /\ Users(x) = Cardinality(RoutesTo(x)) + Cardinality(LinksOf(x))
      /\ Count(x) \in Nat
  BY UsersFinite DEF Users
<1>5. ~Forwards(r, x) /\ Default \in Prefix
  BY RouterAssumption DEF Forwards
<1>6. Cardinality(RoutesTo(x)') = Cardinality(RoutesTo(x)) + 0
               - (IF Forwards(routes[v][Default], x) THEN 1 ELSE 0)
  BY <1>5, RouteChange
<1>7. Cardinality(Losing(x)) = IF Forwards(routes[v][Default], x) THEN 1 ELSE 0
  <2>1. ~Installed(routes'[v][Default])
    BY <1>5 DEF TypeOK
  <2>2. ASSUME NEW q \in Vrf, Lost(q, x)  PROVE q = v /\ Forwards(routes[v][Default], x)
    <3>1. Forwards(routes[q][Default], x) /\ ~Installed(routes'[q][Default])
      BY <2>2 DEF Lost, RoutesTo, Installed
    <3>2. q # v => routes'[q][Default] = routes[q][Default]
      BY DEF TypeOK
    <3> QED BY <3>1, <3>2 DEF Forwards
  <2>3. CASE Forwards(routes[v][Default], x)
    <3>1. <<v, Default>> \in RoutesTo(x)
      BY <1>5, <2>3 DEF RoutesTo
    <3>2. Lost(v, x)
      BY <2>1, <3>1 DEF Lost, Installed
    <3>3. Losing(x) \subseteq {v}
      BY <2>2 DEF Losing
    <3>4. Losing(x) = {v}
      BY <3>2, <3>3 DEF Losing
    <3> QED BY <2>3, <3>4, FS_Singleton
  <2>4. CASE ~Forwards(routes[v][Default], x)
    BY <2>2, <2>4, NothingLost
  <2> QED BY <2>3, <2>4
<1>8. CASE Forwards(routes[v][Default], x)
  BY <1>1, <1>2, <1>3, <1>4, <1>6, <1>7, <1>8
<1>9. CASE ~Forwards(routes[v][Default], x)
  BY <1>1, <1>2, <1>3, <1>4, <1>6, <1>7, <1>9
<1> QED BY <1>8, <1>9

---------------------------------------------------------------------------
(* Nodes                                                                   *)

(* A router interface counts its nodes.                                    *)
RifCounts == \A r \in Rif : nodes.rifRef[r] = Cardinality(NodesOn(r))

(* The nodes of an interface can be counted.                               *)
LEMMA NodesFinite == \A r : IsFiniteSet(NodesOn(r)) /\ Cardinality(NodesOn(r)) \in Nat
<1> SUFFICES ASSUME NEW r  PROVE IsFiniteSet(NodesOn(r)) /\ Cardinality(NodesOn(r)) \in Nat
  OBVIOUS
<1>1. NodesOn(r) \in SUBSET Nh
  BY DEF NodesOn
<1>2. IsFiniteSet(NodesOn(r))
  BY <1>1, Finite, FS_Subset
<1> QED BY <1>2, FS_CardinalityType

(* The type of nodes.                                                      *)
NodeType == [owners : [Nh -> SUBSET Owner], rifRef : [Rif -> Nat]]

(* A user of a node appears.                                               *)
LEMMA OwnEffect ==
  ASSUME nodes \in NodeType, RifCounts, NEW n \in Nh, NEW o \in Owner,
         nodes' = Own(nodes, n, o)
  PROVE  /\ nodes' \in NodeType /\ RifCounts'
         /\ \A m \in Nh : nodes'.owners[m] = IF m = n THEN nodes.owners[n] \cup {o}
                                                     ELSE nodes.owners[m]
<1>1. RifOf[n] \in Rif
  BY RifOfAssumption
<1>2. \A m \in Nh : nodes'.owners[m] = IF m = n THEN nodes.owners[n] \cup {o}
                                               ELSE nodes.owners[m]
  BY DEF Own, NodeType
<1>3. nodes' \in NodeType
  <2>1. [nodes.owners EXCEPT ![n] = @ \cup {o}] \in [Nh -> SUBSET Owner]
    BY DEF NodeType
  <2>2. [nodes.rifRef EXCEPT ![RifOf[n]] = @ + 1] \in [Rif -> Nat] /\ nodes.rifRef \in [Rif -> Nat]
    BY <1>1 DEF NodeType
  <2> QED BY <2>1, <2>2 DEF Own, NodeType
<1>4. ASSUME nodes.owners[n] = {}  PROVE RifCounts'
  <2>1. ASSUME NEW r \in Rif  PROVE (nodes.rifRef[r] = Cardinality(NodesOn(r)))'
    <3>1. NodesOn(r)' = IF r = RifOf[n] THEN NodesOn(r) \cup {n} ELSE NodesOn(r)
      BY <1>2, <1>4 DEF NodesOn
    <3>2. n \notin NodesOn(r)
      BY <1>4 DEF NodesOn
    <3>3. nodes'.rifRef[r] = IF r = RifOf[n] THEN nodes.rifRef[r] + 1 ELSE nodes.rifRef[r]
      BY <1>4 DEF Own, NodeType
    <3>4. nodes.rifRef[r] = Cardinality(NodesOn(r))
      BY DEF RifCounts
    <3>5. Cardinality(NodesOn(r) \cup {n}) = Cardinality(NodesOn(r)) + 1
      <4>1. IsFiniteSet(NodesOn(r))
        BY NodesFinite
      <4> QED BY <3>2, <4>1, FS_AddElement
    <3>6. CASE r = RifOf[n]
      <4>1. Cardinality(NodesOn(r)') = Cardinality(NodesOn(r)) + 1
        BY <3>1, <3>5, <3>6
      <4>2. nodes'.rifRef[r] = nodes.rifRef[r] + 1
        BY <3>3, <3>6
      <4> QED BY <3>4, <4>1, <4>2
    <3>7. CASE r # RifOf[n]
      BY <3>1, <3>3, <3>4, <3>7
    <3> QED BY <3>6, <3>7
  <2> QED BY <2>1 DEF RifCounts
<1>5. ASSUME nodes.owners[n] # {}  PROVE RifCounts'
  <2>1. ASSUME NEW r \in Rif  PROVE (nodes.rifRef[r] = Cardinality(NodesOn(r)))'
    <3>1. NodesOn(r)' = NodesOn(r)
      BY <1>2, <1>5 DEF NodesOn
    <3>2. nodes'.rifRef[r] = nodes.rifRef[r]
      BY <1>5 DEF Own, NodeType
    <3> QED BY <3>1, <3>2 DEF RifCounts
  <2> QED BY <2>1 DEF RifCounts
<1> QED BY <1>2, <1>3, <1>4, <1>5

(* A user of a node goes.                                                  *)
LEMMA DisownEffect ==
  ASSUME nodes \in NodeType, RifCounts, NEW n \in Nh, NEW o \in nodes.owners[n],
         nodes' = Disown(nodes, n, o)
  PROVE  /\ nodes' \in NodeType /\ RifCounts'
         /\ \A m \in Nh : nodes'.owners[m] = IF m = n THEN nodes.owners[n] \ {o}
                                                     ELSE nodes.owners[m]
<1>1. RifOf[n] \in Rif
  BY RifOfAssumption
<1>2. \A m \in Nh : nodes'.owners[m] = IF m = n THEN nodes.owners[n] \ {o}
                                               ELSE nodes.owners[m]
  BY DEF Disown, NodeType
<1>3. n \in NodesOn(RifOf[n]) /\ nodes.rifRef[RifOf[n]] > 0
  <2>1. n \in NodesOn(RifOf[n])
    BY DEF NodesOn
  <2>2. Cardinality(NodesOn(RifOf[n])) # 0
    BY <2>1, NodesFinite, FS_EmptySet
  <2> QED BY <1>1, <2>1, <2>2, NodesFinite DEF RifCounts
<1>4. nodes' \in NodeType
  <2>1. [nodes.owners EXCEPT ![n] = @ \ {o}] \in [Nh -> SUBSET Owner]
    BY DEF NodeType
  <2>2. [nodes.rifRef EXCEPT ![RifOf[n]] = @ - 1] \in [Rif -> Nat] /\ nodes.rifRef \in [Rif -> Nat]
    BY <1>1, <1>3 DEF NodeType
  <2> QED BY <2>1, <2>2 DEF Disown, NodeType
<1>5. ASSUME nodes.owners[n] \subseteq {o}  PROVE RifCounts'
  <2>1. ASSUME NEW r \in Rif  PROVE (nodes.rifRef[r] = Cardinality(NodesOn(r)))'
    <3>1. NodesOn(r)' = IF r = RifOf[n] THEN NodesOn(r) \ {n} ELSE NodesOn(r)
      BY <1>2, <1>5 DEF NodesOn
    <3>2. nodes'.rifRef[r] = IF r = RifOf[n] THEN nodes.rifRef[r] - 1 ELSE nodes.rifRef[r]
      BY <1>3, <1>5 DEF Disown, NodeType
    <3>3. nodes.rifRef[r] = Cardinality(NodesOn(r))
      BY DEF RifCounts
    <3> QED BY <1>3, <3>1, <3>2, <3>3, NodesFinite, FS_RemoveElement
  <2> QED BY <2>1 DEF RifCounts
<1>6. ASSUME ~(nodes.owners[n] \subseteq {o})  PROVE RifCounts'
  <2>1. ASSUME NEW r \in Rif  PROVE (nodes.rifRef[r] = Cardinality(NodesOn(r)))'
    <3>1. NodesOn(r)' = NodesOn(r)
      BY <1>2, <1>6 DEF NodesOn
    <3>2. nodes'.rifRef[r] = nodes.rifRef[r]
      BY <1>6 DEF Disown, NodeType
    <3> QED BY <3>1, <3>2 DEF RifCounts
  <2> QED BY <2>1 DEF RifCounts
<1> QED BY <1>2, <1>4, <1>5, <1>6

(* A creation that the NPU refuses is undone.                              *)
LEMMA OwnUndone ==
  ASSUME NEW N \in NodeType, NEW n \in Nh, NEW o \in Owner, o \notin N.owners[n]
  PROVE  Disown(Own(N, n, o), n, o) = N
<1> DEFINE A == Own(N, n, o)
           R == Disown(A, n, o)
<1>1. RifOf[n] \in Rif
  BY RifOfAssumption
<1>2. N.owners \in [Nh -> SUBSET Owner] /\ N.rifRef \in [Rif -> Nat]
  BY DEF NodeType
<1>3. A.owners = [N.owners EXCEPT ![n] = @ \cup {o}]
  BY DEF Own
<1>4. R.owners = N.owners
  <2>1. R.owners = [A.owners EXCEPT ![n] = @ \ {o}]
    BY DEF Disown
  <2> HIDE DEF R, A
  <2> QED BY <1>2, <1>3, <2>1
<1>5. R.rifRef = N.rifRef
  <2>1. CASE N.owners[n] = {}
    <3>1. A.rifRef = [N.rifRef EXCEPT ![RifOf[n]] = @ + 1]
      BY <2>1 DEF Own
    <3>2. A.owners[n] \subseteq {o}
      BY <1>2, <1>3, <2>1
    <3>3. A.rifRef[RifOf[n]] > 0
      BY <1>1, <1>2, <3>1
    <3>4. R.rifRef = [A.rifRef EXCEPT ![RifOf[n]] = @ - 1]
      BY <3>2, <3>3 DEF Disown
    <3> HIDE DEF R, A
    <3> QED BY <1>1, <1>2, <3>1, <3>4
  <2>2. CASE N.owners[n] # {}
    <3>1. A.rifRef = N.rifRef
      BY <2>2 DEF Own
    <3>2. ~(A.owners[n] \subseteq {o})
      BY <1>2, <1>3, <2>2
    <3>3. R.rifRef = A.rifRef
      BY <3>2 DEF Disown
    <3> HIDE DEF R, A
    <3> QED BY <3>1, <3>3
  <2> QED BY <2>1, <2>2
<1>6. R = [owners |-> R.owners, rifRef |-> R.rifRef]
  BY DEF Disown
<1> HIDE DEF R
<1>7. R = N
  BY <1>2, <1>4, <1>5, <1>6 DEF NodeType
<1> QED BY <1>7 DEF R, A

---------------------------------------------------------------------------
(* Steps                                                                   *)

(* The parts of CountsCover.                                               *)
Covered == \A x \in Target : Count(x) >= Users(x)

(* What is used exists.                                                    *)
UsedLive == \A x \in Target : Users(x) > 0 => Live(x)

(* CountsCover by parts.                                                   *)
LEMMA CoverParts ==
  CountsCover <=> Covered /\ UsedLive /\ RoutesTo(Stale) = {} /\ RifCounts
BY DEF CountsCover, Covered, UsedLive, RifCounts

(* The same of the next state.                                             *)
LEMMA CoverPartsNext ==
  CountsCover' <=> Covered' /\ UsedLive' /\ RoutesTo(Stale)' = {} /\ RifCounts'
<1>1. (CountsCover <=> Covered /\ UsedLive /\ RoutesTo(Stale) = {} /\ RifCounts)'
  BY CoverParts, PTL
<1> QED BY <1>1

(* Users and counts are natural numbers.                                   *)
UsersNatural == \A x \in Target : Users(x) \in Nat /\ Count(x) \in Nat

(* The types say so.                                                       *)
LEMMA Natural == TypeOK => UsersNatural
BY UsersFinite DEF UsersNatural

(* The same of the next state.                                             *)
LEMMA NaturalNext ==
  TypeOK' => \A x \in Target : Users(x)' \in Nat /\ Count(x)' \in Nat
<1>1. (TypeOK => UsersNatural)'
  BY Natural, PTL
<1> QED BY <1>1 DEF UsersNatural

(* A step that conserves the surplus keeps the counts up.                  *)
LEMMA CoveredStep ==
  ASSUME TypeOK, TypeOK', CountsCover, Conserved
  PROVE  Covered'
<1>1. ASSUME NEW x \in Target  PROVE (Count(x) >= Users(x))'
  <2>1. (Count(x) - Users(x))' = (Count(x) - Users(x)) + Cardinality(Losing(x))
    BY DEF Conserved
  <2>2. Count(x) >= Users(x)
    BY DEF CountsCover
  <2>3. Cardinality(Losing(x)) \in Nat
    <3>1. Losing(x) \in SUBSET Vrf
      BY DEF Losing
    <3> QED BY <3>1, Finite, FS_Subset, FS_CardinalityType
  <2>4. Users(x) \in Nat /\ Count(x) \in Nat /\ Users(x)' \in Nat /\ Count(x)' \in Nat
    BY Natural, NaturalNext DEF UsersNatural
  <2> QED BY <2>1, <2>2, <2>3, <2>4
<1> QED BY <1>1 DEF Covered

(* What is used was used before, or is pointed to anew.                    *)
LEMMA UsedLiveStep ==
  ASSUME TypeOK, UsedLive,
         \A x \in Target : Users(x)' > 0 => Users(x) > 0 \/ Live(x),
         \A x \in Target : Live(x) /\ ~Live(x)' => Users(x)' = 0
  PROVE  UsedLive'
<1>1. ASSUME NEW x \in Target, Users(x)' > 0  PROVE Live(x)'
  <2>1. Live(x)
    BY <1>1 DEF UsedLive
  <2> QED BY <1>1, <2>1
<1> QED BY <1>1 DEF UsedLive

(* What a step leaves alone keeps what is said of it.                      *)
LEMMA RifStep == nodes' = nodes /\ RifCounts => RifCounts'
BY DEF RifCounts, NodesOn

(* What exists depends on nodes and groups alone.                          *)
LEMMA LiveStep ==
  ASSUME nodes' = nodes, groups' = groups
  PROVE  \A x : Live(x)' = Live(x)
BY DEF Live, IsNextHop

(* MembersLinked depends on ids and links alone.                           *)
LEMMA MembersStep ==
  ASSUME MembersLinked, members' = members, links'.weight = links.weight,
         links'.nhCount = links.nhCount
  PROVE  MembersLinked'
BY DEF MembersLinked, IdsOf, Entries

---------------------------------------------------------------------------
(* Routes                                                                  *)

(* One route changes; an object it now forwards to exists.                 *)
LEMMA RouteStep ==
  ASSUME TypeOK, TypeOK', CountsCover, MembersLinked, Conserved,
         NEW v \in Vrf, NEW p \in Prefix, NEW r,
         routes' = [routes EXCEPT ![v][p] = r], links'.weight = links.weight,
         links'.nhCount = links.nhCount, UNCHANGED <<nodes, groups, members>>,
         Installed(r) => Given(r.target)
  PROVE  CountsCover' /\ MembersLinked'
<1>1. Covered'
  BY CoveredStep
<1>2. UsedLive'
  <2>1. ASSUME NEW x \in Target, Users(x)' > 0  PROVE Users(x) > 0 \/ Live(x)
    <3>1. CASE Forwards(r, x)
      BY <3>1, TargetAssumption DEF Forwards, Given, Target
    <3>2. CASE ~Forwards(r, x)
      <4> DEFINE b == IF Forwards(routes[v][p], x) THEN 1 ELSE 0
      <4>1. Cardinality(RoutesTo(x)') = Cardinality(RoutesTo(x)) + 0 - b
        BY <3>2, RouteChange
      <4>2. b \in Nat
        OBVIOUS
      <4> HIDE DEF b
      <4>3. Cardinality(LinksOf(x)') = Cardinality(LinksOf(x))
        BY SameLinks
      <4>4. Users(x)' = Cardinality(RoutesTo(x)') + Cardinality(LinksOf(x)')
        BY DEF Users
      <4>5. /\ Cardinality(RoutesTo(x)) \in Nat /\ Cardinality(LinksOf(x)) \in Nat
            /\ Users(x) = Cardinality(RoutesTo(x)) + Cardinality(LinksOf(x))
        BY UsersFinite DEF Users
      <4> QED BY <2>1, <4>1, <4>2, <4>3, <4>4, <4>5
    <3> QED BY <3>1, <3>2
  <2>2. \A x \in Target : Live(x)' = Live(x)
    BY LiveStep
  <2>3. UsedLive
    BY CoverParts
  <2> QED BY <2>1, <2>2, <2>3, UsedLiveStep
<1>3. RoutesTo(Stale)' = {}
  <2>1. ~Forwards(r, Stale)
    BY TargetAssumption DEF Forwards, Given, Live, IsNextHop, TypeOK
  <2>2. RoutesTo(Stale)' = RoutesTo(Stale) \ {<<v, p>>}
    BY <2>1, RouteChange
  <2> QED BY <2>2 DEF CountsCover
<1>4. RifCounts'
  BY RifStep, CoverParts
<1>5. MembersLinked'
  BY MembersStep
<1> QED BY <1>1, <1>2, <1>3, <1>4, <1>5, CoverPartsNext

(* Which routes there are.                                                 *)
LEMMA RoutersStep ==
  ASSUME TypeOK, Routers, NEW v \in vrs, NEW p \in Prefix, NEW r,
         p = Default => r # None, routes' = [routes EXCEPT ![v][p] = r],
         UNCHANGED <<vrs, restore>>
  PROVE  Routers'
<1>1. v \in Vrf
  BY DEF TypeOK
<1>2. \A q \in Vrf, d \in Prefix :
        routes'[q][d] = IF q = v /\ d = p THEN r ELSE routes[q][d]
  BY <1>1 DEF TypeOK
<1>3. vrs \subseteq Vrf /\ Default \in Prefix
  BY RouterAssumption DEF TypeOK
<1>4. ASSUME NEW q \in vrs  PROVE routes'[q][Default] # None
  BY <1>2, <1>3 DEF Routers
<1>5. ASSUME NEW q \in Vrf \ vrs, NEW d \in Prefix  PROVE routes'[q][d] = None
  BY <1>2 DEF Routers
<1> QED BY <1>4, <1>5 DEF Routers

(* A default route that nobody has to restore changes.                     *)
LEMMA DefaultStep ==
  ASSUME TypeOK, Undisturbed, NEW v \in Vrf, NEW p \in Prefix, NEW r,
         p = Default => r.hw \/ r = EmptyDefault,
         routes' = [routes EXCEPT ![v][p] = r],
         raced' = (raced \/ (p = Default /\ Pending(v) # {})), ~raced',
         UNCHANGED <<vrs, restore, wild>>
  PROVE  Undisturbed'
<1>1. \A q \in Vrf : routes'[q][Default]
                       = IF q = v /\ p = Default THEN r ELSE routes[q][Default]
  BY RouterAssumption DEF TypeOK
<1>2. ~raced /\ (p = Default => Pending(v) = {})
  OBVIOUS
<1>3. \A q : Pending(q)' = Pending(q)
  BY DEF Pending
<1>4. ~wild'
  BY <1>2 DEF Undisturbed
<1>5. ASSUME NEW t \in Thread, restore'[t] # None
      PROVE  /\ restore'[t].old = EmptyDefault
             /\ ~restore'[t].freed
             /\ ~routes'[restore'[t].vr][Default].hw
             /\ Pending(restore[t].vr)' = {t}
  <2>1. restore[t].vr \in Vrf /\ t \in Pending(restore[t].vr)
    BY <1>5 DEF TypeOK, Saved, Pending
  <2>2. routes'[restore[t].vr][Default] = routes[restore[t].vr][Default]
    BY <1>1, <1>2, <2>1
  <2> QED BY <1>2, <1>3, <1>5, <2>2 DEF Undisturbed
<1>6. ASSUME NEW q \in vrs, Pending(q)' = {}, ~routes'[q][Default].hw
      PROVE  routes'[q][Default] = EmptyDefault
  <2>1. q \in Vrf
    BY DEF TypeOK
  <2>2. CASE q = v /\ p = Default
    BY <1>1, <1>6, <2>1, <2>2
  <2>3. CASE ~(q = v /\ p = Default)
    <3>1. routes'[q][Default] = routes[q][Default]
      BY <1>1, <2>1, <2>3
    <3>2. Pending(q) = {} /\ ~routes[q][Default].hw
      BY <1>3, <1>6, <3>1
    <3> QED BY <1>2, <3>1, <3>2 DEF Undisturbed
  <2> QED BY <2>2, <2>3
<1> QED BY <1>4, <1>5, <1>6 DEF Undisturbed

(* The default route of a new virtual router is not in the NPU, and no     *)
(* route is None.                                                          *)
LEMMA RouteTypes ==
  /\ EmptyDefault \in Route /\ ~EmptyDefault.hw /\ ~Installed(EmptyDefault)
  /\ ~Installed(None)
  /\ None \notin Route
BY NoneAssumption DEF EmptyDefault, Route, Installed, Action

(* Changing one route keeps the type of all.                               *)
LEMMA RouteTyped ==
  ASSUME TypeOK, NEW v \in Vrf, NEW p \in Prefix, NEW r \in Route \cup {None},
         routes' = [routes EXCEPT ![v][p] = r]
  PROVE  routes' \in [Vrf -> [Prefix -> Route \cup {None}]]
<1>1. [routes[v] EXCEPT ![p] = r] \in [Prefix -> Route \cup {None}]
  BY DEF TypeOK
<1> QED BY <1>1 DEF TypeOK

(* sai_fib_virtual_router_create adds an empty default route.              *)
LEMMA VrCreateStep ==
  ASSUME IInv, NEW v \in Vrf, VrCreate(v)
  PROVE  IInv' /\ Conserved
<1>1. /\ routes' = [routes EXCEPT ![v][Default] = EmptyDefault]
      /\ UNCHANGED <<nodes, groups, links, members, restore, raced, wild>>
      /\ v \notin vrs /\ vrs' = vrs \cup {v} /\ Default \in Prefix
  BY RouterAssumption DEF VrCreate
<1>2. TypeOK /\ CountsCover /\ MembersLinked /\ Routers /\ Undisturbed
  BY DEF IInv
<1>3. TypeOK'
  <2>1. routes' \in [Vrf -> [Prefix -> Route \cup {None}]]
    BY <1>1, <1>2, RouteTypes, RouteTyped
  <2> QED BY <1>1, <1>2, <2>1 DEF TypeOK
<1>4. Conserved
  BY <1>1, <1>2, RouteTypes, DropConserved
<1>5. CountsCover' /\ MembersLinked'
  BY <1>1, <1>2, <1>3, <1>4, RouteTypes, RouteStep
<1>6. \A q \in Vrf, d \in Prefix :
        routes'[q][d] = IF q = v /\ d = Default THEN EmptyDefault ELSE routes[q][d]
  BY <1>1, <1>2 DEF TypeOK
<1>7. vrs \subseteq Vrf /\ None # EmptyDefault /\ ~EmptyDefault.hw
  BY <1>2, RouteTypes DEF TypeOK
<1>8. Routers'
  BY <1>1, <1>2, <1>6, <1>7 DEF Routers
<1>9. ASSUME ~raced  PROVE Undisturbed'
  <2>1. \A t \in Thread : restore[t] # None => restore[t].vr \in vrs
    BY <1>2, <1>9 DEF Routers, Undisturbed
  <2>2. \A q \in vrs : routes'[q][Default] = routes[q][Default]
    BY <1>1, <1>6, <1>7
  <2>3. \A q : Pending(q)' = Pending(q)
    BY <1>1 DEF Pending
  <2>4. routes'[v][Default] = EmptyDefault
    BY <1>1, <1>6
  <2> QED BY <1>1, <1>2, <1>9, <2>1, <2>2, <2>3, <2>4 DEF Undisturbed
<1>10. Undisturbed'
  BY <1>1, <1>9 DEF Undisturbed
<1> QED BY <1>3, <1>4, <1>5, <1>8, <1>10 DEF IInv

(* A virtual router goes, or its default route is made anew.               *)
LEMMA FreeDefaultTyped ==
  ASSUME TypeOK, NEW v \in Vrf, FreeDefault(v)
  PROVE  /\ restore' \in [Thread -> Saved \cup {None}]
         /\ raced' \in BOOLEAN
         /\ \A t \in Thread :
              /\ restore'[t] # None <=> restore[t] # None
              /\ restore'[t] # None =>
                   /\ restore'[t].vr = restore[t].vr /\ restore'[t].old = restore[t].old
                   /\ ~restore'[t].freed => ~restore[t].freed /\ restore[t].vr # v
<1>1. ASSUME NEW t \in Thread, restore[t] # None
      PROVE  restore[t] \in Saved /\ [restore[t] EXCEPT !.freed = TRUE] \in Saved
  <2>1. restore[t] \in Saved
    BY <1>1 DEF TypeOK
  <2>2. \A s \in Saved : [s EXCEPT !.freed = TRUE] \in Saved
    BY DEF Saved
  <2> QED BY <2>1, <2>2
<1>2. \A t \in Thread :
        restore'[t] = IF restore[t] # None /\ restore[t].vr = v
                        THEN [restore[t] EXCEPT !.freed = TRUE] ELSE restore[t]
  BY DEF FreeDefault, Pending
<1>3. None \notin Saved /\ restore \in [Thread -> Saved \cup {None}]
  BY NoneAssumption DEF TypeOK
<1>4. restore' \in [Thread -> Saved \cup {None}]
  <2>1. \A t \in Thread : restore'[t] \in Saved \cup {None}
    BY <1>1, <1>2, <1>3
  <2>2. restore' = [t \in Thread |-> restore'[t]]
    BY DEF FreeDefault
  <2> QED BY <2>1, <2>2
<1>5. raced' \in BOOLEAN
  BY DEF FreeDefault, TypeOK
<1>6. ASSUME NEW t \in Thread
      PROVE  /\ restore'[t] # None <=> restore[t] # None
             /\ restore'[t] # None =>
                  /\ restore'[t].vr = restore[t].vr /\ restore'[t].old = restore[t].old
                  /\ ~restore'[t].freed => ~restore[t].freed /\ restore[t].vr # v
  <2>1. CASE restore[t] # None /\ restore[t].vr = v
    <3>1. restore'[t] = [restore[t] EXCEPT !.freed = TRUE]
      BY <1>2, <2>1
    <3>2. restore[t] \in Saved /\ restore'[t] \in Saved
      BY <1>1, <2>1, <3>1
    <3>3. restore'[t].vr = restore[t].vr /\ restore'[t].old = restore[t].old /\ restore'[t].freed
      BY <3>1, <3>2 DEF Saved
    <3> QED BY <1>3, <2>1, <3>2, <3>3
  <2>2. CASE ~(restore[t] # None /\ restore[t].vr = v)
    <3>1. restore'[t] = restore[t]
      BY <1>2, <2>2
    <3> QED BY <2>2, <3>1
  <2> QED BY <2>1, <2>2
<1> QED BY <1>4, <1>5, <1>6

(* sai_fib_virtual_router_remove drops the default route, and with it what *)
(* it counted: this is the loss that Conserved allows.                     *)
LEMMA VrRemoveStep ==
  ASSUME IInv, NEW v \in Vrf, VrRemove(v)
  PROVE  IInv' /\ Conserved
<1>1. /\ routes' = [routes EXCEPT ![v][Default] = None]
      /\ UNCHANGED <<nodes, groups, links, members, wild>>
      /\ FreeDefault(v) /\ ~InUse(v)
      /\ v \in vrs /\ vrs' = vrs \ {v} /\ Default \in Prefix
  BY RouterAssumption DEF VrRemove
<1>2. TypeOK /\ CountsCover /\ MembersLinked /\ Routers /\ Undisturbed
  BY DEF IInv
<1>3. /\ restore' \in [Thread -> Saved \cup {None}]
      /\ raced' \in BOOLEAN
      /\ \A t \in Thread :
           /\ restore'[t] # None <=> restore[t] # None
           /\ restore'[t] # None =>
                /\ restore'[t].vr = restore[t].vr /\ restore'[t].old = restore[t].old
                /\ ~restore'[t].freed => ~restore[t].freed /\ restore[t].vr # v
  BY <1>1, <1>2, FreeDefaultTyped
<1>4. TypeOK'
  <2>1. routes' \in [Vrf -> [Prefix -> Route \cup {None}]]
    BY <1>1, <1>2, RouteTyped
  <2> QED BY <1>1, <1>2, <1>3, <2>1 DEF TypeOK
<1>5. Conserved
  BY <1>1, <1>2, RouteTypes, DropConserved
<1>6. CountsCover' /\ MembersLinked'
  BY <1>1, <1>2, <1>4, <1>5, RouteTypes, RouteStep
<1>7. \A q \in Vrf, d \in Prefix :
        routes'[q][d] = IF q = v /\ d = Default THEN None ELSE routes[q][d]
  BY <1>1, <1>2 DEF TypeOK
<1>8. vrs \subseteq Vrf
  BY <1>2 DEF TypeOK
<1>9. Routers'
  <2>1. \A q \in vrs' : routes'[q][Default] # None
    BY <1>1, <1>2, <1>7, <1>8 DEF Routers
  <2>2. \A q \in Vrf \ vrs' : \A d \in Prefix : routes'[q][d] = None
    BY <1>1, <1>2, <1>7 DEF Routers, InUse
  <2>3. \A t \in Thread : restore'[t] # None =>
          /\ ~restore'[t].old.hw
          /\ ~restore'[t].freed => restore'[t].vr \in vrs'
    BY <1>1, <1>2, <1>3 DEF Routers
  <2> QED BY <2>1, <2>2, <2>3 DEF Routers
<1>10. ASSUME ~raced'  PROVE Undisturbed'
  <2>1. ~raced /\ Pending(v) = {}
    BY <1>1, <1>10 DEF FreeDefault
  <2>2. restore' = restore
    BY <1>1, <1>2, <2>1 DEF FreeDefault, TypeOK
  <2>3. \A q \in Vrf : q # v => routes'[q][Default] = routes[q][Default]
    BY <1>1, <1>7
  <2>4. \A q : Pending(q)' = Pending(q)
    BY <2>2 DEF Pending
  <2>5. \A t \in Thread : restore[t] # None => restore[t].vr # v /\ restore[t].vr \in Vrf
    BY <1>2, <2>1 DEF Pending, TypeOK, Saved
  <2> QED BY <1>1, <1>2, <1>8, <2>1, <2>2, <2>3, <2>4, <2>5 DEF Undisturbed
<1>11. Undisturbed'
  BY <1>10 DEF Undisturbed
<1> QED BY <1>4, <1>5, <1>6, <1>9, <1>11 DEF IInv

(* A removal that is refused loses the count as well: the default route is *)
(* made anew, empty.                                                       *)
LEMMA VrRemoveRefusedStep ==
  ASSUME IInv, NEW v \in Vrf, VrRemoveRefused(v)
  PROVE  IInv' /\ Conserved
<1>1. /\ routes' = [routes EXCEPT ![v][Default] = EmptyDefault]
      /\ UNCHANGED <<vrs, nodes, groups, links, members, wild>>
      /\ FreeDefault(v)
      /\ v \in vrs /\ Default \in Prefix
  BY RouterAssumption DEF VrRemoveRefused
<1>2. TypeOK /\ CountsCover /\ MembersLinked /\ Routers /\ Undisturbed
  BY DEF IInv
<1>3. /\ restore' \in [Thread -> Saved \cup {None}]
      /\ raced' \in BOOLEAN
      /\ \A t \in Thread :
           /\ restore'[t] # None <=> restore[t] # None
           /\ restore'[t] # None =>
                /\ restore'[t].vr = restore[t].vr /\ restore'[t].old = restore[t].old
                /\ ~restore'[t].freed => ~restore[t].freed /\ restore[t].vr # v
  BY <1>1, <1>2, FreeDefaultTyped
<1>4. TypeOK'
  <2>1. routes' \in [Vrf -> [Prefix -> Route \cup {None}]]
    BY <1>1, <1>2, RouteTypes, RouteTyped
  <2> QED BY <1>1, <1>2, <1>3, <2>1 DEF TypeOK
<1>5. Conserved
  BY <1>1, <1>2, RouteTypes, DropConserved
<1>6. CountsCover' /\ MembersLinked'
  BY <1>1, <1>2, <1>4, <1>5, RouteTypes, RouteStep
<1>7. \A q \in Vrf, d \in Prefix :
        routes'[q][d] = IF q = v /\ d = Default THEN EmptyDefault ELSE routes[q][d]
  BY <1>1, <1>2 DEF TypeOK
<1>8. vrs \subseteq Vrf /\ None # EmptyDefault
  BY <1>2, RouteTypes DEF TypeOK
<1>9. Routers'
  <2>1. \A q \in vrs' : routes'[q][Default] # None
    BY <1>1, <1>2, <1>7, <1>8 DEF Routers
  <2>2. \A q \in Vrf \ vrs' : \A d \in Prefix : routes'[q][d] = None
    BY <1>1, <1>2, <1>7 DEF Routers
  <2>3. \A t \in Thread : restore'[t] # None =>
          /\ ~restore'[t].old.hw
          /\ ~restore'[t].freed => restore'[t].vr \in vrs'
    BY <1>1, <1>2, <1>3 DEF Routers
  <2> QED BY <2>1, <2>2, <2>3 DEF Routers
<1>10. ASSUME ~raced'  PROVE Undisturbed'
  <2>1. /\ restore' = restore
        /\ raced' = (raced \/ (Default = Default /\ Pending(v) # {}))
    BY <1>1, <1>2, <1>10 DEF FreeDefault, TypeOK
  <2> QED BY <1>1, <1>2, <1>10, <2>1, DefaultStep
<1>11. Undisturbed'
  BY <1>10 DEF Undisturbed
<1> QED BY <1>4, <1>5, <1>6, <1>9, <1>11 DEF IInv

(* sai_fib_route_create counts the target of the new route.                *)
LEMMA RouteCreateStep ==
  ASSUME IInv, NEW v \in Vrf, NEW p \in Prefix, NEW x \in Target \cup {None},
         NEW a \in Action, RouteCreate(v, p, x, a)
  PROVE  IInv' /\ Conserved
<1> DEFINE r == Parsed(NewNode(v, p), x, a)
<1>1. /\ routes' = [routes EXCEPT ![v][p] = r]
      /\ links' = Incr(links, r.target)
      /\ raced' = (raced \/ (p = Default /\ Pending(v) # {}))
      /\ UNCHANGED <<vrs, nodes, groups, members, restore, wild>>
      /\ Given(r.target) /\ Creatable(v, p) /\ v \in vrs
  BY DEF RouteCreate, Creatable
<1>2. TypeOK /\ CountsCover /\ MembersLinked /\ Routers /\ Undisturbed
  BY DEF IInv
<1>3. r \in Route /\ r.hw /\ r # None /\ r.target \in Target \cup {None, Stale}
  <2>1. NewNode(v, p) \in Route
    BY <1>2, RouteTypes DEF NewNode, TypeOK
  <2>2. NewNode(v, p).target \in Target \cup {None, Stale}
    BY <2>1 DEF Route
  <2>3. r \in Route /\ r.hw /\ r.target \in Target \cup {None, Stale}
    BY <2>2 DEF Route, Parsed
  <2> QED BY <2>3, NoneAssumption
<1> HIDE DEF r
<1>4. links \in Links
  BY <1>2 DEF TypeOK, Links
<1>5. /\ links' \in Links
      /\ links'.weight = links.weight /\ links'.nhCount = links.nhCount
      /\ \A y \in Target : CountIn(links', y) = CountIn(links, y)
                                  + (IF y = r.target THEN 1 ELSE 0)
  BY <1>1, <1>3, <1>4, Counting
<1>6. TypeOK'
  <2>1. routes' \in [Vrf -> [Prefix -> Route \cup {None}]]
    BY <1>1, <1>2, <1>3, RouteTyped
  <2> QED BY <1>1, <1>2, <1>5, <2>1 DEF TypeOK, Links
<1>7. Installed(r) /\ ~Installed(routes[v][p])
  BY <1>1, <1>3 DEF Installed, Creatable
<1>8. ASSUME NEW y \in Target
      PROVE  Count(y)' = Count(y) + (IF Forwards(r, y) THEN 1 ELSE 0)
                               - (IF Forwards(routes[v][p], y) THEN 1 ELSE 0)
  <2>1. ~Forwards(routes[v][p], y) /\ (Forwards(r, y) <=> y = r.target)
    BY <1>7 DEF Forwards
  <2>2. Count(y)' = Count(y) + (IF y = r.target THEN 1 ELSE 0) /\ Count(y) \in Nat
    BY <1>2, <1>5, CountIsCountIn, UsersFinite
  <2> QED BY <2>1, <2>2
<1>9. Conserved
  BY <1>1, <1>2, <1>5, <1>7, <1>8, RouteConserved
<1>10. CountsCover' /\ MembersLinked'
  BY <1>1, <1>2, <1>5, <1>6, <1>9, RouteStep
<1>11. Routers'
  BY <1>1, <1>2, <1>3, RoutersStep
<1>12. Undisturbed'
  <2>1. ASSUME ~raced'  PROVE Undisturbed'
    BY <1>1, <1>2, <1>3, <2>1, DefaultStep
  <2> QED BY <2>1 DEF Undisturbed
<1> QED BY <1>6, <1>9, <1>10, <1>11, <1>12 DEF IInv

(* A freed node is not used while nothing races.                           *)
LEMMA RouteCreateStaleStep ==
  ASSUME IInv, NEW v \in Vrf, NEW a \in Action, RouteCreateStale(v, a)
  PROVE  IInv' /\ Conserved
<1>1. /\ UNCHANGED <<vrs, routes, nodes, groups, links, members, restore>>
      /\ Creatable(v, Default) /\ wild' = TRUE
      /\ ~Given(Parsed(NewNode(v, Default), None, a).target)
      /\ raced' = (raced \/ Pending(v) # {})
  BY DEF RouteCreateStale
<1>2. TypeOK /\ CountsCover /\ MembersLinked /\ Routers /\ Undisturbed
  BY DEF IInv
<1>3. TypeOK' /\ MembersLinked' /\ Routers'
  <2>1. TypeOK'
    BY <1>1, <1>2 DEF TypeOK
  <2>2. MembersLinked'
    BY <1>1, <1>2, MembersStep
  <2>3. Routers'
    BY <1>1, <1>2 DEF Routers
  <2> QED BY <2>1, <2>2, <2>3
<1>4. \A x : RoutesTo(x)' = RoutesTo(x)
  BY <1>1 DEF RoutesTo
<1>5. Conserved /\ \A x \in Target : Users(x)' = Users(x)
  BY <1>1, <1>2, <1>4, SameConserved
<1>6. CountsCover'
  <2>1. Covered'
    BY <1>2, <1>3, <1>5, CoveredStep
  <2>2. UsedLive'
    <3>1. \A x : Live(x)' = Live(x)
      BY <1>1, LiveStep
    <3> QED BY <1>2, <1>5, <3>1, CoverParts, UsedLiveStep
  <2>3. RoutesTo(Stale)' = {} /\ RifCounts'
    BY <1>1, <1>2, <1>4, CoverParts, RifStep
  <2> QED BY <2>1, <2>2, <2>3, CoverPartsNext
<1>7. ASSUME ~raced'  PROVE FALSE
  <2>1. /\ ~raced /\ Pending(v) = {} /\ v \in vrs
        /\ routes[v][Default] # None /\ ~routes[v][Default].hw
    BY <1>1, <1>2, <1>7 DEF Creatable, Routers
  <2>2. NewNode(v, Default) = EmptyDefault
    BY <1>2, <2>1 DEF NewNode, Undisturbed
  <2> QED BY <1>1, <2>2 DEF Parsed, EmptyDefault, Given
<1> QED BY <1>3, <1>5, <1>6, <1>7 DEF IInv, Undisturbed

(* A default route whose creation fails is written, but is not in the NPU. *)
LEMMA DefaultCreateFailStep ==
  ASSUME IInv, NEW t \in Thread, NEW v \in Vrf, NEW x \in Target \cup {None},
         NEW a \in Action, DefaultCreateFail(t, v, x, a)
  PROVE  IInv' /\ Conserved
<1> DEFINE r == [Parsed(routes[v][Default], x, a) EXCEPT !.hw = FALSE]
           s == [vr |-> v, old |-> routes[v][Default], freed |-> FALSE]
<1>1. /\ routes' = [routes EXCEPT ![v][Default] = r]
      /\ restore' = [restore EXCEPT ![t] = s]
      /\ raced' = (raced \/ Pending(v) # {})
      /\ UNCHANGED <<vrs, nodes, groups, links, members, wild>>
      /\ Creatable(v, Default) /\ restore[t] = None /\ v \in vrs /\ Default \in Prefix
  BY RouterAssumption DEF DefaultCreateFail, Creatable
<1>2. TypeOK /\ CountsCover /\ MembersLinked /\ Routers /\ Undisturbed
  BY DEF IInv
<1>3. routes[v][Default] \in Route /\ ~routes[v][Default].hw
  BY <1>1, <1>2 DEF Creatable, Routers, TypeOK
<1>4. r \in Route /\ ~r.hw /\ r # None /\ ~Installed(r)
  <2>1. r \in Route /\ ~r.hw
    BY <1>3 DEF Route, Parsed
  <2> QED BY <2>1, NoneAssumption DEF Installed
<1>5. s \in Saved /\ s # None /\ s.vr = v /\ s.old = routes[v][Default] /\ ~s.freed
  <2>1. s \in Saved
    BY <1>3 DEF Saved
  <2> QED BY <2>1, NoneAssumption
<1> HIDE DEF r, s
<1>6. TypeOK'
  <2>1. routes' \in [Vrf -> [Prefix -> Route \cup {None}]]
    BY <1>1, <1>2, <1>4, RouteTyped
  <2> QED BY <1>1, <1>2, <1>5, <2>1 DEF TypeOK
<1>7. Conserved
  BY <1>1, <1>2, <1>4, DropConserved
<1>8. CountsCover' /\ MembersLinked'
  BY <1>1, <1>2, <1>4, <1>6, <1>7, RouteStep
<1>9. \A q \in Vrf, d \in Prefix :
        routes'[q][d] = IF q = v /\ d = Default THEN r ELSE routes[q][d]
  BY <1>1, <1>2 DEF TypeOK
<1>10. \A u \in Thread : restore'[u] = IF u = t THEN s ELSE restore[u]
  BY <1>1, <1>2 DEF TypeOK
<1>11. vrs \subseteq Vrf
  BY <1>2 DEF TypeOK
<1>12. Routers'
  <2>1. \A q \in vrs' : routes'[q][Default] # None
    BY <1>1, <1>2, <1>4, <1>9, <1>11 DEF Routers
  <2>2. \A q \in Vrf \ vrs' : \A d \in Prefix : routes'[q][d] = None
    BY <1>1, <1>2, <1>9 DEF Routers
  <2>3. \A u \in Thread : restore'[u] # None =>
          /\ ~restore'[u].old.hw
          /\ ~restore'[u].freed => restore'[u].vr \in vrs'
    BY <1>1, <1>2, <1>3, <1>5, <1>10 DEF Routers
  <2> QED BY <2>1, <2>2, <2>3 DEF Routers
<1>13. ASSUME ~raced'  PROVE Undisturbed'
  <2>1. ~raced /\ Pending(v) = {} /\ ~wild'
    BY <1>1, <1>2, <1>13 DEF Undisturbed
  <2>2. routes[v][Default] = EmptyDefault
    BY <1>1, <1>2, <1>3, <2>1 DEF Undisturbed
  <2>3. \A u \in Thread : u # t /\ restore[u] # None =>
          restore[u].vr # v /\ restore[u].vr \in Vrf
    BY <1>2, <2>1 DEF Pending, TypeOK, Saved
  <2>4. Pending(v)' = {t} /\ \A q : q # v => Pending(q)' = Pending(q)
    BY <1>1, <1>5, <1>10, <2>3 DEF Pending
  <2>5. ASSUME NEW u \in Thread, restore'[u] # None
        PROVE  /\ restore'[u].old = EmptyDefault
               /\ ~restore'[u].freed
               /\ ~routes'[restore'[u].vr][Default].hw
               /\ Pending(restore[u].vr)' = {u}
    <3>1. CASE u = t
      BY <1>1, <1>4, <1>5, <1>9, <1>10, <2>2, <2>4, <3>1
    <3>2. CASE u # t
      <4>1. /\ restore'[u] = restore[u] /\ restore[u].vr # v /\ restore[u].vr \in Vrf
            /\ restore[u] # None
        BY <1>10, <2>3, <2>5, <3>2
      <4>2. routes'[restore[u].vr][Default] = routes[restore[u].vr][Default]
        BY <1>1, <1>9, <4>1
      <4> QED BY <1>2, <2>1, <2>4, <4>1, <4>2 DEF Undisturbed
    <3> QED BY <3>1, <3>2
  <2>6. ASSUME NEW q \in vrs, Pending(q)' = {}, ~routes'[q][Default].hw
        PROVE  routes'[q][Default] = EmptyDefault
    <3>1. q # v /\ q \in Vrf
      BY <1>11, <2>4, <2>6
    <3>2. routes'[q][Default] = routes[q][Default] /\ Pending(q)' = Pending(q)
      BY <1>1, <1>9, <2>4, <3>1
    <3> QED BY <1>2, <2>1, <2>6, <3>2 DEF Undisturbed
  <2> QED BY <1>1, <2>1, <2>5, <2>6 DEF Undisturbed
<1>14. Undisturbed'
  BY <1>13 DEF Undisturbed
<1> QED BY <1>6, <1>7, <1>8, <1>12, <1>14 DEF IInv

(* The content is copied back after the lock is released.  If the route    *)
(* was created in the meantime, it is dropped from the table and its count *)
(* is lost.                                                                *)
LEMMA RestoreDefaultStep ==
  ASSUME IInv, NEW t \in Thread, RestoreDefault(t)
  PROVE  IInv' /\ Conserved
<1>0. PICK v : v = restore[t].vr
  OBVIOUS
<1>1. TypeOK /\ CountsCover /\ MembersLinked /\ Routers /\ Undisturbed
  BY DEF IInv
<1>2. /\ restore[t] \in Saved /\ v \in Vrf /\ restore[t].old \in Route
      /\ ~restore[t].old.hw /\ Default \in Prefix
      /\ restore' = [restore EXCEPT ![t] = None]
      /\ UNCHANGED <<vrs, nodes, groups, links, members, raced>>
  BY <1>0, <1>1, RouterAssumption DEF RestoreDefault, TypeOK, Saved, Routers
<1>3. \A u \in Thread : restore'[u] = IF u = t THEN None ELSE restore[u]
  BY <1>1, <1>2 DEF TypeOK
<1>4. \A u \in Thread : restore'[u] # None =>
        /\ ~restore'[u].old.hw
        /\ ~restore'[u].freed => restore'[u].vr \in vrs'
  BY <1>1, <1>2, <1>3 DEF Routers
<1>5. restore' \in [Thread -> Saved \cup {None}]
  BY <1>1, <1>2 DEF TypeOK
<1>6. CASE restore[t].freed
  <2>1. wild' = TRUE /\ UNCHANGED routes
    BY <1>6 DEF RestoreDefault
  <2>2. TypeOK'
    BY <1>1, <1>2, <1>5, <2>1 DEF TypeOK
  <2>3. MembersLinked'
    BY <1>1, <1>2, MembersStep
  <2>4. \A x : RoutesTo(x)' = RoutesTo(x)
    BY <2>1 DEF RoutesTo
  <2>5. Conserved /\ \A x \in Target : Users(x)' = Users(x)
    BY <1>1, <1>2, <2>4, SameConserved
  <2>6. CountsCover'
    <3>1. Covered'
      BY <1>1, <2>2, <2>5, CoveredStep
    <3>2. UsedLive'
      <4>1. \A x : Live(x)' = Live(x)
        BY <1>2, LiveStep
      <4> QED BY <1>1, <2>5, <4>1, CoverParts, UsedLiveStep
    <3>3. RoutesTo(Stale)' = {} /\ RifCounts'
      BY <1>1, <1>2, <2>4, CoverParts, RifStep
    <3> QED BY <3>1, <3>2, <3>3, CoverPartsNext
  <2>7. Routers'
    BY <1>1, <1>2, <1>4, <2>1 DEF Routers
  <2>8. raced'
    BY <1>1, <1>2, <1>6 DEF Undisturbed, RestoreDefault
  <2> QED BY <2>2, <2>3, <2>5, <2>6, <2>7, <2>8 DEF IInv, Undisturbed
<1>7. CASE ~restore[t].freed
  <2>1. /\ routes' = [routes EXCEPT ![v][Default] = restore[t].old] /\ UNCHANGED wild
        /\ restore[t] # None /\ v \in vrs
    BY <1>0, <1>1, <1>7 DEF RestoreDefault, Routers
  <2>2. ~Installed(restore[t].old) /\ restore[t].old # None
    BY <1>2, NoneAssumption DEF Installed
  <2>3. TypeOK'
    <3>1. routes' \in [Vrf -> [Prefix -> Route \cup {None}]]
      BY <1>1, <1>2, <2>1, RouteTyped
    <3> QED BY <1>1, <1>2, <1>5, <2>1, <3>1 DEF TypeOK
  <2>4. Conserved
    BY <1>1, <1>2, <2>1, <2>2, DropConserved
  <2>5. CountsCover' /\ MembersLinked'
    BY <1>1, <1>2, <2>1, <2>2, <2>3, <2>4, RouteStep
  <2>6. \A q \in Vrf, d \in Prefix :
          routes'[q][d] = IF q = v /\ d = Default THEN restore[t].old ELSE routes[q][d]
    BY <1>1, <1>2, <2>1 DEF TypeOK
  <2>7. vrs \subseteq Vrf
    BY <1>1 DEF TypeOK
  <2>8. Routers'
    <3>1. \A q \in vrs' : routes'[q][Default] # None
      BY <1>1, <1>2, <2>2, <2>6, <2>7 DEF Routers
    <3>2. \A q \in Vrf \ vrs' : \A d \in Prefix : routes'[q][d] = None
      BY <1>1, <1>2, <2>1, <2>6 DEF Routers
    <3> QED BY <1>4, <3>1, <3>2 DEF Routers
  <2>9. ASSUME ~raced'  PROVE Undisturbed'
    <3>1. ~raced /\ ~wild' /\ restore[t].old = EmptyDefault /\ Pending(v) = {t}
      BY <1>0, <1>1, <1>2, <2>1, <2>9 DEF Undisturbed
    <3>2. Pending(v)' = {} /\ \A q : q # v => Pending(q)' = Pending(q)
      BY <1>0, <1>2, <1>3, <3>1 DEF Pending
    <3>3. ASSUME NEW u \in Thread, restore'[u] # None
          PROVE  /\ restore'[u].old = EmptyDefault
                 /\ ~restore'[u].freed
                 /\ ~routes'[restore'[u].vr][Default].hw
                 /\ Pending(restore[u].vr)' = {u}
      <4>1. /\ u # t /\ restore'[u] = restore[u] /\ restore[u] # None
            /\ restore[u].vr \in Vrf
        BY <1>1, <1>3, <3>3 DEF TypeOK, Saved
      <4>2. restore[u].vr # v
        BY <3>1, <4>1 DEF Pending
      <4>3. routes'[restore[u].vr][Default] = routes[restore[u].vr][Default]
        BY <1>2, <2>6, <4>1, <4>2
      <4> QED BY <1>1, <3>1, <3>2, <4>1, <4>2, <4>3 DEF Undisturbed
    <3>4. ASSUME NEW q \in vrs, Pending(q)' = {}, ~routes'[q][Default].hw
          PROVE  routes'[q][Default] = EmptyDefault
      <4>1. q \in Vrf
        BY <2>7
      <4>2. CASE q = v
        BY <1>2, <2>6, <3>1, <4>1, <4>2
      <4>3. CASE q # v
        <5>1. routes'[q][Default] = routes[q][Default] /\ Pending(q)' = Pending(q)
          BY <1>2, <2>6, <3>2, <4>1, <4>3
        <5> QED BY <1>1, <3>1, <3>4, <5>1 DEF Undisturbed
      <4> QED BY <4>2, <4>3
    <3> QED BY <1>2, <3>1, <3>3, <3>4 DEF Undisturbed
  <2>10. Undisturbed'
    BY <2>9 DEF Undisturbed
  <2> QED BY <2>3, <2>4, <2>5, <2>8, <2>10 DEF IInv
<1> QED BY <1>6, <1>7

(* sai_fib_route_remove gives the count back.                              *)
LEMMA RouteRemoveStep ==
  ASSUME IInv, NEW v \in Vrf, NEW p \in Prefix, RouteRemove(v, p)
  PROVE  IInv' /\ Conserved
<1> DEFINE r == IF p = Default THEN EmptyDefault ELSE None
           x == routes[v][p].target
<1>1. /\ routes' = [routes EXCEPT ![v][p] = r]
      /\ links' = Decr(links, x)
      /\ raced' = (raced \/ (p = Default /\ Pending(v) # {}))
      /\ UNCHANGED <<vrs, nodes, groups, members, restore, wild>>
      /\ Installed(routes[v][p]) /\ routes[v][p] # None
  BY DEF RouteRemove, Installed
<1>2. TypeOK /\ CountsCover /\ MembersLinked /\ Routers /\ Undisturbed
  BY DEF IInv
<1>3. /\ r \in Route \cup {None} /\ ~Installed(r)
      /\ p = Default => r # None /\ r = EmptyDefault
  BY RouteTypes
<1>4. x \in Target \cup {None, Stale} /\ v \in vrs
  <2>1. routes[v][p] \in Route
    BY <1>1, <1>2 DEF TypeOK
  <2>2. v \in vrs
    BY <1>1, <1>2 DEF Routers
  <2> QED BY <2>1, <2>2 DEF Route
<1> HIDE DEF r
<1>5. links \in Links
  BY <1>2 DEF TypeOK, Links
<1>6. /\ links' \in Links
      /\ links'.weight = links.weight /\ links'.nhCount = links.nhCount
      /\ \A y \in Target : CountIn(links, x) > 0 \/ y # x =>
            CountIn(links', y) = CountIn(links, y) - (IF y = x THEN 1 ELSE 0)
  <2> HIDE DEF x
  <2> QED BY <1>1, <1>4, <1>5, Counting
<1>7. TypeOK'
  <2>1. routes' \in [Vrf -> [Prefix -> Route \cup {None}]]
    BY <1>1, <1>2, <1>3, RouteTyped
  <2> QED BY <1>1, <1>2, <1>6, <2>1 DEF TypeOK, Links
<1>8. ASSUME NEW y \in Target, Forwards(routes[v][p], y)  PROVE y = x /\ Count(y) > 0
  <2>1. <<v, p>> \in RoutesTo(y)
    BY <1>8 DEF RoutesTo
  <2>2. Cardinality(RoutesTo(y)) # 0
    BY <2>1, <1>2, UsersFinite, FS_EmptySet
  <2>3. /\ Cardinality(RoutesTo(y)) \in Nat /\ Cardinality(LinksOf(y)) \in Nat
        /\ Users(y) = Cardinality(RoutesTo(y)) + Cardinality(LinksOf(y))
        /\ Count(y) \in Nat /\ Count(y) >= Users(y)
    BY <1>2, UsersFinite DEF Users, CountsCover
  <2> QED BY <1>8, <2>2, <2>3 DEF Forwards
<1>9. ASSUME NEW y \in Target
      PROVE  Count(y)' = Count(y) + (IF Forwards(r, y) THEN 1 ELSE 0)
                               - (IF Forwards(routes[v][p], y) THEN 1 ELSE 0)
  <2>1. Count(y) \in Nat /\ Count(y) = CountIn(links, y) /\ Count(y)' = CountIn(links', y)
    BY <1>2, CountIsCountIn, UsersFinite
  <2>2. ~Forwards(r, y)
    BY <1>3 DEF Forwards
  <2>3. CASE Forwards(routes[v][p], y)
    BY <1>6, <1>8, <2>1, <2>2, <2>3
  <2>4. CASE ~Forwards(routes[v][p], y)
    <3>1. y # x
      BY <1>1, <2>4 DEF Forwards
    <3> QED BY <1>6, <2>1, <2>2, <2>4, <3>1
  <2> QED BY <2>3, <2>4
<1>10. \A y \in Target : Forwards(routes[v][p], y) => links' # links
  <2>1. ASSUME NEW y \in Target, Forwards(routes[v][p], y)  PROVE links' # links
    <3>1. CountIn(links, y) > 0 /\ y = x
      BY <1>8, <2>1, CountIsCountIn
    <3>3. CountIn(links', y) = CountIn(links, y) - (IF y = x THEN 1 ELSE 0)
      BY <1>6, <3>1
    <3>2. CountIn(links, y) \in Nat
      BY <1>2, CountIsCountIn, UsersFinite
    <3> QED BY <3>1, <3>2, <3>3
  <2> QED BY <2>1
<1>11. Conserved
  BY <1>1, <1>2, <1>6, <1>9, <1>10, RouteConserved
<1>12. CountsCover' /\ MembersLinked'
  BY <1>1, <1>2, <1>3, <1>6, <1>7, <1>11, RouteStep
<1>13. Routers'
  BY <1>1, <1>2, <1>3, <1>4, RoutersStep
<1>14. Undisturbed'
  <2>1. ASSUME ~raced'  PROVE Undisturbed'
    BY <1>1, <1>2, <1>3, <2>1, DefaultStep
  <2> QED BY <2>1 DEF Undisturbed
<1> QED BY <1>7, <1>11, <1>12, <1>13, <1>14 DEF IInv

(* A route keeps its object or takes one that exists.                      *)
LEMMA RouteSetStep ==
  ASSUME IInv, NEW v \in Vrf, NEW p \in Prefix, NEW r \in Route, r.hw,
         r.target = routes[v][p].target \/ Given(r.target), RouteSet(v, p, r)
  PROVE  IInv' /\ Conserved
<1> DEFINE x == routes[v][p].target
           y == r.target
<1>1. /\ routes' = [routes EXCEPT ![v][p] = r]
      /\ links' = IF y = x THEN links ELSE Incr(Decr(links, x), y)
      /\ raced' = (raced \/ (p = Default /\ Pending(v) # {}))
      /\ UNCHANGED <<vrs, nodes, groups, members, restore, wild>>
      /\ Installed(routes[v][p]) /\ routes[v][p] # None
  BY DEF RouteSet, Installed
<1>2. TypeOK /\ CountsCover /\ MembersLinked /\ Routers /\ Undisturbed
  BY DEF IInv
<1>3. Installed(r) /\ r # None
  BY NoneAssumption DEF Installed
<1>4. /\ x \in Target \cup {None, Stale} /\ y \in Target \cup {None, Stale}
      /\ v \in vrs /\ routes[v][p] \in Route
  <2>1. routes[v][p] \in Route
    BY <1>1, <1>2 DEF TypeOK
  <2>2. v \in vrs
    BY <1>1, <1>2 DEF Routers
  <2> QED BY <2>1, <2>2 DEF Route
<1>5. links \in Links
  BY <1>2 DEF TypeOK, Links
<1>6. \A z : /\ Forwards(r, z) <=> z = y
             /\ Forwards(routes[v][p], z) <=> z = x
  BY <1>1, <1>3 DEF Forwards
<1>7. x \in Target => Count(x) > 0 /\ Live(x)
  <2>1. SUFFICES ASSUME x \in Target  PROVE Count(x) > 0 /\ Live(x)
    OBVIOUS
  <2>2. <<v, p>> \in RoutesTo(x)
    BY <1>6 DEF RoutesTo
  <2>3. Cardinality(RoutesTo(x)) # 0
    BY <1>2, <2>2, UsersFinite, FS_EmptySet
  <2>4. /\ Cardinality(RoutesTo(x)) \in Nat /\ Cardinality(LinksOf(x)) \in Nat
        /\ Users(x) = Cardinality(RoutesTo(x)) + Cardinality(LinksOf(x))
        /\ Count(x) \in Nat /\ Count(x) >= Users(x)
    BY <1>2, <2>1, UsersFinite DEF Users, CountsCover
  <2>5. Users(x) > 0
    BY <2>3, <2>4
  <2> QED BY <1>2, <2>1, <2>4, <2>5 DEF CountsCover
<1>8. Given(y)
  <2>1. x # Stale
    <3>1. SUFFICES ASSUME x = Stale  PROVE FALSE
      OBVIOUS
    <3>2. <<v, p>> \in RoutesTo(Stale)
      BY <1>6, <3>1 DEF RoutesTo
    <3> QED BY <1>2, <3>2 DEF CountsCover
  <2> QED BY <1>4, <1>7, <2>1 DEF Given
<1>9. /\ links' \in Links
      /\ links'.weight = links.weight /\ links'.nhCount = links.nhCount
      /\ \A z \in Target : CountIn(links', z) = CountIn(links, z)
                              + (IF z = y THEN 1 ELSE 0) - (IF z = x THEN 1 ELSE 0)
  <2>1. \A z \in Target : CountIn(links, z) \in Nat
    BY <1>2, CountIsCountIn, UsersFinite
  <2>2. CASE y = x
    <3>1. links' = links
      BY <1>1, <2>2
    <3> QED BY <1>5, <2>1, <2>2, <3>1
  <2>3. CASE y # x
    <3> DEFINE D == Decr(links, x)
    <3>1. links' = Incr(D, y)
      BY <1>1, <2>3
    <3>2. \A z \in Target : CountIn(links, x) > 0 \/ z # x
      BY <1>7, CountIsCountIn
    <3> HIDE DEF x, y
    <3>3. /\ D \in Links /\ D.weight = links.weight /\ D.nhCount = links.nhCount
          /\ \A z \in Target : CountIn(D, z) = CountIn(links, z) - (IF z = x THEN 1 ELSE 0)
      BY <1>4, <1>5, <3>2, Counting
    <3> HIDE DEF D
    <3>4. /\ Incr(D, y) \in Links
          /\ Incr(D, y).weight = D.weight /\ Incr(D, y).nhCount = D.nhCount
          /\ \A z \in Target : CountIn(Incr(D, y), z) = CountIn(D, z)
                                                     + (IF z = y THEN 1 ELSE 0)
      BY <1>4, <3>3, Counting
    <3> QED BY <2>1, <3>1, <3>3, <3>4
  <2> QED BY <2>2, <2>3
<1>10. TypeOK'
  <2>1. routes' \in [Vrf -> [Prefix -> Route \cup {None}]]
    BY <1>1, <1>2, RouteTyped
  <2> QED BY <1>1, <1>2, <1>9, <2>1 DEF TypeOK, Links
<1>11. ASSUME NEW z \in Target
       PROVE  Count(z)' = Count(z) + (IF Forwards(r, z) THEN 1 ELSE 0)
                                - (IF Forwards(routes[v][p], z) THEN 1 ELSE 0)
  <2>1. Count(z) = CountIn(links, z) /\ Count(z)' = CountIn(links', z)
    BY CountIsCountIn
  <2>2. Count(z)' = Count(z) + (IF z = y THEN 1 ELSE 0) - (IF z = x THEN 1 ELSE 0)
    BY <1>9, <2>1
  <2> HIDE DEF x, y
  <2>3. /\ (IF Forwards(r, z) THEN 1 ELSE 0) = (IF z = y THEN 1 ELSE 0)
        /\ (IF Forwards(routes[v][p], z) THEN 1 ELSE 0) = (IF z = x THEN 1 ELSE 0)
    BY <1>6
  <2> QED BY <2>2, <2>3
<1>12. Conserved
  BY <1>1, <1>2, <1>3, <1>9, <1>11, RouteConserved
<1>13. CountsCover' /\ MembersLinked'
  BY <1>1, <1>2, <1>8, <1>9, <1>10, <1>12, RouteStep
<1>14. Routers'
  BY <1>1, <1>2, <1>3, <1>4, RoutersStep
<1>15. Undisturbed'
  <2>1. ASSUME ~raced'  PROVE Undisturbed'
    BY <1>1, <1>2, <2>1, DefaultStep
  <2> QED BY <2>1 DEF Undisturbed
<1> QED BY <1>10, <1>12, <1>13, <1>14, <1>15 DEF IInv

(* All handlers of routes.                                                 *)
LEMMA RouteNextStep ==
  ASSUME IInv, RouteNext
  PROVE  IInv' /\ Conserved
<1>1. ASSUME NEW v \in Vrf, NEW p \in Prefix, NEW x \in Target, RouteSetTarget(v, p, x)
      PROVE  IInv' /\ Conserved
  <2> DEFINE r == [routes[v][p] EXCEPT !.target = x]
  <2>1. RouteSet(v, p, r) /\ Live(x)
    BY <1>1 DEF RouteSetTarget
  <2>2. routes[v][p] \in Route /\ routes[v][p].hw
    BY <1>1 DEF IInv, TypeOK, RouteSetTarget, RouteSet
  <2>3. r \in Route /\ r.hw /\ r.target = x
    BY <2>2 DEF Route
  <2> HIDE DEF r
  <2> QED BY <2>1, <2>3, RouteSetStep DEF Given
<1>2. ASSUME NEW v \in Vrf, NEW p \in Prefix, NEW a \in Action, RouteSetAction(v, p, a)
      PROVE  IInv' /\ Conserved
  <2> DEFINE r == [routes[v][p] EXCEPT !.act = a]
  <2>1. RouteSet(v, p, r)
    BY <1>2 DEF RouteSetAction
  <2>2. routes[v][p] \in Route /\ routes[v][p].hw
    BY <1>2 DEF IInv, TypeOK, RouteSetAction, RouteSet
  <2>3. r \in Route /\ r.hw /\ r.target = routes[v][p].target
    BY <2>2 DEF Route
  <2> HIDE DEF r
  <2> QED BY <2>1, <2>3, RouteSetStep
<1> QED BY <1>1, <1>2, RouteRemoveStep, RouteCreateStep, RouteCreateStaleStep,
           DefaultCreateFailStep, RestoreDefaultStep DEF RouteNext

(* All handlers of virtual routers.                                        *)
LEMMA VrNextStep ==
  ASSUME IInv, VrNext
  PROVE  IInv' /\ Conserved
BY VrCreateStep, VrRemoveStep, VrRemoveRefusedStep DEF VrNext

---------------------------------------------------------------------------
(* Next hops and groups                                                    *)

(* An object that no route in the NPU forwards to is forgotten.            *)
LEMMA Forgotten ==
  ASSUME TypeOK, Routers, Undisturbed, CountsCover, NEW x \in Target, Users(x) = 0,
         Forget(x), UNCHANGED <<vrs, raced, wild>>
  PROVE  /\ routes' \in [Vrf -> [Prefix -> Route \cup {None}]]
         /\ restore' \in [Thread -> Saved \cup {None}]
         /\ \A y : y \in Target \/ y = Stale => RoutesTo(y)' = RoutesTo(y)
         /\ RoutesIn' = RoutesIn
         /\ Routers' /\ Undisturbed'
<1>1. \A v \in Vrf, p \in Prefix : routes'[v][p] = Dangle(routes[v][p], x)
  BY DEF Forget
<1>2. x # None /\ x # Stale /\ None \notin Route
  BY TargetAssumption, NoneAssumption DEF Target
<1>3. ASSUME NEW r \in Route \cup {None}
      PROVE  /\ Dangle(r, x) \in Route \cup {None}
             /\ Dangle(r, x) = None <=> r = None
             /\ r # None => Dangle(r, x) \in Route /\ Dangle(r, x).hw = r.hw
             /\ ~Forwards(r, x) => \A y : y \in Target \/ y = Stale =>
                    (Installed(Dangle(r, x)) => Dangle(r, x) = r)
             /\ r = EmptyDefault => Dangle(r, x) = r
  <2>1. CASE r # None /\ r.target = x
    <3>1. Dangle(r, x) = [r EXCEPT !.target = Stale] /\ r \in Route
      BY <2>1 DEF Dangle
    <3>2. Dangle(r, x) \in Route /\ Dangle(r, x).hw = r.hw
      BY <3>1 DEF Route
    <3>3. r # EmptyDefault
      BY <1>2, <2>1 DEF EmptyDefault
    <3> QED BY <1>2, <2>1, <3>2, <3>3 DEF Forwards, Installed
  <2>2. CASE ~(r # None /\ r.target = x)
    <3>1. Dangle(r, x) = r
      BY <2>2 DEF Dangle
    <3> QED BY <3>1
  <2> QED BY <2>1, <2>2
<1>4. routes' \in [Vrf -> [Prefix -> Route \cup {None}]]
  BY <1>3 DEF Forget, TypeOK
<1>5. ASSUME NEW v \in Vrf, NEW p \in Prefix  PROVE ~Forwards(routes[v][p], x)
  <2>1. /\ Cardinality(RoutesTo(x)) \in Nat /\ Cardinality(LinksOf(x)) \in Nat
        /\ Users(x) = Cardinality(RoutesTo(x)) + Cardinality(LinksOf(x))
    BY UsersFinite DEF Users
  <2>2. RoutesTo(x) = {}
    BY <2>1, UsersFinite, FS_EmptySet
  <2>3. Forwards(routes[v][p], x) => <<v, p>> \in RoutesTo(x)
    BY DEF RoutesTo
  <2> QED BY <2>2, <2>3
<1>6. ASSUME NEW y, y \in Target \/ y = Stale  PROVE RoutesTo(y)' = RoutesTo(y)
  <2>1. ASSUME NEW e \in Vrf \X Prefix
        PROVE  Forwards(routes[e[1]][e[2]], y)' <=> Forwards(routes[e[1]][e[2]], y)
    <3>1. e[1] \in Vrf /\ e[2] \in Prefix
      OBVIOUS
    <3> DEFINE r == routes[e[1]][e[2]]
    <3>2. r \in Route \cup {None} /\ ~Forwards(r, x)
      BY <1>5, <3>1 DEF TypeOK
    <3>3. routes'[e[1]][e[2]] = Dangle(r, x)
      BY <1>1, <3>1
    <3>4. /\ Installed(Dangle(r, x)) <=> Installed(r)
          /\ Installed(r) => Dangle(r, x) = r
      BY <1>2, <1>3, <1>6, <3>2 DEF Installed
    <3>5. Forwards(routes'[e[1]][e[2]], y) <=> Forwards(r, y)
      BY <3>3, <3>4 DEF Forwards
    <3> QED BY <3>5 DEF Forwards, Installed
  <2> QED BY <2>1 DEF RoutesTo
<1>7. \A t \in Thread : restore'[t] = IF restore[t] = None THEN None
                            ELSE [restore[t] EXCEPT !.old = Dangle(@, x)]
  BY DEF Forget
<1>8. ASSUME NEW t \in Thread
      PROVE  /\ restore'[t] \in Saved \cup {None}
             /\ restore'[t] = None <=> restore[t] = None
             /\ restore[t] # None =>
                  /\ restore'[t].vr = restore[t].vr /\ restore'[t].freed = restore[t].freed
                  /\ restore'[t].old.hw = restore[t].old.hw
                  /\ restore[t].old = EmptyDefault => restore'[t].old = EmptyDefault
                  /\ restore[t].vr \in Vrf
  <2>1. CASE restore[t] = None
    BY <1>7, <2>1
  <2>2. CASE restore[t] # None
    <3>1. restore[t] \in Saved /\ restore[t].old \in Route
      BY <2>2 DEF TypeOK, Saved
    <3>2. restore'[t] = [restore[t] EXCEPT !.old = Dangle(restore[t].old, x)]
      BY <1>7, <2>2
    <3>3. /\ Dangle(restore[t].old, x) \in Route
          /\ Dangle(restore[t].old, x).hw = restore[t].old.hw
          /\ restore[t].old = EmptyDefault => Dangle(restore[t].old, x) = EmptyDefault
      BY <1>2, <1>3, <3>1
    <3>4. /\ restore'[t] \in Saved /\ restore'[t].old = Dangle(restore[t].old, x)
          /\ restore'[t].vr = restore[t].vr /\ restore'[t].freed = restore[t].freed
          /\ restore[t].vr \in Vrf
      BY <3>1, <3>2, <3>3 DEF Saved
    <3> QED BY <2>2, <3>3, <3>4, NoneAssumption
  <2> QED BY <2>1, <2>2
<1>9. restore' \in [Thread -> Saved \cup {None}]
  BY <1>8 DEF Forget
<1>10. vrs \subseteq Vrf /\ Default \in Prefix
  BY RouterAssumption DEF TypeOK
<1>11. ASSUME NEW v \in Vrf, NEW p \in Prefix
       PROVE  /\ routes'[v][p] = None <=> routes[v][p] = None
              /\ routes[v][p] # None => routes'[v][p].hw = routes[v][p].hw
              /\ routes[v][p] = EmptyDefault => routes'[v][p] = EmptyDefault
  <2>1. routes[v][p] \in Route \cup {None}
    BY DEF TypeOK
  <2> QED BY <1>1, <1>3, <2>1
<1>15. /\ \A v \in Vrf, p \in Prefix : routes[v][p] = None => routes'[v][p] = None
       /\ \A v \in Vrf : routes[v][Default] # None => routes'[v][Default] # None
       /\ \A v \in Vrf : routes[v][Default] # None =>
                           routes'[v][Default].hw = routes[v][Default].hw
       /\ \A v \in Vrf : routes[v][Default] = EmptyDefault =>
                           routes'[v][Default] = EmptyDefault
  BY <1>10, <1>11
<1>12. Routers'
  <2>1. ASSUME NEW v \in vrs  PROVE routes'[v][Default] # None
    <3>1. v \in Vrf /\ routes[v][Default] # None
      BY <1>10 DEF Routers
    <3> QED BY <1>15, <3>1
  <2>2. ASSUME NEW v \in Vrf \ vrs, NEW p \in Prefix  PROVE routes'[v][p] = None
    BY <1>15 DEF Routers
  <2>3. ASSUME NEW t \in Thread, restore'[t] # None
        PROVE  ~restore'[t].old.hw /\ (~restore'[t].freed => restore'[t].vr \in vrs)
    BY <1>8, <2>3 DEF Routers
  <2> QED BY <2>1, <2>2, <2>3 DEF Routers
<1>13. ASSUME ~raced  PROVE Undisturbed'
  <2>1. \A q : Pending(q)' = Pending(q)
    BY <1>8 DEF Pending
  <2>2. ASSUME NEW t \in Thread, restore'[t] # None
        PROVE  /\ restore'[t].old = EmptyDefault
               /\ ~restore'[t].freed
               /\ ~routes'[restore'[t].vr][Default].hw
               /\ Pending(restore[t].vr)' = {t}
    <3>1. /\ restore[t] # None /\ restore'[t].vr = restore[t].vr
          /\ restore[t].vr \in vrs /\ restore[t].vr \in Vrf
      BY <1>8, <1>13, <2>2 DEF Routers, Undisturbed
    <3>2. routes[restore[t].vr][Default] # None
      BY <3>1 DEF Routers
    <3>3. /\ restore[t].old = EmptyDefault /\ ~restore[t].freed
          /\ ~routes[restore[t].vr][Default].hw
          /\ Pending(restore[t].vr) = {t}
      BY <1>13, <3>1 DEF Undisturbed
    <3>4. restore'[t].old = EmptyDefault /\ ~restore'[t].freed
      BY <1>8, <3>1, <3>3
    <3>5. ~routes'[restore'[t].vr][Default].hw
      BY <1>8, <1>15, <3>1, <3>2, <3>3
    <3>6. Pending(restore[t].vr)' = {t}
      <4>1. \A u \in Thread : /\ restore'[u] # None <=> restore[u] # None
                              /\ restore[u] # None => restore'[u].vr = restore[u].vr
        BY <1>8
      <4> QED BY <3>1, <3>3, <4>1 DEF Pending
    <3> QED BY <3>4, <3>5, <3>6
  <2>3. ASSUME NEW q \in vrs, Pending(q)' = {}, ~routes'[q][Default].hw
        PROVE  routes'[q][Default] = EmptyDefault
    <3>1. routes[q][Default] # None /\ q \in Vrf
      BY <1>10 DEF Routers
    <3>2. ~routes[q][Default].hw /\ Pending(q) = {}
      <4>1. routes'[q][Default].hw = routes[q][Default].hw
        BY <1>15, <3>1
      <4> QED BY <2>1, <2>3, <4>1
    <3>3. routes[q][Default] = EmptyDefault
      BY <1>13, <3>2 DEF Undisturbed
    <3> QED BY <1>15, <3>1, <3>3
  <2>4. ~wild'
    BY <1>13 DEF Undisturbed
  <2>5. \A t \in Thread : restore'[t] # None => restore'[t].vr = restore[t].vr
    BY <1>8
  <2> QED BY <2>2, <2>3, <2>4, <2>5 DEF Undisturbed
<1>14. Undisturbed'
  BY <1>13 DEF Undisturbed
<1>16. RoutesIn' = RoutesIn
  <2>1. ASSUME NEW e \in Vrf \X Prefix
        PROVE  Installed(routes[e[1]][e[2]])' <=> Installed(routes[e[1]][e[2]])
    <3>1. e[1] \in Vrf /\ e[2] \in Prefix
      OBVIOUS
    <3>2. Installed(routes'[e[1]][e[2]]) <=> Installed(routes[e[1]][e[2]])
      BY <1>11, <3>1 DEF Installed
    <3> QED BY <3>2 DEF Installed
  <2> QED BY <2>1 DEF RoutesIn
<1> QED BY <1>4, <1>6, <1>9, <1>12, <1>14, <1>16

(* Nothing that counts changes; an object that goes has no users.          *)
LEMMA ObjectStep ==
  ASSUME IInv, UNCHANGED <<vrs, links, members, raced, wild>>, groups' \subseteq Group,
         nodes' \in NodeType, RifCounts',
         routes' \in [Vrf -> [Prefix -> Route \cup {None}]],
         restore' \in [Thread -> Saved \cup {None}],
         \A y : y \in Target \/ y = Stale => RoutesTo(y)' = RoutesTo(y),
         Routers', Undisturbed',
         \A x \in Target : Live(x) /\ ~Live(x)' => Users(x) = 0
  PROVE  IInv' /\ Conserved
<1>1. TypeOK /\ CountsCover /\ MembersLinked
  BY DEF IInv
<1>2. TypeOK'
  BY <1>1 DEF TypeOK, NodeType
<1>3. Conserved /\ \A x \in Target : Users(x)' = Users(x)
  BY <1>1, SameConserved
<1>4. Covered'
  BY <1>1, <1>2, <1>3, CoveredStep
<1>5. UsedLive'
  BY <1>1, <1>3, CoverParts, UsedLiveStep
<1>6. RoutesTo(Stale)' = {}
  BY <1>1 DEF CountsCover
<1>7. MembersLinked'
  BY <1>1, MembersStep
<1> QED BY <1>2, <1>3, <1>4, <1>5, <1>6, <1>7, CoverPartsNext DEF IInv

(* A step that changes no route keeps all that is said of routes.          *)
LEMMA RoutesKept ==
  ASSUME IInv, UNCHANGED <<vrs, routes, restore, raced, wild>>
  PROVE  /\ routes' \in [Vrf -> [Prefix -> Route \cup {None}]]
         /\ restore' \in [Thread -> Saved \cup {None}]
         /\ \A y : y \in Target \/ y = Stale => RoutesTo(y)' = RoutesTo(y)
         /\ Routers' /\ Undisturbed'
<1>1. TypeOK /\ Routers /\ Undisturbed
  BY DEF IInv
<1>2. \A y : RoutesTo(y)' = RoutesTo(y)
  BY DEF RoutesTo
<1>3. Routers'
  BY <1>1 DEF Routers
<1>4. \A q : Pending(q)' = Pending(q)
  BY DEF Pending
<1>5. Undisturbed'
  BY <1>1, <1>4 DEF Undisturbed
<1> QED BY <1>1, <1>2, <1>3, <1>5 DEF TypeOK

(* An object with count 0 has no users.                                    *)
LEMMA Unused ==
  ASSUME IInv, NEW x \in Target, Count(x) = 0
  PROVE  Users(x) = 0
<1>1. Count(x) >= Users(x) /\ Users(x) \in Nat
  BY UsersFinite DEF IInv, CountsCover
<1> QED BY <1>1

(* All handlers of next hops and neighbours: a next hop is removed with no *)
(* route and no group on it, so Forget makes no pointer of a route in the  *)
(* NPU stale.                                                              *)
LEMMA NhNextStep ==
  ASSUME IInv, NhNext
  PROVE  IInv' /\ Conserved
<1>1. PICK n \in Nh : \/ NhCreate(n) \/ NhCreateFail(n) \/ NhRemove(n)
                      \/ NbrCreate(n) \/ NbrCreateFail(n) \/ NbrRemove(n)
  BY DEF NhNext
<1>2. /\ nodes \in NodeType /\ RifCounts /\ groups \subseteq Group
      /\ {"nextHop", "neighbor"} \subseteq Owner
  BY CoverParts DEF IInv, TypeOK, NodeType, Owner
<1>3. /\ n \in Target /\ Count(n) = links.nhRef[n]
      /\ \A x \in Target : x \in Nh \/ x \in Group
  BY DEF Target, Count
<1>4. \A x \in Target : groups' = groups /\ Live(x) /\ ~Live(x)' =>
        x \in Nh /\ "nextHop" \in nodes.owners[x] /\ "nextHop" \notin nodes'.owners[x]
  BY DEF Live, IsNextHop
<1>5. ASSUME NhCreate(n) \/ NbrCreate(n)  PROVE IInv' /\ Conserved
  <2>1. UNCHANGED <<vrs, routes, groups, links, members, restore, raced, wild>>
    BY <1>5 DEF NhCreate, NbrCreate
  <2>2. PICK o \in Owner : nodes' = Own(nodes, n, o)
    BY <1>2, <1>5 DEF NhCreate, NbrCreate
  <2>3. /\ nodes' \in NodeType /\ RifCounts'
        /\ \A m \in Nh : nodes.owners[m] \subseteq nodes'.owners[m]
    BY <1>2, <2>2, OwnEffect
  <2>4. \A x \in Target : Live(x) /\ ~Live(x)' => Users(x) = 0
    BY <1>4, <2>1, <2>3
  <2> QED BY <1>2, <2>1, <2>3, <2>4, RoutesKept, ObjectStep
<1>6. ASSUME NhCreateFail(n) \/ NbrCreateFail(n)  PROVE IInv' /\ Conserved
  <2>1. UNCHANGED <<vrs, routes, groups, links, members, restore, raced, wild>>
    BY <1>6 DEF NhCreateFail, NbrCreateFail
  <2>2. PICK o \in Owner : o \notin nodes.owners[n] /\ nodes' = Disown(Own(nodes, n, o), n, o)
    BY <1>2, <1>6 DEF NhCreateFail, NbrCreateFail, IsNextHop
  <2>3. nodes' = nodes
    BY <1>2, <2>2, OwnUndone
  <2>4. nodes' \in NodeType /\ RifCounts'
    BY <1>2, <2>3, RifStep
  <2>5. \A x \in Target : Live(x) /\ ~Live(x)' => Users(x) = 0
    BY <1>4, <2>1, <2>3
  <2> QED BY <1>2, <2>1, <2>4, <2>5, RoutesKept, ObjectStep
<1>7. ASSUME NbrRemove(n)  PROVE IInv' /\ Conserved
  <2>1. /\ UNCHANGED <<vrs, routes, groups, links, members, restore, raced, wild>>
        /\ "neighbor" \in nodes.owners[n] /\ nodes' = Disown(nodes, n, "neighbor")
    BY <1>7 DEF NbrRemove
  <2>2. /\ nodes' \in NodeType /\ RifCounts'
        /\ \A m \in Nh : nodes'.owners[m] = IF m = n THEN nodes.owners[n] \ {"neighbor"}
                                                     ELSE nodes.owners[m]
    BY <1>2, <2>1, DisownEffect
  <2>3. \A x \in Target : Live(x) /\ ~Live(x)' => Users(x) = 0
    BY <1>4, <2>1, <2>2
  <2> QED BY <1>2, <2>1, <2>2, <2>3, RoutesKept, ObjectStep
<1>8. ASSUME NhRemove(n)  PROVE IInv' /\ Conserved
  <2>1. /\ UNCHANGED <<vrs, groups, links, members, raced, wild>>
        /\ "nextHop" \in nodes.owners[n] /\ nodes' = Disown(nodes, n, "nextHop")
        /\ links.nhRef[n] = 0 /\ FreedWith(n)
    BY <1>8 DEF NhRemove, IsNextHop
  <2>2. /\ nodes' \in NodeType /\ RifCounts'
        /\ \A m \in Nh : nodes'.owners[m] = IF m = n THEN nodes.owners[n] \ {"nextHop"}
                                                     ELSE nodes.owners[m]
    BY <1>2, <2>1, DisownEffect
  <2>3. Users(n) = 0
    BY <1>3, <2>1, Unused
  <2>4. \A x \in Target : Live(x) /\ ~Live(x)' => Users(x) = 0
    BY <1>4, <2>1, <2>2, <2>3
  <2>5. CASE Forget(n)
    <3>1. /\ routes' \in [Vrf -> [Prefix -> Route \cup {None}]]
          /\ restore' \in [Thread -> Saved \cup {None}]
          /\ \A y : y \in Target \/ y = Stale => RoutesTo(y)' = RoutesTo(y)
          /\ Routers' /\ Undisturbed'
      BY <1>3, <2>1, <2>3, <2>5, Forgotten DEF IInv
    <3> QED BY <1>2, <2>1, <2>2, <2>4, <3>1, ObjectStep
  <2>6. CASE UNCHANGED <<routes, restore>>
    BY <1>2, <2>1, <2>2, <2>4, <2>6, RoutesKept, ObjectStep
  <2> QED BY <2>1, <2>5, <2>6 DEF FreedWith
<1> QED BY <1>1, <1>5, <1>6, <1>7, <1>8

(* A next hop joins a group or leaves it.                                  *)
LEMMA LinkStep ==
  ASSUME IInv, UNCHANGED <<vrs, routes, nodes, groups, restore, raced, wild>>,
         links' \in Links, members' \in [Member -> (Group \X Nh) \cup {None}],
         MembersLinked', Conserved,
         \A x \in Target : Users(x)' > 0 => Users(x) > 0 \/ Live(x)
  PROVE  IInv'
<1>1. TypeOK /\ CountsCover
  BY DEF IInv
<1>2. TypeOK'
  BY <1>1 DEF TypeOK, Links
<1>3. Routers' /\ Undisturbed'
  BY RoutesKept
<1>4. Covered'
  BY <1>1, <1>2, CoveredStep
<1>5. UsedLive'
  <2>1. \A x : Live(x)' = Live(x)
    BY LiveStep
  <2> QED BY <1>1, <2>1, CoverParts, UsedLiveStep
<1>6. RoutesTo(Stale)' = {} /\ RifCounts'
  BY <1>1, CoverParts, RifStep DEF RoutesTo
<1> QED BY <1>2, <1>3, <1>4, <1>5, <1>6, CoverPartsNext DEF IInv

(* The ids of a link can be counted.                                       *)
LEMMA IdsFinite ==
  \A g, n : IsFiniteSet(IdsOf(g, n)) /\ Cardinality(IdsOf(g, n)) \in Nat
<1> SUFFICES ASSUME NEW g, NEW n
             PROVE  IsFiniteSet(IdsOf(g, n)) /\ Cardinality(IdsOf(g, n)) \in Nat
  OBVIOUS
<1>1. IdsOf(g, n) \in SUBSET Member
  BY DEF IdsOf
<1>2. IsFiniteSet(IdsOf(g, n))
  BY <1>1, Finite, FS_Subset
<1> QED BY <1>2, FS_CardinalityType

(* At most one more id, for the link that is added.                        *)
LEMMA AddStep ==
  ASSUME IInv, NEW g \in Group, NEW n \in Nh, Joinable(g, n),
         links' = AddInLists(links, g, n),
         UNCHANGED <<vrs, routes, nodes, groups, restore, raced, wild>>,
         members' \in [Member -> (Group \X Nh) \cup {None}],
         Cardinality(IdsOf(g, n)') <= Cardinality(IdsOf(g, n)) + 1,
         \A h \in Group, q \in Nh : <<h, q>> # <<g, n>> => IdsOf(h, q)' = IdsOf(h, q)
  PROVE  IInv' /\ Conserved
<1>1. TypeOK /\ CountsCover /\ MembersLinked /\ links \in Links
  BY DEF IInv, TypeOK, Links
<1>2. /\ links' \in Links
      /\ links'.weight = [links.weight EXCEPT ![g][n] = @ + 1]
      /\ links'.nhCount = [links.nhCount EXCEPT ![g] = @ + 1]
  BY <1>1, Adding DEF OneMore
<1>3. /\ Conserved
      /\ \A x \in Target : Users(x)' = Users(x) + (IF x \in {g, n} THEN 1 ELSE 0)
      /\ Cardinality(Entries(g)') = Cardinality(Entries(g)) + 1
      /\ \A h \in Group \ {g} : Cardinality(Entries(h)') = Cardinality(Entries(h))
  BY <1>1, AddConserved
<1>4. Live(g) /\ Live(n) /\ links.nhCount[g] + 1 <= MaxPaths
  BY DEF Joinable, Live
<1>5. ASSUME NEW x \in Target, Users(x)' > 0  PROVE Users(x) > 0 \/ Live(x)
  <2>1. CASE x \in {g, n}
    BY <1>4, <2>1
  <2>2. CASE x \notin {g, n}
    <3>1. Users(x) \in Nat
      BY <1>1, UsersFinite
    <3>2. Users(x)' = Users(x) + 0
      BY <1>3, <2>2
    <3> QED BY <1>5, <3>1, <3>2
  <2> QED BY <2>1, <2>2
<1>6. ASSUME NEW h \in Group
      PROVE  /\ \A q \in Nh : Cardinality(IdsOf(h, q)') <= links'.weight[h][q]
             /\ links'.nhCount[h] = Cardinality(Entries(h)')
             /\ links'.nhCount[h] <= MaxPaths
  <2>1. /\ \A q \in Nh : Cardinality(IdsOf(h, q)) <= links.weight[h][q]
        /\ links.nhCount[h] = Cardinality(Entries(h))
        /\ links.nhCount[h] <= MaxPaths
        /\ links.nhCount[h] \in Nat
    BY <1>1 DEF MembersLinked, Links
  <2>2. ASSUME NEW q \in Nh  PROVE Cardinality(IdsOf(h, q)') <= links'.weight[h][q]
    <3>1. Cardinality(IdsOf(h, q)) \in Nat /\ links.weight[h][q] \in Nat
      BY <1>1, IdsFinite DEF Links
    <3>2. CASE h = g /\ q = n
      <4>1. links'.weight[h][q] = links.weight[h][q] + 1
        BY <1>1, <1>2, <3>2 DEF Links
      <4>2. (Cardinality(IdsOf(g, n)') <= Cardinality(IdsOf(g, n)) + 1)
        OBVIOUS
      <4>3. Cardinality(IdsOf(h, q)') <= Cardinality(IdsOf(h, q)) + 1
        BY <3>2, <4>2
      <4>4. IdsOf(h, q)' \in SUBSET Member
        BY DEF IdsOf
      <4>5. Cardinality(IdsOf(h, q)') \in Nat
        BY <4>4, Finite, FS_Subset, FS_CardinalityType
      <4>6. Cardinality(IdsOf(h, q)) <= links.weight[h][q]
        BY <2>1
      <4> QED BY <3>1, <4>1, <4>3, <4>5, <4>6
    <3>3. CASE ~(h = g /\ q = n)
      <4>1. links'.weight[h][q] = links.weight[h][q]
        BY <1>1, <1>2, <3>3 DEF Links
      <4>2. IdsOf(h, q)' = IdsOf(h, q)
        BY <3>3
      <4> QED BY <2>1, <4>1, <4>2
    <3> QED BY <3>2, <3>3
  <2>3. CASE h = g
    <3>1. links'.nhCount[h] = links.nhCount[h] + 1
      BY <1>1, <1>2, <2>3 DEF Links
    <3> QED BY <1>3, <1>4, <2>1, <2>2, <2>3, <3>1
  <2>4. CASE h # g
    <3>1. links'.nhCount[h] = links.nhCount[h]
      BY <1>1, <1>2, <2>4 DEF Links
    <3>2. Cardinality(Entries(h)') = Cardinality(Entries(h))
      BY <1>3, <2>4
    <3> QED BY <2>1, <2>2, <3>1, <3>2
  <2> QED BY <2>3, <2>4
<1>7. MembersLinked'
  BY <1>6 DEF MembersLinked
<1> QED BY <1>2, <1>3, <1>5, <1>7, LinkStep

(* sai_fib_next_hop_group_member_remove unlinks what the id names.         *)
LEMMA MemberRemoveStep ==
  ASSUME IInv, NEW m \in Member, MemberRemove(m)
  PROVE  IInv' /\ Conserved
<1>1. TypeOK /\ CountsCover /\ MembersLinked /\ links \in Links
  BY DEF IInv, TypeOK, Links
<1>2. PICK g \in Group, n \in Nh : members[m] = <<g, n>>
  BY <1>1 DEF MemberRemove, TypeOK
<1>3. /\ links' = RemoveFromLists(links, g, n)
      /\ members' = [members EXCEPT ![m] = None]
      /\ UNCHANGED <<vrs, routes, nodes, groups, restore, raced, wild>>
      /\ links.weight[g][n] > 0
  BY <1>2 DEF MemberRemove
<1>4. links.nhCount[g] = Cardinality(Entries(g))
  BY <1>1 DEF MembersLinked
<1>5. /\ Conserved
      /\ links' \in Links
      /\ links'.weight = [links.weight EXCEPT ![g][n] = @ - 1]
      /\ links'.nhCount = [links.nhCount EXCEPT ![g] = @ - 1]
      /\ \A x \in Target : Users(x)' = Users(x) - (IF x \in {g, n} THEN 1 ELSE 0)
      /\ Cardinality(Entries(g)') = Cardinality(Entries(g)) - 1
      /\ \A h \in Group \ {g} : Cardinality(Entries(h)') = Cardinality(Entries(h))
  BY <1>1, <1>3, <1>4, RemoveConserved
<1>6. ASSUME NEW x \in Target, Users(x)' > 0  PROVE Users(x) > 0 \/ Live(x)
  <2>1. Users(x) \in Nat
    BY <1>1, UsersFinite
  <2> QED BY <1>5, <1>6, <2>1
<1>7. /\ members' \in [Member -> (Group \X Nh) \cup {None}]
      /\ \A k \in Member : members'[k] = IF k = m THEN None ELSE members[k]
      /\ \A h \in Group, q \in Nh : <<h, q>> # None
  BY <1>1, <1>3, NoneAssumption DEF TypeOK
<1>8. \A h \in Group, q \in Nh : IdsOf(h, q)' = IF h = g /\ q = n THEN IdsOf(h, q) \ {m}
                                                          ELSE IdsOf(h, q)
  BY <1>2, <1>7 DEF IdsOf
<1>9. ASSUME NEW h \in Group
      PROVE  /\ \A q \in Nh : Cardinality(IdsOf(h, q)') <= links'.weight[h][q]
             /\ links'.nhCount[h] = Cardinality(Entries(h)')
             /\ links'.nhCount[h] <= MaxPaths
  <2>1. /\ \A q \in Nh : Cardinality(IdsOf(h, q)) <= links.weight[h][q]
        /\ links.nhCount[h] = Cardinality(Entries(h))
        /\ links.nhCount[h] <= MaxPaths
        /\ links.nhCount[h] \in Nat
    BY <1>1 DEF MembersLinked, Links
  <2>2. ASSUME NEW q \in Nh  PROVE Cardinality(IdsOf(h, q)') <= links'.weight[h][q]
    <3>1. Cardinality(IdsOf(h, q)) \in Nat /\ links.weight[h][q] \in Nat
      BY <1>1, IdsFinite DEF Links
    <3>2. CASE h = g /\ q = n
      <4>1. links'.weight[h][q] = links.weight[h][q] - 1
        BY <1>1, <1>5, <3>2 DEF Links
      <4>2. m \in IdsOf(h, q) /\ IdsOf(h, q)' = IdsOf(h, q) \ {m}
        BY <1>2, <1>8, <3>2 DEF IdsOf
      <4>3. Cardinality(IdsOf(h, q)') = Cardinality(IdsOf(h, q)) - 1
        BY <4>2, IdsFinite, FS_RemoveElement
      <4>4. Cardinality(IdsOf(h, q)) <= links.weight[h][q]
        BY <2>1
      <4> QED BY <3>1, <4>1, <4>3, <4>4
    <3>3. CASE ~(h = g /\ q = n)
      <4>1. links'.weight[h][q] = links.weight[h][q]
        BY <1>1, <1>5, <3>3 DEF Links
      <4>2. IdsOf(h, q)' = IdsOf(h, q)
        BY <1>8, <3>3
      <4> QED BY <2>1, <4>1, <4>2
    <3> QED BY <3>2, <3>3
  <2>3. CASE h = g
    <3>1. links'.nhCount[h] = links.nhCount[h] - 1
      BY <1>1, <1>5, <2>3 DEF Links
    <3>2. MaxPaths \in Nat
      BY BoundAssumption
    <3> QED BY <1>5, <2>1, <2>2, <2>3, <3>1, <3>2
  <2>4. CASE h # g
    <3>1. links'.nhCount[h] = links.nhCount[h]
      BY <1>1, <1>5, <2>4 DEF Links
    <3>2. Cardinality(Entries(h)') = Cardinality(Entries(h))
      BY <1>5, <2>4
    <3> QED BY <2>1, <2>2, <3>1, <3>2
  <2> QED BY <2>3, <2>4
<1>10. MembersLinked'
  BY <1>9 DEF MembersLinked
<1> QED BY <1>3, <1>5, <1>6, <1>7, <1>10, LinkStep

(* A group without users has no entries to be unlinked.                    *)
LEMMA Unlinked ==
  ASSUME IInv, NEW g \in Group, Users(g) = 0
  PROVE  [links EXCEPT !.weight[g] = [n \in Nh |-> 0], !.nhCount[g] = 0] = links
<1>1. TypeOK /\ MembersLinked /\ links \in Links
  BY DEF IInv, TypeOK, Links
<1>2. g \in Target /\ g \notin Nh
  BY TargetAssumption DEF Target
<1>3. Cardinality(Entries(g)) = 0
  <2>1. /\ Cardinality(RoutesTo(g)) \in Nat /\ Cardinality(LinksOf(g)) \in Nat
        /\ Users(g) = Cardinality(RoutesTo(g)) + Cardinality(LinksOf(g))
    BY <1>1, <1>2, UsersFinite DEF Users
  <2> QED BY <1>2, <2>1 DEF LinksOf
<1>4. links.weight[g] \in [Nh -> Nat] /\ IsFiniteSet(Nh)
  BY <1>1, Finite DEF Links
<1>5. \A n \in Nh : ~(links.weight[g][n] > 0)
  BY <1>3, <1>4, SlotsPositive DEF Entries
<1>6. links.weight[g] = [n \in Nh |-> 0]
  BY <1>4, <1>5
<1>7. links.nhCount[g] = 0
  BY <1>1, <1>3 DEF MembersLinked
<1>8. /\ [links.weight EXCEPT ![g] = [n \in Nh |-> 0]] = links.weight
      /\ [links.nhCount EXCEPT ![g] = 0] = links.nhCount
  BY <1>1, <1>6, <1>7 DEF Links
<1> QED BY <1>1, <1>8 DEF Links

(* A group whose count is 0 has no links left, so none of its members      *)
(* keeps a count that is not given back.                                   *)
LEMMA GroupRemoveStep ==
  ASSUME IInv, NEW g \in Group, GroupRemove(g)
  PROVE  IInv' /\ Conserved
<1>1. TypeOK /\ CountsCover
  BY DEF IInv
<1>2. /\ groups' = groups \ {g} /\ Forget(g) /\ links.groupRef[g] = 0
      /\ links' = [links EXCEPT !.weight[g] = [n \in Nh |-> 0], !.nhCount[g] = 0]
      /\ UNCHANGED <<vrs, nodes, members, raced, wild>>
  BY DEF GroupRemove
<1>3. g \in Target /\ g \notin Nh
  BY TargetAssumption DEF Target
<1>4. Users(g) = 0
  BY <1>2, <1>3, Unused DEF Count
<1>5. links' = links
  BY <1>2, <1>4, Unlinked
<1>6. /\ routes' \in [Vrf -> [Prefix -> Route \cup {None}]]
      /\ restore' \in [Thread -> Saved \cup {None}]
      /\ \A y : y \in Target \/ y = Stale => RoutesTo(y)' = RoutesTo(y)
      /\ Routers' /\ Undisturbed'
  BY <1>2, <1>3, <1>4, Forgotten DEF IInv
<1>7. nodes' \in NodeType /\ RifCounts' /\ groups' \subseteq Group
  BY <1>1, <1>2, CoverParts, RifStep DEF TypeOK, NodeType
<1>8. \A x \in Target : Live(x) /\ ~Live(x)' => Users(x) = 0
  BY <1>2, <1>4 DEF Live, IsNextHop
<1> QED BY <1>2, <1>5, <1>6, <1>7, <1>8, ObjectStep

(* All handlers of groups and members.                                     *)
LEMMA GroupNextStep ==
  ASSUME IInv, GroupNext
  PROVE  IInv' /\ Conserved
<1>1. TypeOK /\ CountsCover /\ links \in Links
  BY DEF IInv, TypeOK, Links
<1>2. nodes \in NodeType /\ RifCounts /\ groups \subseteq Group
  BY <1>1, CoverParts DEF TypeOK, NodeType
<1>3. ASSUME NEW g \in Group, GroupCreate(g)  PROVE IInv' /\ Conserved
  <2>1. /\ groups' = groups \cup {g}
        /\ UNCHANGED <<vrs, routes, nodes, links, members, restore, raced, wild>>
    BY <1>3 DEF GroupCreate
  <2>2. nodes' \in NodeType /\ RifCounts' /\ groups' \subseteq Group
    BY <1>2, <2>1, RifStep
  <2>3. \A x \in Target : Live(x) /\ ~Live(x)' => Users(x) = 0
    BY <2>1 DEF Live, IsNextHop
  <2> QED BY <2>1, <2>2, <2>3, RoutesKept, ObjectStep
<1>4. ASSUME NEW g \in Group, NEW n \in Nh, MemberCreateFail(g, n)
      PROVE  IInv' /\ Conserved
  <2>1. /\ links' = RemoveFromLists(AddInLists(links, g, n), g, n)
        /\ UNCHANGED <<vrs, routes, nodes, groups, members, restore, raced, wild>>
    BY <1>4 DEF MemberCreateFail
  <2>2. links' = links
    BY <1>1, <2>1, Undone
  <2>3. nodes' \in NodeType /\ RifCounts' /\ groups' \subseteq Group
    BY <1>2, <2>1, RifStep
  <2>4. \A x \in Target : Live(x) /\ ~Live(x)' => Users(x) = 0
    BY <2>1 DEF Live, IsNextHop
  <2> QED BY <2>1, <2>2, <2>3, <2>4, RoutesKept, ObjectStep
<1>5. ASSUME NEW g \in Group, NEW n \in Nh, MemberCreateLeak(g, n)
      PROVE  IInv' /\ Conserved
  <2>1. /\ links' = AddInLists(links, g, n) /\ Joinable(g, n)
        /\ UNCHANGED <<vrs, routes, nodes, groups, members, restore, raced, wild>>
    BY <1>5 DEF MemberCreateLeak
  <2>2. members' \in [Member -> (Group \X Nh) \cup {None}]
    BY <1>1, <2>1 DEF TypeOK
  <2>3. \A h, q : IdsOf(h, q)' = IdsOf(h, q)
    BY <2>1 DEF IdsOf
  <2>4. Cardinality(IdsOf(g, n)') <= Cardinality(IdsOf(g, n)) + 1
    BY <2>3, IdsFinite
  <2> QED BY <2>1, <2>2, <2>3, <2>4, AddStep
<1>6. ASSUME NEW m \in Member, NEW g \in Group, NEW n \in Nh, MemberCreate(m, g, n)
      PROVE  IInv' /\ Conserved
  <2>1. /\ links' = AddInLists(links, g, n) /\ Joinable(g, n) /\ members[m] = None
        /\ members' = [members EXCEPT ![m] = <<g, n>>]
        /\ UNCHANGED <<vrs, routes, nodes, groups, restore, raced, wild>>
    BY <1>6 DEF MemberCreate
  <2>2. /\ members' \in [Member -> (Group \X Nh) \cup {None}]
        /\ \A k \in Member : members'[k] = IF k = m THEN <<g, n>> ELSE members[k]
        /\ \A h \in Group, q \in Nh : <<h, q>> # None
    BY <1>1, <2>1, NoneAssumption DEF TypeOK
  <2>3. m \notin IdsOf(g, n) /\ IdsOf(g, n)' = IdsOf(g, n) \cup {m}
    BY <2>1, <2>2 DEF IdsOf
  <2>4. Cardinality(IdsOf(g, n)') <= Cardinality(IdsOf(g, n)) + 1
    <3>1. Cardinality(IdsOf(g, n) \cup {m}) = Cardinality(IdsOf(g, n)) + 1
      BY <2>3, IdsFinite, FS_AddElement
    <3> QED BY <2>3, <3>1, IdsFinite
  <2>5. \A h \in Group, q \in Nh : <<h, q>> # <<g, n>> => IdsOf(h, q)' = IdsOf(h, q)
    BY <2>1, <2>2 DEF IdsOf
  <2> QED BY <2>1, <2>2, <2>4, <2>5, AddStep
<1> QED BY <1>3, <1>4, <1>5, <1>6, GroupRemoveStep, MemberRemoveStep DEF GroupNext

---------------------------------------------------------------------------
(* The invariant                                                           *)

(* Initially nothing points to anything.                                   *)
LEMMA InitInv ==
  ASSUME Init
  PROVE  IInv
<1>1. \A v \in Vrf, p \in Prefix :
        /\ routes[v][p] = None \/ routes[v][p] = EmptyDefault
        /\ ~Installed(routes[v][p])
  BY RouteTypes DEF Init
<1>2. \A x : RoutesTo(x) = {} /\ Cardinality(RoutesTo(x)) = 0
  <2>1. \A x : RoutesTo(x) = {}
    BY <1>1 DEF RoutesTo, Forwards
  <2> QED BY <2>1, FS_EmptySet
<1>3. TypeOK
  <2>1. routes \in [Vrf -> [Prefix -> Route \cup {None}]]
    BY RouteTypes DEF Init
  <2>2. links \in Links
    BY DEF Init, Links
  <2>3. nodes \in NodeType
    BY DEF Init, NodeType
  <2> QED BY <2>1, <2>2, <2>3, RouterAssumption DEF Init, TypeOK, Links, NodeType
<1>4. ASSUME NEW x \in Target  PROVE Cardinality(LinksOf(x)) = 0
  <2>1. CASE x \in Nh
    <3> DEFINE w == [g \in Group |-> links.weight[g][x]]
    <3>1. w \in [Group -> Nat] /\ \A g \in Group : ~(w[g] > 0)
      BY <2>1 DEF Init
    <3>2. LinksOf(x) = Slots(w)
      BY <2>1 DEF LinksOf, Joined
    <3> HIDE DEF w
    <3> QED BY <3>1, <3>2, Finite, SlotsPositive, SlotsFinite
  <2>2. CASE x \notin Nh
    <3> DEFINE w == links.weight[x]
    <3>1. w \in [Nh -> Nat] /\ \A n \in Nh : ~(w[n] > 0)
      BY <2>2 DEF Init, Target
    <3>2. LinksOf(x) = Slots(w)
      BY <2>2 DEF LinksOf, Entries
    <3> HIDE DEF w
    <3> QED BY <3>1, <3>2, Finite, SlotsPositive, SlotsFinite
  <2> QED BY <2>1, <2>2
<1>5. CountsCover
  <2>1. ASSUME NEW x \in Target  PROVE Count(x) >= Users(x) /\ ~(Users(x) > 0)
    <3>1. Users(x) = 0
      BY <1>2, <1>4 DEF Users
    <3> QED BY <1>3, <3>1, UsersFinite
  <2>2. ASSUME NEW r \in Rif  PROVE nodes.rifRef[r] = Cardinality(NodesOn(r))
    <3>1. NodesOn(r) = {}
      BY DEF NodesOn, Init
    <3> QED BY <3>1, FS_EmptySet DEF Init
  <2> QED BY <1>2, <2>1, <2>2 DEF CountsCover
<1>6. MembersLinked
  <2>1. ASSUME NEW g \in Group, NEW n \in Nh  PROVE Cardinality(IdsOf(g, n)) <= links.weight[g][n]
    <3>1. <<g, n>> # None
      BY NoneAssumption
    <3>2. IdsOf(g, n) = {}
      BY <3>1 DEF IdsOf, Init
    <3>3. links.weight[g][n] = 0
      BY DEF Init
    <3>4. Cardinality(IdsOf(g, n)) = 0
      BY <3>2, FS_EmptySet
    <3> QED BY <3>3, <3>4
  <2>2. ASSUME NEW g \in Group
        PROVE  links.nhCount[g] = Cardinality(Entries(g)) /\ links.nhCount[g] <= MaxPaths
    <3>1. g \in Target /\ g \notin Nh
      BY TargetAssumption DEF Target
    <3>2. Cardinality(Entries(g)) = 0
      BY <1>4, <3>1 DEF LinksOf
    <3> QED BY <3>2, BoundAssumption DEF Init
  <2> QED BY <2>1, <2>2 DEF MembersLinked
<1>7. Routers
  BY RouterAssumption, RouteTypes DEF Init, Routers
<1>8. Undisturbed
  BY RouterAssumption DEF Init, Undisturbed
<1> QED BY <1>3, <1>5, <1>6, <1>7, <1>8 DEF IInv

(* A step preserves the invariant and conserves the surplus.               *)
LEMMA NextInv ==
  ASSUME IInv, Next
  PROVE  IInv' /\ Conserved
BY VrNextStep, NhNextStep, GroupNextStep, RouteNextStep DEF Next

(* A stuttering step preserves the invariant.                              *)
LEMMA StutterInv ==
  ASSUME IInv, UNCHANGED vars
  PROVE  IInv'
<1>1. UNCHANGED <<vrs, routes, nodes, groups, links, members, restore, raced, wild>>
  BY DEF vars
<1>2. nodes' \in NodeType /\ RifCounts' /\ groups' \subseteq Group
  BY <1>1, CoverParts, RifStep DEF IInv, TypeOK, NodeType
<1>3. \A x \in Target : Live(x) /\ ~Live(x)' => Users(x) = 0
  BY <1>1, LiveStep
<1> QED BY <1>1, <1>2, <1>3, RoutesKept, ObjectStep

(* The invariant holds in every reachable state.                           *)
LEMMA Invariance == Spec => []IInv
<1>1. Init => IInv
  BY InitInv
<1>2. IInv /\ [Next]_vars => IInv'
  BY NextInv, StutterInv
<1> QED BY <1>1, <1>2, PTL DEF Spec

---------------------------------------------------------------------------
(* Theorems                                                                *)

(* Every variable has its type.  Not all of it is by construction: the     *)
(* counts and sizes of groups that sai_fib_nh_group_remove_from_lists      *)
(* counts down stay natural numbers, since nothing is unlinked that is not *)
(* linked.                                                                 *)
THEOREM TypeCorrectness == Spec => []TypeOK
<1>1. IInv => TypeOK
  BY DEF IInv
<1> QED BY <1>1, Invariance, PTL

(* The count by which sai_fib_next_hop_remove and                          *)
(* sai_fib_next_hop_group_remove refuse to remove an object is never less  *)
(* than the routes and members that point to it, what they point to        *)
(* exists, and a router interface counts its next hops and neighbours      *)
(* exactly: after any sequence of calls that succeed or fail.              *)
THEOREM CountsCovered == Spec => []CountsCover
<1>1. IInv => CountsCover
  BY DEF IInv
<1> QED BY <1>1, Invariance, PTL

(* Every group member id that sai_fib_next_hop_group_member_create gave    *)
(* out is a link of its group, so it can be removed; a group is as large   *)
(* as its weights say, and within max ecmp-paths.                          *)
THEOREM MembersSafe == Spec => []MembersLinked
<1>1. IInv => MembersLinked
  BY DEF IInv
<1> QED BY <1>1, Invariance, PTL

(* The copy that sai_fib_route_create makes back into a default route      *)
(* after it has released the FIB lock is the only way to use a freed node, *)
(* or to leave a default route that points to something without being in   *)
(* the NPU.                                                                *)
THEOREM RaceOnly == Spec => []UndefinedOnlyByRace
<1>1. IInv => UndefinedOnlyByRace
  BY DEF IInv, Undisturbed, UndefinedOnlyByRace
<1> QED BY <1>1, Invariance, PTL

(* Counts are neither leaked nor given back twice, by any handler and on   *)
(* any of its failure paths, except where a default route is dropped with  *)
(* its count (sai_l3_vrf.c:614, sai_l3_route.c:641-649).                   *)
THEOREM Surplus == Spec => SurplusConserved
<1>1. IInv /\ [Next]_vars => [Conserved]_vars
  BY NextInv
<1>2. SurplusConserved <=> [][Conserved]_vars
  BY DEF SurplusConserved, Conserved
<1> QED BY <1>1, <1>2, Invariance, PTL DEF Spec

---------------------------------------------------------------------------
(***************************************************************************)
(* Fib implements ObjectGraph.                                             *)
(***************************************************************************)

(* The objects of the graph that exist: the variable alive of ObjectGraph. *)
Alive == {x \in Target : Live(x)} \cup RoutesIn

(* Its edges: the variable uses of ObjectGraph.                            *)
Uses == (UNION {RoutesTo(x) \X {x} : x \in Target}) \cup
          {e \in Group \X Nh : links.weight[e[1]][e[2]] > 0}

(* What the edges are: of routes, and of groups.                           *)
Edge(a, y) == \/ y \in Target /\ a \in RoutesTo(y)
              \/ a \in Group /\ y \in Nh /\ links.weight[a][y] > 0

(* Uses as a relation.                                                     *)
UsesArePairs ==
  /\ \A u \in Uses : u = <<u[1], u[2]>>
  /\ \A a, y : <<a, y>> \in Uses <=> Edge(a, y)

(* Uses is the relation Edge.                                              *)
LEMMA Pairs == UsesArePairs
<1>1. \A u : u \in UNION {RoutesTo(x) \X {x} : x \in Target} <=>
              \E x \in Target : u \in RoutesTo(x) \X {x}
  OBVIOUS
<1>2. \A u : u \in Uses <=> \/ \E x \in Target : u \in RoutesTo(x) \X {x}
                            \/ u \in Group \X Nh /\ links.weight[u[1]][u[2]] > 0
  <2>1. \A u : u \in {e \in Group \X Nh : links.weight[e[1]][e[2]] > 0} <=>
                u \in Group \X Nh /\ links.weight[u[1]][u[2]] > 0
    OBVIOUS
  <2>2. \A u : u \in Uses <=> \/ u \in UNION {RoutesTo(x) \X {x} : x \in Target}
                              \/ u \in {e \in Group \X Nh : links.weight[e[1]][e[2]] > 0}
    BY DEF Uses
  <2> QED BY <1>1, <2>1, <2>2, Zenon
<1>3. ASSUME NEW u \in Uses  PROVE u = <<u[1], u[2]>>
  <2>1. CASE \E x \in Target : u \in RoutesTo(x) \X {x}
    BY <2>1
  <2>2. CASE u \in Group \X Nh
    BY <2>2
  <2> QED BY <1>2, <1>3, <2>1, <2>2
<1>4. ASSUME NEW a, NEW y  PROVE <<a, y>> \in Uses <=> Edge(a, y)
  <2>1. (\E x \in Target : <<a, y>> \in RoutesTo(x) \X {x}) <=> y \in Target /\ a \in RoutesTo(y)
    OBVIOUS
  <2>2. <<a, y>> \in Group \X Nh <=> a \in Group /\ y \in Nh
    OBVIOUS
  <2>3. <<a, y>>[1] = a /\ <<a, y>>[2] = y
    OBVIOUS
  <2>4. <<a, y>> \in Uses <=> \/ \E x \in Target : <<a, y>> \in RoutesTo(x) \X {x}
                              \/ <<a, y>> \in Group \X Nh
                                 /\ links.weight[<<a, y>>[1]][<<a, y>>[2]] > 0
    BY <1>2
  <2> QED BY <2>1, <2>2, <2>3, <2>4 DEF Edge
<1>5. \A u \in Uses : u = <<u[1], u[2]>>
  BY <1>3, Zenon
<1>6. \A a, y : <<a, y>> \in Uses <=> Edge(a, y)
  BY <1>4, Zenon
<1> QED BY <1>5, <1>6 DEF UsesArePairs

(* The same of the next state.                                             *)
LEMMA PairsNext == UsesArePairs'
BY Pairs, PTL

(* Both ends of an edge exist, and the used end is counted.                *)
EdgesLive ==
  \A a, y : Edge(a, y) => a \in Alive /\ y \in Alive /\ y \in Target /\ Users(y) > 0

(* The invariant says so.                                                  *)
LEMMA Ends == IInv => EdgesLive
<1> SUFFICES ASSUME IInv, NEW a, NEW y, Edge(a, y)
             PROVE  a \in Alive /\ y \in Alive /\ y \in Target /\ Users(y) > 0
  BY DEF EdgesLive
<1>1. TypeOK /\ \A x \in Target : Users(x) > 0 => x \in Alive
  BY DEF IInv, CountsCover, Alive
<1>2. \A x \in Target : /\ Cardinality(RoutesTo(x)) \in Nat /\ Cardinality(LinksOf(x)) \in Nat
                        /\ Users(x) = Cardinality(RoutesTo(x)) + Cardinality(LinksOf(x))
  BY <1>1, UsersFinite DEF Users
<1>3. CASE y \in Target /\ a \in RoutesTo(y)
  <2>1. Cardinality(RoutesTo(y)) # 0
    BY <1>1, <1>3, UsersFinite, FS_EmptySet
  <2>2. Users(y) > 0
    BY <1>2, <1>3, <2>1
  <2>3. a \in RoutesIn
    BY <1>3 DEF RoutesTo, RoutesIn, Forwards
  <2> QED BY <1>1, <1>3, <2>2, <2>3 DEF Alive
<1>4. CASE a \in Group /\ y \in Nh /\ links.weight[a][y] > 0
  <2>1. a \in Target /\ a \notin Nh /\ y \in Target
    BY <1>4, TargetAssumption DEF Target
  <2>2. Users(a) > 0
    <3>1. links.weight[a] \in [Nh -> Nat]
      BY <1>1, <1>4 DEF TypeOK
    <3>2. Cardinality(LinksOf(a)) > 0
      BY <1>4, <2>1, <3>1, Finite, SlotsPositive DEF LinksOf, Entries
    <3> QED BY <1>2, <2>1, <3>2
  <2>3. Users(y) > 0
    <3> DEFINE w == [g \in Group |-> links.weight[g][y]]
    <3>1. w \in [Group -> Nat] /\ w[a] > 0
      BY <1>1, <1>4 DEF TypeOK
    <3>2. LinksOf(y) = Slots(w)
      BY <1>4 DEF LinksOf, Joined
    <3> HIDE DEF w
    <3>3. Cardinality(LinksOf(y)) > 0
      BY <1>4, <3>1, <3>2, Finite, SlotsPositive
    <3> QED BY <1>2, <2>1, <3>3
  <2> QED BY <1>1, <2>1, <2>2, <2>3
<1> QED BY <1>3, <1>4 DEF Edge

(* The same of the next state.                                             *)
LEMMA EndsNext == IInv' => EdgesLive'
<1>1. (IInv => EdgesLive)'
  BY Ends, PTL
<1> QED BY <1>1

(* One object changes: it appears, points elsewhere, or goes.              *)
LEMMA GraphStep ==
  ASSUME IInv, IInv', NEW o \in Nh \cup Group \cup (Vrf \X Prefix),
         \A a, y : a # o => (Edge(a, y)' <=> Edge(a, y)),
         \A x : x # o => (x \in Alive' <=> x \in Alive),
         \A y : Edge(o, y)' => y # o,
         o \in Alive /\ o \notin Alive' => \A a : ~Edge(a, o)
  PROVE  [Graph!Next]_(Graph!vars)
<1>1. EdgesLive /\ EdgesLive' /\ UsesArePairs /\ UsesArePairs'
  BY Ends, EndsNext, Pairs, PairsNext
<1>2. /\ \A a, y : <<a, y>> \in Uses <=> Edge(a, y)
      /\ \A a, y : <<a, y>> \in Uses' <=> Edge(a, y)'
      /\ \A u \in Uses \cup Uses' : u = <<u[1], u[2]>>
  BY <1>1 DEF UsesArePairs
<1>3. /\ \A y : Edge(o, y) => o \in Alive
      /\ \A y : Edge(o, y)' => o \in Alive' /\ y \in Alive'
  BY <1>1 DEF EdgesLive
<1>4. \A u : u[1] # o => (u \in Uses' <=> u \in Uses)
  <2> SUFFICES ASSUME NEW u, u[1] # o  PROVE u \in Uses' <=> u \in Uses
    OBVIOUS
  <2>1. Edge(u[1], u[2])' <=> Edge(u[1], u[2])
    OBVIOUS
  <2> QED BY <1>2, <2>1
<1>5. Graph!Edges(o, Uses) = {e \in Uses : e[1] = o} /\ Graph!Edges(o, Uses') = {e \in Uses' : e[1] = o}
  BY DEF Graph!Edges
<1>6. Uses' \ Graph!Edges(o, Uses') = Uses \ Graph!Edges(o, Uses)
  BY <1>4, <1>5
<1>7. \A e \in Graph!Edges(o, Uses') : e[2] \in Alive
  <2> SUFFICES ASSUME NEW e \in Uses', e[1] = o  PROVE e[2] \in Alive
    BY <1>5
  <2>1. Edge(o, e[2])'
    BY <1>2
  <2> QED BY <1>3, <2>1
<1>8. CASE o \notin Alive /\ o \in Alive'
  <2>1. Alive' = Alive \cup {o}
    BY <1>8
  <2> QED BY <1>6, <1>7, <1>8, <2>1
          DEF Graph!Next, Graph!Create, Graph!Points, Alive, Uses
<1>9. CASE o \in Alive /\ o \in Alive'
  <2>1. Alive' = Alive
    BY <1>9
  <2> QED BY <1>6, <1>7, <1>9, <2>1
          DEF Graph!Next, Graph!Redirect, Graph!Points, Alive, Uses
<1>10. CASE o \in Alive /\ o \notin Alive'
  <2>1. Alive' = Alive \ {o}
    BY <1>10
  <2>2. \A e \in Uses : e[2] # o
    BY <1>2, <1>10
  <2>3. Graph!Edges(o, Uses') = {}
    BY <1>2, <1>3, <1>5, <1>10
  <2>4. Uses' = Uses \ Graph!Edges(o, Uses)
    BY <1>6, <2>3
  <2> QED BY <1>10, <2>1, <2>2, <2>4 DEF Graph!Next, Graph!Delete, Alive, Uses
<1>11. CASE o \notin Alive /\ o \notin Alive'
  <2>1. Alive' = Alive
    BY <1>11
  <2>2. Uses' = Uses
    <3>1. \A u \in Uses \cup Uses' : u[1] # o
      BY <1>2, <1>3, <1>11
    <3> QED BY <1>4, <3>1
  <2> QED BY <2>1, <2>2 DEF Graph!vars, Alive, Uses
<1> QED BY <1>8, <1>9, <1>10, <1>11

(* Nothing that the graph shows changes.                                   *)
LEMMA SameGraph ==
  ASSUME UNCHANGED <<routes, nodes, groups>>, links'.weight = links.weight
  PROVE  UNCHANGED Graph!vars
<1>1. Alive' = Alive
  BY DEF Alive, RoutesIn, Live, IsNextHop
<1>2. Uses' = Uses
  BY DEF Uses, RoutesTo
<1> QED BY <1>1, <1>2 DEF Graph!vars, Alive, Uses

(* One route changes.                                                      *)
LEMMA RouteGraph ==
  ASSUME IInv, IInv', UNCHANGED <<nodes, groups>>, links'.weight = links.weight,
         NEW v \in Vrf, NEW p \in Prefix, NEW r, routes' = [routes EXCEPT ![v][p] = r]
  PROVE  [Graph!Next]_(Graph!vars)
<1> DEFINE o == <<v, p>>
<1>1. TypeOK /\ EdgesLive /\ EdgesLive'
  BY Ends, EndsNext DEF IInv
<1>2. o \in Vrf \X Prefix /\ o \notin Target /\ o \notin Group
  BY ObjectAssumption DEF Target
<1>3. ASSUME NEW a, NEW y, a # o  PROVE Edge(a, y)' <=> Edge(a, y)
  <2>1. RoutesTo(y)' = IF Forwards(r, y) THEN RoutesTo(y) \cup {o} ELSE RoutesTo(y) \ {o}
    BY <1>1, RouteChange
  <2>2. a \in RoutesTo(y)' <=> a \in RoutesTo(y)
    BY <1>3, <2>1
  <2>3. Edge(a, y)' <=> \/ y \in Target /\ a \in RoutesTo(y)'
                        \/ a \in Group /\ y \in Nh /\ links'.weight[a][y] > 0
    BY DEF Edge
  <2> QED BY <2>2, <2>3 DEF Edge
<1>4. ASSUME NEW x, x # o  PROVE x \in Alive' <=> x \in Alive
  <2>1. \A e \in Vrf \X Prefix :
          routes'[e[1]][e[2]] = IF e = o THEN r ELSE routes[e[1]][e[2]]
    BY <1>1 DEF TypeOK
  <2>2. x \in RoutesIn' <=> x \in RoutesIn
    BY <1>4, <2>1 DEF RoutesIn, Installed
  <2>3. Live(x)' <=> Live(x)
    BY LiveStep
  <2> QED BY <2>2, <2>3 DEF Alive
<1>5. \A y : Edge(o, y)' => y # o
  BY <1>1, <1>2 DEF EdgesLive
<1>6. \A a : ~Edge(a, o)
  BY <1>1, <1>2 DEF EdgesLive
<1> HIDE DEF o
<1> QED BY <1>2, <1>3, <1>4, <1>5, <1>6, GraphStep

(* The weights of one group change.                                        *)
LEMMA LinkGraph ==
  ASSUME IInv, IInv', UNCHANGED <<routes, nodes, groups>>, NEW g \in Group,
         \A h \in Group, n \in Nh : h # g => links'.weight[h][n] = links.weight[h][n]
  PROVE  [Graph!Next]_(Graph!vars)
<1>1. g \notin Nh /\ g \notin Vrf \X Prefix
  BY TargetAssumption, ObjectAssumption
<1>2. \A y : RoutesTo(y)' = RoutesTo(y)
  BY DEF RoutesTo
<1>3. ASSUME NEW a, NEW y, a # g  PROVE Edge(a, y)' <=> Edge(a, y)
  <2>1. Edge(a, y)' <=> \/ y \in Target /\ a \in RoutesTo(y)'
                        \/ a \in Group /\ y \in Nh /\ links'.weight[a][y] > 0
    BY DEF Edge
  <2> QED BY <1>2, <1>3, <2>1 DEF Edge
<1>4. Alive' = Alive
  BY DEF Alive, RoutesIn, Live, IsNextHop
<1>5. ASSUME NEW y, Edge(g, y)'  PROVE y # g
  <2>1. g \notin RoutesTo(y)'
    BY <1>1 DEF RoutesTo
  <2> QED BY <1>1, <1>5, <2>1 DEF Edge
<1> QED BY <1>3, <1>4, <1>5, GraphStep

(* One object appears or goes.                                             *)
LEMMA TargetGraph ==
  ASSUME IInv, IInv', UNCHANGED links, NEW x \in Target,
         \A y \in Target : RoutesTo(y)' = RoutesTo(y), RoutesIn' = RoutesIn,
         \A y \in Target : y # x => (Live(y)' <=> Live(y)),
         Live(x) /\ ~Live(x)' => Users(x) = 0
  PROVE  [Graph!Next]_(Graph!vars)
<1>1. x \notin Vrf \X Prefix /\ (x \in Group => x \notin Nh)
  BY ObjectAssumption, TargetAssumption DEF Target
<1>2. ASSUME NEW a, NEW y  PROVE Edge(a, y)' <=> Edge(a, y)
  BY DEF Edge
<1>3. RoutesIn \subseteq Vrf \X Prefix
  BY DEF RoutesIn
<1>4. \A y : y # x => (y \in Alive' <=> y \in Alive)
  BY DEF Alive
<1>5. ASSUME NEW y, Edge(x, y)'  PROVE y # x
  <2>1. Edge(x, y)
    BY <1>2, <1>5
  <2>2. x \notin RoutesTo(y)
    BY <1>1 DEF RoutesTo
  <2> QED BY <1>1, <2>1, <2>2 DEF Edge
<1>6. ASSUME x \in Alive, x \notin Alive', NEW a, Edge(a, x)  PROVE FALSE
  <2>1. Users(x) > 0
    BY <1>6, Ends DEF EdgesLive
  <2>2. Live(x) /\ ~Live(x)'
    BY <1>1, <1>3, <1>6 DEF Alive
  <2> QED BY <2>1, <2>2
<1> QED BY <1>2, <1>4, <1>5, <1>6, GraphStep DEF Target

---------------------------------------------------------------------------
(* Steps                                                                   *)

(* What the handlers of virtual routers and routes do to the graph: one    *)
(* route changes, and no next hop, group or weight.                        *)
LEMMA RouteForm ==
  ASSUME IInv, VrNext \/ RouteNext
  PROVE  /\ UNCHANGED <<nodes, groups>> /\ links'.weight = links.weight
         /\ \/ UNCHANGED routes
            \/ \E v \in Vrf, p \in Prefix : \E r : routes' = [routes EXCEPT ![v][p] = r]
<1> DEFINE Form == /\ UNCHANGED <<nodes, groups>> /\ links'.weight = links.weight
                   /\ \/ UNCHANGED routes
                      \/ \E v \in Vrf, p \in Prefix : \E r : routes' = [routes EXCEPT ![v][p] = r]
<1>1. TypeOK /\ links \in Links /\ Default \in Prefix
  BY RouterAssumption DEF IInv, TypeOK, Links
<1>2. \A v \in Vrf, p \in Prefix : routes[v][p] # None =>
        routes[v][p].target \in Target \cup {None, Stale}
  BY <1>1 DEF TypeOK, Route
<1>3. ASSUME NEW v \in Vrf, VrCreate(v) \/ VrRemove(v) \/ VrRemoveRefused(v)  PROVE Form
  BY <1>1, <1>3 DEF VrCreate, VrRemove, VrRemoveRefused
<1>4. ASSUME NEW v \in Vrf, NEW p \in Prefix, RouteRemove(v, p)  PROVE Form
  <2>1. /\ UNCHANGED <<nodes, groups>> /\ routes[v][p] # None
        /\ links' = Decr(links, routes[v][p].target)
        /\ \E r : routes' = [routes EXCEPT ![v][p] = r]
    BY <1>4 DEF RouteRemove
  <2>2. links'.weight = links.weight
    BY <1>1, <1>2, <2>1, Counting
  <2> QED BY <2>1, <2>2
<1>5. ASSUME NEW v \in Vrf, NEW p \in Prefix, NEW r, r.target \in Target \cup {None, Stale},
             RouteSet(v, p, r)
      PROVE  Form
  <2>1. /\ UNCHANGED <<nodes, groups>> /\ routes[v][p] # None
        /\ links' = links \/ links' = Incr(Decr(links, routes[v][p].target), r.target)
        /\ routes' = [routes EXCEPT ![v][p] = r]
    BY <1>5 DEF RouteSet
  <2>2. /\ Decr(links, routes[v][p].target) \in Links
        /\ Decr(links, routes[v][p].target).weight = links.weight
    BY <1>1, <1>2, <2>1, Counting
  <2>3. links'.weight = links.weight
    BY <1>5, <2>1, <2>2, Counting
  <2> QED BY <2>1, <2>3
<1>6. ASSUME NEW v \in Vrf, NEW p \in Prefix, NEW x \in Target, RouteSetTarget(v, p, x)
      PROVE  Form
  <2> DEFINE r == [routes[v][p] EXCEPT !.target = x]
  <2>1. RouteSet(v, p, r) /\ routes[v][p] \in Route
    BY <1>1, <1>6 DEF RouteSetTarget, TypeOK
  <2>2. r.target \in Target \cup {None, Stale}
    BY <2>1 DEF Route
  <2> HIDE DEF r
  <2> QED BY <1>5, <2>1, <2>2
<1>7. ASSUME NEW v \in Vrf, NEW p \in Prefix, NEW a \in Action, RouteSetAction(v, p, a)
      PROVE  Form
  <2> DEFINE r == [routes[v][p] EXCEPT !.act = a]
  <2>1. RouteSet(v, p, r) /\ routes[v][p] \in Route
    BY <1>1, <1>7 DEF RouteSetAction, TypeOK
  <2>2. r.target \in Target \cup {None, Stale}
    BY <2>1 DEF Route
  <2> HIDE DEF r
  <2> QED BY <1>5, <2>1, <2>2
<1>8. ASSUME NEW v \in Vrf, NEW p \in Prefix, NEW x \in Target \cup {None}, NEW a \in Action,
             RouteCreate(v, p, x, a)
      PROVE  Form
  <2> DEFINE r == Parsed(NewNode(v, p), x, a)
  <2>1. /\ UNCHANGED <<nodes, groups>>
        /\ links' = Incr(links, r.target)
        /\ routes' = [routes EXCEPT ![v][p] = r]
    BY <1>8 DEF RouteCreate
  <2>2. r.target \in Target \cup {None, Stale}
    BY <1>2 DEF Parsed, NewNode, EmptyDefault
  <2> HIDE DEF r
  <2>3. links'.weight = links.weight
    BY <1>1, <2>1, <2>2, Counting
  <2> QED BY <2>1, <2>3
<1>9. ASSUME NEW v \in Vrf, NEW a \in Action, RouteCreateStale(v, a)  PROVE Form
  BY <1>9 DEF RouteCreateStale
<1>10. ASSUME NEW t \in Thread, NEW v \in Vrf, NEW x \in Target \cup {None}, NEW a \in Action,
              DefaultCreateFail(t, v, x, a)
       PROVE  Form
  BY <1>1, <1>10 DEF DefaultCreateFail
<1>11. ASSUME NEW t \in Thread, RestoreDefault(t)  PROVE Form
  <2>1. restore[t].vr \in Vrf
    BY <1>1, <1>11 DEF RestoreDefault, TypeOK, Saved
  <2> QED BY <1>1, <1>11, <2>1 DEF RestoreDefault
<1> QED BY <1>3, <1>4, <1>6, <1>7, <1>8, <1>9, <1>10, <1>11 DEF VrNext, RouteNext

(* A next hop appears, or goes when nothing points to it.                  *)
LEMMA NhGraph ==
  ASSUME IInv, IInv', NhNext
  PROVE  [Graph!Next]_(Graph!vars)
<1>1. PICK n \in Nh : \/ NhCreate(n) \/ NhCreateFail(n) \/ NhRemove(n)
                      \/ NbrCreate(n) \/ NbrCreateFail(n) \/ NbrRemove(n)
  BY DEF NhNext
<1>2. n \in Target /\ Count(n) = links.nhRef[n]
  BY DEF Target, Count
<1>3. UNCHANGED <<links, groups>>
  BY <1>1 DEF NhCreate, NhCreateFail, NhRemove, NbrCreate, NbrCreateFail, NbrRemove
<1>4. \A m \in Nh : m # n => nodes'.owners[m] = nodes.owners[m]
  BY <1>1 DEF NhCreate, NhCreateFail, NhRemove, NbrCreate, NbrCreateFail, NbrRemove,
              Own, Disown, IInv, TypeOK
<1>5. \A y \in Target : y # n => (Live(y)' <=> Live(y))
  BY <1>3, <1>4 DEF Live, IsNextHop
<1>6. ASSUME NhRemove(n)  PROVE Users(n) = 0
  BY <1>2, <1>6, Unused DEF NhRemove
<1>7. /\ \A y \in Target : RoutesTo(y)' = RoutesTo(y)
      /\ RoutesIn' = RoutesIn
  <2>1. CASE UNCHANGED routes
    BY <2>1 DEF RoutesTo, RoutesIn
  <2>2. CASE NhRemove(n) /\ Forget(n)
    <3>1. UNCHANGED <<vrs, raced, wild>>
      BY <2>2 DEF NhRemove
    <3> QED BY <1>2, <1>6, <2>2, <3>1, Forgotten DEF IInv
  <2> QED BY <1>1, <2>1, <2>2 DEF NhCreate, NhCreateFail, NhRemove, NbrCreate, NbrCreateFail,
                                  NbrRemove, FreedWith
<1>8. ASSUME Live(n), ~Live(n)'  PROVE Users(n) = 0
  <2>1. "nextHop" \in nodes.owners[n] /\ "nextHop" \notin nodes'.owners[n]
    BY <1>3, <1>8 DEF Live, IsNextHop
  <2>2. NhRemove(n)
    BY <1>1, <2>1 DEF NhCreate, NhCreateFail, NbrCreate, NbrCreateFail, NbrRemove,
                      Own, Disown, IsNextHop, IInv, TypeOK
  <2> QED BY <1>6, <2>2
<1> QED BY <1>2, <1>3, <1>5, <1>7, <1>8, TargetGraph

(* A group appears or goes, or one member joins or leaves.                 *)
LEMMA GroupGraph ==
  ASSUME IInv, IInv', GroupNext
  PROVE  [Graph!Next]_(Graph!vars)
<1>1. TypeOK /\ links \in Links
  BY DEF IInv, TypeOK, Links
<1>2. ASSUME NEW g \in Group, GroupCreate(g)  PROVE [Graph!Next]_(Graph!vars)
  <2>1. UNCHANGED <<routes, nodes, links>> /\ groups' = groups \cup {g} /\ g \in Target
    BY <1>2 DEF GroupCreate, Target
  <2>2. /\ \A y \in Target : RoutesTo(y)' = RoutesTo(y)
        /\ RoutesIn' = RoutesIn
    BY <2>1 DEF RoutesTo, RoutesIn
  <2>3. \A y \in Target : y # g => (Live(y)' <=> Live(y))
    BY <2>1 DEF Live, IsNextHop
  <2>4. Live(g)'
    BY <2>1 DEF Live
  <2> QED BY <2>1, <2>2, <2>3, <2>4, TargetGraph
<1>3. ASSUME NEW g \in Group, GroupRemove(g)  PROVE [Graph!Next]_(Graph!vars)
  <2>1. /\ UNCHANGED <<vrs, nodes, raced, wild>> /\ groups' = groups \ {g}
        /\ Forget(g) /\ links.groupRef[g] = 0
        /\ links' = [links EXCEPT !.weight[g] = [n \in Nh |-> 0], !.nhCount[g] = 0]
    BY <1>3 DEF GroupRemove
  <2>2. g \in Target /\ g \notin Nh
    BY TargetAssumption DEF Target
  <2>3. Users(g) = 0
    BY <2>1, <2>2, Unused DEF Count
  <2>4. links' = links
    BY <2>1, <2>3, Unlinked
  <2>5. /\ \A y \in Target : RoutesTo(y)' = RoutesTo(y)
        /\ RoutesIn' = RoutesIn
    BY <2>1, <2>2, <2>3, Forgotten DEF IInv
  <2>6. \A y \in Target : y # g => (Live(y)' <=> Live(y))
    BY <2>1 DEF Live, IsNextHop
  <2> QED BY <2>2, <2>3, <2>4, <2>5, <2>6, TargetGraph
<1>4. ASSUME NEW g \in Group, NEW n \in Nh, MemberCreateFail(g, n)
      PROVE  [Graph!Next]_(Graph!vars)
  <2>1. links' = links
    BY <1>1, <1>4, Undone DEF MemberCreateFail
  <2> QED BY <1>4, <2>1, SameGraph DEF MemberCreateFail
<1>5. ASSUME NEW g \in Group, NEW n \in Nh, links' = AddInLists(links, g, n),
             UNCHANGED <<routes, nodes, groups>>
      PROVE  [Graph!Next]_(Graph!vars)
  <2>1. links'.weight = [links.weight EXCEPT ![g][n] = @ + 1]
    BY <1>1, <1>5, Adding DEF OneMore
  <2>2. \A h \in Group, q \in Nh : h # g => links'.weight[h][q] = links.weight[h][q]
    BY <1>1, <2>1 DEF Links
  <2> QED BY <1>5, <2>2, LinkGraph
<1>6. ASSUME NEW m \in Member, MemberRemove(m)  PROVE [Graph!Next]_(Graph!vars)
  <2>1. PICK g \in Group, n \in Nh : members[m] = <<g, n>>
    BY <1>1, <1>6 DEF MemberRemove, TypeOK
  <2>2. /\ links' = RemoveFromLists(links, g, n) /\ links.weight[g][n] > 0
        /\ UNCHANGED <<routes, nodes, groups>>
    BY <1>6, <2>1 DEF MemberRemove
  <2>3. links.nhCount[g] = Cardinality(Entries(g))
    BY DEF IInv, MembersLinked
  <2>4. links'.weight = [links.weight EXCEPT ![g][n] = @ - 1]
    BY <1>1, <2>2, <2>3, RemoveConserved DEF IInv
  <2>5. \A h \in Group, q \in Nh : h # g => links'.weight[h][q] = links.weight[h][q]
    BY <1>1, <2>4 DEF Links
  <2> QED BY <2>2, <2>5, LinkGraph
<1> QED BY <1>2, <1>3, <1>4, <1>5, <1>6
        DEF GroupNext, MemberCreate, MemberCreateLeak

(* The graph starts empty.                                                 *)
LEMMA InitGraph ==
  ASSUME Init
  PROVE  Graph!Init
<1>1. \A x : ~Live(x)
  BY DEF Init, Live, IsNextHop
<1>2. \A v \in Vrf, p \in Prefix : ~Installed(routes[v][p])
  BY RouteTypes DEF Init
<1>3. RoutesIn = {} /\ \A x : RoutesTo(x) = {}
  BY <1>2 DEF RoutesIn, RoutesTo, Forwards
<1>4. Alive = {}
  BY <1>1, <1>3 DEF Alive
<1>5. Uses = {}
  <2>1. {e \in Group \X Nh : links.weight[e[1]][e[2]] > 0} = {}
    BY DEF Init
  <2> QED BY <1>3, <2>1 DEF Uses
<1> QED BY <1>4, <1>5 DEF Graph!Init, Alive, Uses

(* Routes, groups and next hops implement the graph of objects: whatever   *)
(* the calls and their failures, nothing that is pointed to is deleted     *)
(* (the checks at sai_l3_next_hop.c:934 and sai_l3_next_hop_group.c:940),  *)
(* and a handler makes or deletes one object at a time.                    *)
THEOREM Refinement == Spec => ImplementsObjectGraph
<1>1. Init => Graph!Init
  BY InitGraph
<1>2. IInv /\ IInv' /\ [Next]_vars => [Graph!Next]_(Graph!vars)
  <2> SUFFICES ASSUME IInv, IInv', [Next]_vars  PROVE [Graph!Next]_(Graph!vars)
    OBVIOUS
  <2>1. CASE VrNext \/ RouteNext
    BY <2>1, RouteForm, SameGraph, RouteGraph
  <2>2. CASE NhNext
    BY <2>2, NhGraph
  <2>3. CASE GroupNext
    BY <2>3, GroupGraph
  <2>4. CASE UNCHANGED vars
    BY <2>4, SameGraph DEF vars
  <2> QED BY <2>1, <2>2, <2>3, <2>4 DEF Next
<1> QED BY <1>1, <1>2, Invariance, PTL DEF Spec, ImplementsObjectGraph, Graph!Spec
=============================================================================
