---------------------------- MODULE ObjectGraph ----------------------------
(***************************************************************************)
(* What the FIB promises about the objects that point to one another: a    *)
(* route or a next hop group forwards only to objects that exist, and an   *)
(* object is deleted only when no object that stays points to it.          *)
(***************************************************************************)
CONSTANT Object

VARIABLES
  alive,   \* the objects that exist
  uses     \* the pairs <<user, used>>

vars == <<alive, uses>>

Edges(o, u) == {e \in u : e[1] = o}

Init == alive = {} /\ uses = {}

(* What o points to changes, to objects that exist.                        *)
Points(o) ==
  /\ uses' \ Edges(o, uses') = uses \ Edges(o, uses)
  /\ \A e \in Edges(o, uses') : e[2] \in alive

Create(o) ==
  /\ o \notin alive
  /\ alive' = alive \cup {o}
  /\ Points(o)

Redirect(o) ==
  /\ o \in alive
  /\ UNCHANGED alive
  /\ Points(o)

(* An object goes, and nobody that stays pointed to it.                    *)
Delete(o) ==
  /\ o \in alive
  /\ \A e \in uses : e[2] # o
  /\ alive' = alive \ {o}
  /\ uses' = uses \ Edges(o, uses)

Next == \E o \in Object : Create(o) \/ Redirect(o) \/ Delete(o)

Spec == Init /\ [][Next]_vars
=============================================================================
