-------------------------------- MODULE MCAcl --------------------------------
(* Access lists.  A rule holds several kinds of objects; each behaviour     *)
(* uses one kind, its focus, so that more of them fit.                     *)
EXTENDS Acl, TLC

CONSTANTS c1, t1
VARIABLE focus
MCvars == <<focus, aclVars>>
Kinds == {{"group"}, {"rule", "counter"}, {"rule", "policer"}, {"rule", "sample"}}
MCInit == AclInit /\ focus \in Kinds
(* One caller, one priority and one table are enough for all but the       *)
(* tables; counters need two of these.                                     *)
Small ==
  "rule" \in focus =>
    /\ \A c \in Caller \ {c1} : calls[c] = Idle
    /\ "counter" \in focus \/ (calls[c1].prio # 2 /\ \A t \in ATable \ {t1} : ~HasTable(t))
MCNext == AclNext(focus) /\ UNCHANGED focus /\ Small'
MCSpec == MCInit /\ [][MCNext]_MCvars

Symm == Permutations(Sess) \cup Permutations(ARule)
===========================================================================
