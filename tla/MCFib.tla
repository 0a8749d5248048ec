------------------------------- MODULE MCFib -------------------------------
(* Fib on small instances.                                                 *)
EXTENDS Fib, TLC

(* One router interface.                                                   *)
OneRif == [n \in Nh |-> CHOOSE r \in Rif : TRUE]

(* Threads and member ids are interchangeable.                             *)
Symmetric == Permutations(Thread) \cup Permutations(Member)
=============================================================================
