----------------------------- MODULE MCJobQueue -----------------------------
(***************************************************************************)
(* Instances of JobQueue for TLC.                                          *)
(***************************************************************************)
EXTENDS JobQueue, TLC

\* The per-type limits of the instances.
AttemptsTwo == [t \in Type |-> 2]
AttemptsOne == [t \in Type |-> 1]

Symmetry == Permutations(Worker) \union Permutations(Slot) \union Permutations(Job)
=============================================================================
