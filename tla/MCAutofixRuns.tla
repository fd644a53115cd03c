---------------------------- MODULE MCAutofixRuns ----------------------------
(***************************************************************************)
(* Instances of AutofixRuns for TLC.                                       *)
(***************************************************************************)
EXTENDS AutofixRuns, TLC

Symmetry ==
  Permutations(Worker) \union Permutations(Job) \union Permutations(AutofixRun)
    \union Permutations(Branch) \union Permutations(Request)
=============================================================================
