----------------------------- MODULE MCAlerting -----------------------------
(***************************************************************************)
(* Instances of Alerting for TLC.                                          *)
(***************************************************************************)
EXTENDS Alerting, TLC

\* Rules that listen to everything an event can trigger.
OneSet == {Trigger}

AllJobs == Event \union Delivery

Symmetry == Permutations(Worker) \union Permutations(Delivery)
=============================================================================
