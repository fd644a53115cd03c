--------------------------- MODULE MCReleaseHealth ---------------------------
(***************************************************************************)
(* Instances of ReleaseHealth for TLC.                                     *)
(***************************************************************************)
EXTENDS ReleaseHealth

CONSTANTS s1, s2, u1, u2, u3, u4, g1, x1

\* Two updates of a session that crashed, two of one that ended abnormally and
\* whose client is a day ahead, and an aggregate of the same user.
Sessions == [u \in Update |-> IF u \in {u1, u2} THEN s1 ELSE s2]
Outcomes == [u \in Update |-> CASE u = u1 -> 1 [] u = u2 -> 3 [] u = u3 -> 0 [] u = u4 -> 2]
Summed == [g \in Aggregate |-> [c \in Outcome |-> IF c = 0 THEN 3 ELSE IF c = 2 THEN 1 ELSE 0]]
Users == [i \in Item |-> IF i = u4 THEN None ELSE x1]
Starts == [i \in Session \union Aggregate |-> IF i = s2 THEN 1 ELSE 0]
=============================================================================
