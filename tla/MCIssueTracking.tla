-------------------------- MODULE MCIssueTracking --------------------------
(***************************************************************************)
(* Instances of IssueTracking for TLC.                                     *)
(***************************************************************************)
EXTENDS IssueTracking

CONSTANTS d1, d2, d3, d4, d5, e1, e2, e3, e4, e5, r1, r2, r3, r4

\* d1, d2 and d3 are the first events of issues 1, 2 and 3; d4 and d5 are more
\* events of issues 1 and 2.
AllDiffer ==
  [d \in Delivery |->
     CASE d = d1 -> e1 [] d = d2 -> e2 [] d = d3 -> e3 [] d = d4 -> e4 [] d = d5 -> e5]
\* As before, but the SDK sends the event of d4 again as d5.
SentAgain == [d \in Delivery |-> IF d = d5 THEN e4 ELSE AllDiffer[d]]
ByIssue == [e \in EventId |-> CASE e \in {e1, e4} -> 1 [] e \in {e2, e5} -> 2 [] OTHER -> 3]

\* Two merges and an unmerge, and a change of status.
Merges == [r \in Request |-> IF r = r3 THEN "unmerge" ELSE "merge"]
MergesAndStatus == [r \in Request |-> IF r = r4 THEN "status" ELSE Merges[r]]
=============================================================================
