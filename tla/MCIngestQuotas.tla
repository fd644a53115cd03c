--------------------------- MODULE MCIngestQuotas ---------------------------
(***************************************************************************)
(* Instances of IngestQuotas for TLC.                                      *)
(***************************************************************************)
EXTENDS IngestQuotas, TLC

CONSTANTS p1, p2, r1, r2, r3, project, organization, sessions

LimitOf == [q \in Quota |-> IF q = organization THEN 2 ELSE 3]
OnFirst == [r \in Request |-> p1]
OnTwo == [r \in Request |-> IF r = r2 THEN p2 ELSE p1]
\* With no limit for a project.
Sessions == [r \in Request |-> <<sessions>>]
Events == [r \in Request |-> <<project, organization>>]
OneEach == [r \in Request |-> 1]
BatchSizes == [r \in Request |-> IF r = r3 THEN 2 ELSE 1]
=============================================================================
