--------------------------- MODULE MCOrganizations ---------------------------
(***************************************************************************)
(* Instances of Organizations for TLC.                                     *)
(***************************************************************************)
EXTENDS Organizations, TLC

CONSTANT Custom  \* the one custom role

Roles == {"owner", "member"}
Customs == {Custom}
Permissions == {"members", "issues"}

\* A custom role that may handle members, but less than an owner may.
RoleGrants ==
  [r \in Roles \union Customs |->
     IF r = "owner" THEN Permissions ELSE IF r = Custom THEN {"members"} ELSE {}]

Symmetry == Permutations(Request) \union Permutations(Invitation)
=============================================================================
