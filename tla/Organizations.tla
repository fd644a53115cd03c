---------------------------- MODULE Organizations ----------------------------
(***************************************************************************)
(* Who belongs to an organization, with which role: changes and removals   *)
(* of members, invitations, custom roles, and the deletion of a user by an *)
(* administrator of the instance.                                          *)
(*                                                                         *)
(* Several requests are under way at once.  A request that changes members *)
(* locks their rows, one that settles an invitation locks its row, and the *)
(* deletion of a user locks the administrators; everything else is read    *)
(* without a lock and may be stale when it is used.  A transaction has one *)
(* step that locks, reads and checks, and one that writes and commits.     *)
(***************************************************************************)
EXTENDS Naturals, FiniteSets

CONSTANTS
  User,
  Creator,     \* who created the organization
  SystemRole,  \* ROLE_PERMISSIONS, "owner" among them
  CustomRole,
  Permission,
  Grants,      \* the permissions of each role
  Invitation,
  Request,
  None

Role == SystemRole \union CustomRole

ASSUME OrganizationsAssumption ==
  /\ Creator \in User
  /\ "owner" \in SystemRole
  /\ SystemRole \intersect CustomRole = {}
  /\ None \notin User \union Role \union Request \union Invitation
  /\ Grants \in [Role -> SUBSET Permission]
  /\ "members" \in Permission

VARIABLES
  account,     \* users
  member,      \* organization_members: the role of each user
  owner,       \* organizations.owner_user_id
  role,        \* organization_roles: the custom roles there are
  invitation,  \* invitations
  memberLock,  \* who holds the rows of the members
  rowLock,     \* who holds the row of each invitation
  adminLock,   \* who holds the rows of the instance administrators
  request,     \* each request
  crossed,     \* history: roles handed out while they were being deleted
  unseen,      \* history: users who joined unseen by their deletion
  late         \* history: users invited again while they were being deleted

tables == <<account, member, owner, role, invitation>>
locks == <<memberLock, rowLock, adminLock>>
history == <<crossed, unseen, late>>
vars == <<tables, locks, request, history>>

Pc == {"idle", "change", "remove", "write", "settle", "accept", "replace", "insert",
       "assigned", "pending", "drop", "cover", "purge", "delete"}
InvitationRow == [status : {"none", "pending", "accepted", "revoked", "deleted"},
                  email : User \union {None}, by : User \union {None},
                  role : Role \union {None}]
RequestState == [pc : Pc, actor : User \union {None}, user : User \union {None},
                 role : Role \union {None}, invitation : Invitation \union {None}]

NoInvitation == [status |-> "none", email |-> None, by |-> None, role |-> None]
Idle == [pc |-> "idle", actor |-> None, user |-> None, role |-> None, invitation |-> None]

TypeOK ==
  /\ account \subseteq User
  /\ member \in [User -> Role \union {None}]
  /\ owner \in User
  /\ role \subseteq CustomRole
  /\ invitation \in [Invitation -> InvitationRow]
  /\ memberLock \in Request \union {None}
  /\ rowLock \in [Invitation -> Request \union {None}]
  /\ adminLock \in Request \union {None}
  /\ request \in [Request -> RequestState]
  /\ crossed \subseteq CustomRole
  /\ unseen \subseteq User /\ late \subseteq User

\* createOrganization, when all its inserts have gone through.
Init ==
  /\ account = User
  /\ member = [u \in User |-> IF u = Creator THEN "owner" ELSE None]
  /\ owner = Creator
  /\ role = {}
  /\ invitation = [v \in Invitation |-> NoInvitation]
  /\ memberLock = None
  /\ rowLock = [v \in Invitation |-> None]
  /\ adminLock = None
  /\ request = [q \in Request |-> Idle]
  /\ crossed = {} /\ unseen = {} /\ late = {}

-----------------------------------------------------------------------------
(* Role policy.                                                            *)

\* getRolePolicy: a custom role must be in the table.
Known(r) == r \in SystemRole \union role

\* Permissions that are a proper subset of one's own, unless one is an owner.
\* assertRoleManageable and assertRolePermissionsAssignable are the same rule.
Outranks(r, s) ==
  \/ r = "owner"
  \/ s # "owner" /\ Grants[s] \subseteq Grants[r] /\ Grants[s] # Grants[r]

MayHandle(u, r) == Known(member[u]) /\ Known(r) /\ Outranks(member[u], r)

\* OrganizationContextGuard and PermissionGuard, when the request comes in.
Admitted(u) == member[u] # None /\ Known(member[u]) /\ "members" \in Grants[member[u]]

Owners == {u \in User : member[u] = "owner"}

-----------------------------------------------------------------------------
(* Requests.                                                               *)

Goes(q, new) == request' = [request EXCEPT ![q] = new]
Ends(q) == Goes(q, Idle)
At(q, pc) == request[q].pc = pc
Starts(q, u) == At(q, "idle") /\ Admitted(u)
Keep == UNCHANGED <<tables, locks, history>>

\* A role is handed out while a request that deletes it is under way.
Deleting == {request[q].role : q \in {p \in Request : request[p].pc \in {"assigned", "pending", "drop"}}}
Crosses(r) == crossed' = crossed \union ({r} \intersect Deleting)

-----------------------------------------------------------------------------
(* Changing and removing members.                                          *)

AskChange(q, a, u, r) ==
  /\ Starts(q, a) /\ member[u] # None /\ Known(r)
  /\ Goes(q, [Idle EXCEPT !.pc = "change", !.actor = a, !.user = u, !.role = r])
  /\ Keep

AskRemove(q, a, u) ==
  /\ Starts(q, a) /\ member[u] # None
  /\ Goes(q, [Idle EXCEPT !.pc = "remove", !.actor = a, !.user = u])
  /\ Keep

\* Mutant: the rows are read without a lock.
LocksNothing(q, allowed) ==
  /\ IF allowed THEN Goes(q, [request[q] EXCEPT !.pc = "write", !.actor = None]) ELSE Ends(q)
  /\ UNCHANGED <<tables, locks, history>>

\* The rows are locked, read and checked; a failed check rolls back.
Locks(q, allowed) ==
  /\ memberLock = None
  /\ IF allowed
     THEN memberLock' = q /\ Goes(q, [request[q] EXCEPT !.pc = "write", !.actor = None])
     ELSE Ends(q) /\ UNCHANGED memberLock
  /\ UNCHANGED <<tables, rowLock, adminLock, history>>

CheckChange(q) ==
  /\ At(q, "change")
  /\ LET a == request[q].actor
         u == request[q].user
         r == request[q].role
     IN Locks(q, /\ member[a] # None /\ member[u] # None
                 /\ u = a => member[a] = "owner"
                 /\ MayHandle(a, member[u]) /\ MayHandle(a, r)
                 /\ (member[u] = "owner" /\ r # "owner") => Cardinality(Owners) > 1)

CheckRemove(q) ==
  /\ At(q, "remove")
  /\ LET a == request[q].actor
         u == request[q].user
     IN Locks(q, /\ member[a] # None /\ member[u] # None
                 /\ u # a
                 /\ MayHandle(a, member[u]))

\* The role of the row, or None for a row that is deleted, and the commit.
WriteMember(q) ==
  /\ At(q, "write")
  /\ member' = [member EXCEPT ![request[q].user] = request[q].role]
  /\ memberLock' = IF memberLock = q THEN None ELSE memberLock
  /\ Crosses(request[q].role)
  /\ Ends(q)
  /\ UNCHANGED <<account, owner, role, invitation, rowLock, adminLock, unseen, late>>

-----------------------------------------------------------------------------
(* Invitations.                                                            *)

Pending(v) == invitation[v].status = "pending"

\* What else a settled row says matters to nobody, and is dropped.
Row(status) == [NoInvitation EXCEPT !.status = status]
Settle(v, status) == invitation' = [invitation EXCEPT ![v] = Row(status)]

AskInvite(q, a, u, r) ==
  /\ Starts(q, a) /\ MayHandle(a, r)
  /\ Goes(q, [Idle EXCEPT !.pc = "replace", !.actor = a, !.user = u, !.role = r])
  /\ Keep

\* resendInvitation reads who was invited as what, and invites again.
AskResend(q, a, v) == Pending(v) /\ AskInvite(q, a, invitation[v].email, invitation[v].role)

\* The update revokes what is pending for the address, and waits for rows
\* that are being accepted or revoked.
Replace(q) ==
  /\ At(q, "replace")
  /\ LET replaced == {v \in Invitation : Pending(v) /\ invitation[v].email = request[q].user}
     IN /\ \A v \in replaced : rowLock[v] = None
        /\ invitation' = [v \in Invitation |->
             IF v \in replaced THEN Row("revoked") ELSE invitation[v]]
  /\ Goes(q, [request[q] EXCEPT !.pc = "insert"])
  /\ UNCHANGED <<account, member, owner, role, locks, history>>

Insert(q, v) ==
  /\ At(q, "insert") /\ invitation[v].status = "none"
  /\ invitation' = [invitation EXCEPT ![v] =
       [status |-> "pending", email |-> request[q].user, by |-> request[q].actor,
        role |-> request[q].role]]
  /\ Crosses(request[q].role)
  /\ late' = late \union {u \in {request[q].user} :
       \E p \in Request : request[p].user = u /\ request[p].pc = "delete"}
  /\ Ends(q)
  /\ UNCHANGED <<account, member, owner, role, locks, unseen>>

\* Mutant: the invitation is read without a lock.
HoldsNothing(q, v, pc) ==
  /\ Pending(v)
  /\ UNCHANGED rowLock
  /\ Goes(q, [Idle EXCEPT !.pc = pc, !.invitation = v, !.role = invitation[v].role])

\* The row of a pending invitation is read and locked.
Holds(q, v, pc) ==
  /\ Pending(v) /\ rowLock[v] = None
  /\ rowLock' = [rowLock EXCEPT ![v] = q]
  /\ Goes(q, [Idle EXCEPT !.pc = pc, !.invitation = v, !.role = invitation[v].role])

Lets(v) == rowLock' = [rowLock EXCEPT ![v] = None]

Revoke(q, a, v) ==
  /\ Starts(q, a) /\ MayHandle(a, invitation[v].role)
  /\ Holds(q, v, "settle")
  /\ UNCHANGED <<tables, memberLock, adminLock, history>>

WriteRevoked(q) ==
  /\ At(q, "settle")
  /\ Settle(request[q].invitation, "revoked")
  /\ Lets(request[q].invitation)
  /\ Ends(q)
  /\ UNCHANGED <<account, member, owner, role, memberLock, adminLock, history>>

\* The invited user accepts, with the role as it was offered.
Accept(q, v) ==
  /\ At(q, "idle")
  /\ invitation[v].email \in account /\ Known(invitation[v].role)
  /\ Holds(q, v, "accept")
  /\ UNCHANGED <<tables, memberLock, adminLock, history>>

\* A user who is a member already stays as they are.
WriteAccepted(q) ==
  /\ At(q, "accept")
  /\ LET v == request[q].invitation
         u == invitation[v].email
     IN /\ member' = [member EXCEPT ![u] = IF member[u] = None THEN request[q].role ELSE @]
        /\ Settle(v, "accepted")
        /\ Lets(v)
        /\ unseen' = unseen \union {w \in {u} :
             \E p \in Request : request[p].user = w /\ request[p].pc \in {"purge", "delete"}
                                /\ memberLock # p}
  /\ Crosses(request[q].role)
  /\ Ends(q)
  /\ UNCHANGED <<account, owner, role, memberLock, adminLock, late>>

-----------------------------------------------------------------------------
(* Custom roles.                                                           *)

CreateRole(q, a, r) ==
  /\ Starts(q, a) /\ Outranks(member[a], r) /\ r \notin role
  /\ role' = role \union {r}
  /\ UNCHANGED <<account, member, owner, invitation, locks, request, history>>

AskDrop(q, a, r) ==
  /\ Starts(q, a) /\ r \in role /\ MayHandle(a, r)
  /\ Goes(q, [Idle EXCEPT !.pc = "assigned", !.role = r])
  /\ Keep

\* Mutant: members with the role are not looked for.
CheckNothing(q) ==
  /\ At(q, "assigned")
  /\ Goes(q, [request[q] EXCEPT !.pc = "pending"])
  /\ Keep

CheckAssigned(q) ==
  /\ At(q, "assigned")
  /\ IF \E u \in User : member[u] = request[q].role
     THEN Ends(q) ELSE Goes(q, [request[q] EXCEPT !.pc = "pending"])
  /\ Keep

CheckPending(q) ==
  /\ At(q, "pending")
  /\ IF \E v \in Invitation : Pending(v) /\ invitation[v].role = request[q].role
     THEN Ends(q) ELSE Goes(q, [request[q] EXCEPT !.pc = "drop"])
  /\ Keep

\* A request that has checked the role and is about to hand it out crosses.
Drop(q) ==
  /\ At(q, "drop")
  /\ LET r == request[q].role
     IN /\ role' = role \ {r}
        /\ crossed' = crossed \union {s \in {r} :
             \E p \in Request : request[p].role = s /\ request[p].pc \in {"write", "accept"}}
  /\ Ends(q)
  /\ UNCHANGED <<account, member, owner, invitation, locks, unseen, late>>

-----------------------------------------------------------------------------
(* The deletion of a user.                                                 *)

\* Mutant: only organizations the user is a member of are looked at.
AskDeleteMember(q, u) ==
  /\ At(q, "idle") /\ u \in account
  /\ adminLock = None
  /\ adminLock' = q
  /\ Goes(q, [Idle EXCEPT !.user = u, !.pc = IF member[u] # None THEN "cover" ELSE "purge"])
  /\ UNCHANGED <<tables, memberLock, rowLock, history>>

\* Locks administrators and the user, and reads where the user belongs: only
\* if it is here are the members looked at.
AskDelete(q, u) ==
  /\ At(q, "idle") /\ u \in account
  /\ adminLock = None
  /\ adminLock' = q
  /\ Goes(q, [Idle EXCEPT !.user = u,
                          !.pc = IF member[u] # None \/ owner = u THEN "cover" ELSE "purge"])
  /\ UNCHANGED <<tables, memberLock, rowLock, history>>

\* An owner needs a successor, who is an owner too.
Cover(q) ==
  /\ At(q, "cover") /\ memberLock = None
  /\ LET u == request[q].user
         successors == Owners \ {u}
     IN IF (owner = u \/ u \in Owners) /\ successors = {}
        THEN Ends(q) /\ adminLock' = None /\ UNCHANGED <<memberLock, owner>>
        ELSE /\ memberLock' = q
             /\ owner' \in IF owner = u THEN successors ELSE {owner}
             /\ Goes(q, [request[q] EXCEPT !.pc = "purge"])
             /\ UNCHANGED adminLock
  /\ UNCHANGED <<account, member, role, invitation, rowLock, history>>

\* Mutant: the account goes before the invitations.
PurgeUnheld(q) ==
  /\ At(q, "purge")
  /\ Goes(q, [request[q] EXCEPT !.pc = "delete"])
  /\ Keep

\* The invitations of the user go first, once nobody holds them.
Purge(q) ==
  /\ At(q, "purge")
  /\ LET u == request[q].user
         purged == {v \in Invitation : u \in {invitation[v].email, invitation[v].by}}
     IN /\ \A v \in purged : rowLock[v] = None
        /\ invitation' = [v \in Invitation |->
             IF v \in purged THEN Row("deleted") ELSE invitation[v]]
  /\ Goes(q, [request[q] EXCEPT !.pc = "delete"])
  /\ UNCHANGED <<account, member, owner, role, locks, history>>

Delete(q) ==
  /\ At(q, "delete") /\ memberLock \in {None, q}
  /\ LET u == request[q].user
     IN member' = [member EXCEPT ![u] = None] /\ account' = account \ {u}
  /\ memberLock' = None /\ adminLock' = None
  /\ Ends(q)
  /\ UNCHANGED <<owner, role, invitation, rowLock, history>>

-----------------------------------------------------------------------------
(* Specification.                                                          *)

MemberStep(q) ==
  \/ \E a, u \in User, r \in Role : AskChange(q, a, u, r)
  \/ \E a, u \in User : AskRemove(q, a, u)
  \/ CheckChange(q) \/ CheckRemove(q) \/ WriteMember(q)

InvitationStep(q) ==
  \/ \E a, u \in User, r \in Role : AskInvite(q, a, u, r)
  \/ \E a \in User, v \in Invitation : AskResend(q, a, v) \/ Revoke(q, a, v)
  \/ \E v \in Invitation : Insert(q, v) \/ Accept(q, v)
  \/ Replace(q) \/ WriteRevoked(q) \/ WriteAccepted(q)

RoleStep(q) ==
  \/ \E a \in User, r \in CustomRole : CreateRole(q, a, r) \/ AskDrop(q, a, r)
  \/ CheckAssigned(q) \/ CheckPending(q) \/ Drop(q)

DeletionStep(q) ==
  (\E u \in User : AskDelete(q, u)) \/ Cover(q) \/ Purge(q) \/ Delete(q)

Next ==
  \E q \in Request : MemberStep(q) \/ InvitationStep(q) \/ RoleStep(q) \/ DeletionStep(q)

Spec == Init /\ [][Next]_vars

-----------------------------------------------------------------------------
(* What an organization is promised.                                       *)

\* There is always an owner, whichever owners change, remove or delete each
\* other at the same time; but a user who joins after their deletion has read
\* where they belong is deleted without a successor.
HasOwner == Owners # {} \/ unseen # {}

\* The user the organization names as its owner exists: a deletion passes
\* this on to a user who is not deleted in turn.
OwnerHasAccount == owner \in account \union late

\* A deleted user is no member, although accepting an invitation checks the
\* user without a lock: the deletion waits for the invitation.  Only an
\* invitation that is made during the deletion escapes it.
MemberHasAccount == \A u \in User : member[u] # None => u \in account \union late

\* The role of a member exists, unless it was handed out while it was deleted.
MemberHasRole ==
  \A u \in User : member[u] # None => Known(member[u]) \/ member[u] \in crossed

\* An invitation is accepted or revoked once, and never both.
SettledOnce ==
  [][\A v \in Invitation :
       invitation[v].status \in {"accepted", "revoked"} =>
         invitation'[v].status \in {invitation[v].status, "deleted"}]_vars
=============================================================================
