------------------------- MODULE OrganizationsProofs -------------------------
(***************************************************************************)
(* Proofs about Organizations, for every set of users, roles, permissions, *)
(* invitations and requests, finite or not.                                *)
(***************************************************************************)
EXTENDS Organizations, TLAPS, FiniteSetTheorems

\* What a request under way says is well formed.
Said(x) ==
  /\ x.pc \in {"change", "remove", "write", "replace", "insert", "cover", "purge", "delete"}
       => x.user \in User
  /\ x.pc \in {"change", "remove"} => x.actor \in User
  /\ x.pc \in {"change", "replace", "insert", "accept"} => x.role \in Role
  /\ x.pc \in {"assigned", "pending", "drop"} => x.role \in CustomRole
  /\ x.pc \in {"settle", "accept"} => x.invitation \in Invitation

FormInv ==
  /\ TypeOK
  /\ \A q \in Request : Said(request[q])
  /\ \A v \in Invitation : Pending(v) => invitation[v].email \in User /\ invitation[v].role \in Role

\* A transaction holds its locks until it ends, and an invitation whose row
\* is held stays pending.
LockInv ==
  \A q \in Request :
    /\ At(q, "write") => memberLock = q
    /\ request[q].pc \in {"cover", "purge", "delete"} => adminLock = q
    /\ request[q].pc \in {"settle", "accept"} =>
         rowLock[request[q].invitation] = q /\ Pending(request[q].invitation)

\* What a request is about to do to a member leaves an owner.
LeavesOwner(u) == Owners \ {u} # {} \/ unseen # {}

OwnerInv ==
  /\ HasOwner
  /\ \A q \in Request :
       /\ At(q, "write") =>
            /\ member[request[q].user] # None
            /\ request[q].role = "owner" \/ LeavesOwner(request[q].user)
       /\ (request[q].pc \in {"purge", "delete"} /\ memberLock = q) =>
            LeavesOwner(request[q].user)
       /\ (request[q].pc \in {"purge", "delete"} /\ memberLock # q) =>
            member[request[q].user] = None \/ request[q].user \in unseen

\* A user who is deleted is not the owner any more, and past the invitations
\* only those made since are pending.
AccountInv ==
  /\ OwnerHasAccount
  /\ MemberHasAccount
  /\ \A q \in Request :
       /\ request[q].pc \in {"purge", "delete"} => owner # request[q].user
       /\ At(q, "delete") =>
            \A v \in Invitation :
              Pending(v) /\ invitation[v].email = request[q].user => request[q].user \in late
       /\ At(q, "accept") => invitation[request[q].invitation].email \in account \union late

\* A role that was checked is there, or was deleted meanwhile.
Handed(r) == Known(r) \/ r \in crossed

RoleInv ==
  /\ MemberHasRole
  /\ \A q \in Request :
       /\ request[q].pc \in {"pending", "drop"} =>
            \A u \in User : member[u] = request[q].role => request[q].role \in crossed
       /\ At(q, "remove") => request[q].role = None
       /\ At(q, "write") => request[q].role = None \/ Handed(request[q].role)
       /\ At(q, "accept") => Handed(request[q].role)

IInv == FormInv /\ LockInv /\ OwnerInv /\ AccountInv /\ RoleInv

-----------------------------------------------------------------------------
(* The forms of the rows and the requests.                                 *)

LEMMA RequestMoves ==
  ASSUME FormInv, NEW q \in Request, NEW new \in RequestState, Said(new), Goes(q, new)
  PROVE  request' \in [Request -> RequestState] /\ \A p \in Request : Said(request'[p])
  BY DEF FormInv, TypeOK, Goes

LEMMA IdleSaid == Idle \in RequestState /\ Said(Idle)
  BY DEF Idle, RequestState, Pc, Said

LEMMA RowsTyped == NoInvitation \in InvitationRow
                   /\ \A s \in {"accepted", "revoked", "deleted"} :
                        Row(s) \in InvitationRow /\ Row(s).status = s
  BY DEF NoInvitation, InvitationRow, Row

LEMMA RequestAsks ==
  ASSUME FormInv, NEW q \in Request, NEW new \in RequestState, Said(new), Goes(q, new), Keep
  PROVE  FormInv'
  BY RequestMoves DEF FormInv, TypeOK, Keep, Pending, tables, locks, history

LEMMA RowSettles ==
  ASSUME FormInv, NEW v, NEW status \in {"accepted", "revoked", "deleted"}, Settle(v, status)
  PROVE  /\ invitation' \in [Invitation -> InvitationRow]
         /\ \A i \in Invitation :
              Pending(i)' => invitation'[i].email \in User /\ invitation'[i].role \in Role
<1>1. Row(status) \in InvitationRow /\ Row(status).status = status
  BY RowsTyped
<1>2. invitation' = [invitation EXCEPT ![v] = Row(status)]
  BY DEF Settle
<1>3. \A i \in Invitation : invitation'[i] \in {invitation[i], Row(status)}
  BY <1>2 DEF FormInv, TypeOK
<1>4. invitation' \in [Invitation -> InvitationRow]
  BY <1>1, <1>2 DEF FormInv, TypeOK
<1>5. QED  BY <1>1, <1>3, <1>4 DEF FormInv, Pending

LEMMA RowHeld ==
  ASSUME FormInv, NEW q \in Request, NEW v \in Invitation, NEW pc \in {"settle", "accept"},
         Holds(q, v, pc), UNCHANGED <<tables, memberLock, adminLock, history>>
  PROVE  FormInv'
<1> DEFINE new == [Idle EXCEPT !.pc = pc, !.invitation = v, !.role = invitation[v].role]
<1>1. invitation[v].role \in Role
  BY DEF Holds, FormInv
<1>2. new \in RequestState /\ Said(new)
  BY <1>1 DEF Idle, RequestState, Pc, Said
<1>3. request' \in [Request -> RequestState] /\ \A p \in Request : Said(request'[p])
  BY <1>2, RequestMoves DEF Holds
<1>4. rowLock' \in [Invitation -> Request \union {None}]
  BY DEF Holds, FormInv, TypeOK
<1>5. QED  BY <1>3, <1>4 DEF FormInv, TypeOK, Pending, tables, history

LEMMA LocksForm ==
  ASSUME FormInv, NEW q \in Request, NEW allowed \in BOOLEAN,
         request[q].user \in User, Locks(q, allowed)
  PROVE  FormInv'
<1>1. CASE allowed
  <2>1. [request[q] EXCEPT !.pc = "write", !.actor = None] \in RequestState
    BY DEF FormInv, TypeOK, RequestState, Pc
  <2>2. Said([request[q] EXCEPT !.pc = "write", !.actor = None])
    BY DEF FormInv, TypeOK, RequestState, Said
  <2>3. QED  BY <1>1, <2>1, <2>2, RequestMoves
             DEF Locks, FormInv, TypeOK, Pending, tables, history
<1>2. CASE ~allowed
  BY <1>2, IdleSaid, RequestMoves
     DEF Locks, Ends, FormInv, TypeOK, Pending, tables, history
<1>3. QED  BY <1>1, <1>2

LEMMA RolesChecked ==
  ASSUME FormInv, NEW q \in Request, NEW new,
         new \in {Idle} \union {[request[q] EXCEPT !.pc = pc] : pc \in {"pending", "drop"}},
         request[q].role \in CustomRole, Goes(q, new), Keep
  PROVE  FormInv'
<1>1. new \in RequestState /\ Said(new)
  <2>1. CASE new = Idle
    BY <2>1, IdleSaid
  <2>2. ASSUME NEW pc \in {"pending", "drop"}, new = [request[q] EXCEPT !.pc = pc]
        PROVE  new \in RequestState /\ Said(new)
    <3>1. new \in RequestState
      BY <2>2 DEF FormInv, TypeOK, RequestState, Pc
    <3>2. Said(new)
      BY <2>2 DEF FormInv, TypeOK, RequestState, Said
    <3>3. QED  BY <3>1, <3>2
  <2>3. QED  BY <2>1, <2>2
<1>2. QED  BY <1>1, RequestAsks

LEMMA FormKept ==
  ASSUME FormInv, LockInv, [Next]_vars
  PROVE  FormInv'
<1>1. ASSUME NEW q \in Request, NEW a \in User, NEW u \in User, NEW r \in Role, AskChange(q, a, u, r)
      PROVE  FormInv'
  <2> DEFINE new == [Idle EXCEPT !.pc = "change", !.actor = a, !.user = u, !.role = r]
  <2>1. new \in RequestState /\ Said(new)
    BY DEF Idle, RequestState, Pc, Said
  <2>2. QED  BY <1>1, <2>1, RequestAsks DEF AskChange
<1>2. ASSUME NEW q \in Request, NEW a \in User, NEW u \in User, AskRemove(q, a, u)
      PROVE  FormInv'
  <2> DEFINE new == [Idle EXCEPT !.pc = "remove", !.actor = a, !.user = u]
  <2>1. new \in RequestState /\ Said(new)
    BY DEF Idle, RequestState, Pc, Said
  <2>2. QED  BY <1>2, <2>1, RequestAsks DEF AskRemove
<1>3. ASSUME NEW q \in Request, CheckChange(q)
      PROVE  FormInv'
  <2>1. request[q].user \in User
    BY <1>3 DEF CheckChange, At, FormInv, Said
  <2>2. QED  BY <1>3, <2>1, LocksForm DEF CheckChange
<1>4. ASSUME NEW q \in Request, CheckRemove(q)
      PROVE  FormInv'
  <2>1. request[q].user \in User
    BY <1>4 DEF CheckRemove, At, FormInv, Said
  <2>2. QED  BY <1>4, <2>1, LocksForm DEF CheckRemove
<1>5. ASSUME NEW q \in Request, WriteMember(q)
      PROVE  FormInv'
  <2>1. request' \in [Request -> RequestState] /\ \A p \in Request : Said(request'[p])
    BY <1>5, IdleSaid, RequestMoves DEF WriteMember, Ends
  <2>2. member' \in [User -> Role \union {None}]
    BY <1>5 DEF WriteMember, FormInv, TypeOK, RequestState
  <2>3. crossed' \subseteq CustomRole
    BY <1>5 DEF WriteMember, Crosses, Deleting, FormInv, TypeOK, Said
  <2>4. memberLock' \in Request \union {None}
    BY <1>5 DEF WriteMember, FormInv, TypeOK
  <2>5. QED  BY <1>5, <2>1, <2>2, <2>3, <2>4 DEF WriteMember, FormInv, TypeOK, Pending
<1>6. ASSUME NEW q \in Request, NEW a \in User, NEW u \in User, NEW r \in Role, AskInvite(q, a, u, r)
      PROVE  FormInv'
  <2> DEFINE new == [Idle EXCEPT !.pc = "replace", !.actor = a, !.user = u, !.role = r]
  <2>1. new \in RequestState /\ Said(new)
    BY DEF Idle, RequestState, Pc, Said
  <2>2. QED  BY <1>6, <2>1, RequestAsks DEF AskInvite
<1>7. ASSUME NEW q \in Request, NEW a \in User, NEW v \in Invitation, AskResend(q, a, v)
      PROVE  FormInv'
  BY <1>6, <1>7 DEF AskResend, FormInv
<1>8. ASSUME NEW q \in Request, NEW a \in User, NEW v \in Invitation, Revoke(q, a, v)
      PROVE  FormInv'
  BY <1>8, RowHeld DEF Revoke
<1>9. ASSUME NEW q \in Request, NEW v \in Invitation, Insert(q, v)
      PROVE  FormInv'
  <2> DEFINE new == [status |-> "pending", email |-> request[q].user, by |-> request[q].actor,
                     role |-> request[q].role]
  <2>1. request[q].user \in User /\ request[q].role \in Role /\ new \in InvitationRow
    BY <1>9 DEF Insert, At, FormInv, TypeOK, Said, RequestState, InvitationRow
  <2>2. request' \in [Request -> RequestState] /\ \A p \in Request : Said(request'[p])
    BY <1>9, IdleSaid, RequestMoves DEF Insert, Ends
  <2>3. invitation' = [invitation EXCEPT ![v] = new]
    BY <1>9 DEF Insert
  <2>4. invitation' \in [Invitation -> InvitationRow]
    BY <2>1, <2>3 DEF FormInv, TypeOK
  <2>5. \A i \in Invitation :
          Pending(i)' => invitation'[i].email \in User /\ invitation'[i].role \in Role
    BY <2>1, <2>3 DEF FormInv, TypeOK, Pending
  <2>6. crossed' \subseteq CustomRole /\ late' \subseteq User
    BY <1>9, <2>1 DEF Insert, Crosses, Deleting, FormInv, TypeOK, Said
  <2>7. QED  BY <1>9, <2>2, <2>4, <2>5, <2>6 DEF Insert, FormInv, TypeOK, locks
<1>10. ASSUME NEW q \in Request, NEW v \in Invitation, Accept(q, v)
      PROVE  FormInv'
  BY <1>10, RowHeld DEF Accept
<1>11. ASSUME NEW q \in Request, Replace(q)
      PROVE  FormInv'
  <2>1. [request[q] EXCEPT !.pc = "insert"] \in RequestState
    BY DEF FormInv, TypeOK, RequestState, Pc
  <2>2. Said([request[q] EXCEPT !.pc = "insert"])
    BY <1>11 DEF Replace, At, FormInv, TypeOK, RequestState, Said
  <2>3. request' \in [Request -> RequestState] /\ \A p \in Request : Said(request'[p])
    BY <1>11, <2>1, <2>2, RequestMoves DEF Replace
  <2>4. \A v \in Invitation : invitation'[v] \in {invitation[v], Row("revoked")}
    BY <1>11 DEF Replace
  <2>5. invitation' \in [Invitation -> InvitationRow]
    BY <1>11, RowsTyped DEF Replace, FormInv, TypeOK
  <2>6. QED  BY <1>11, <2>3, <2>4, <2>5, RowsTyped
             DEF Replace, FormInv, TypeOK, Pending, locks, history
<1>12. ASSUME NEW q \in Request, WriteRevoked(q)
      PROVE  FormInv'
  <2>1. request' \in [Request -> RequestState] /\ \A p \in Request : Said(request'[p])
    BY <1>12, IdleSaid, RequestMoves DEF WriteRevoked, Ends
  <2>2. rowLock' \in [Invitation -> Request \union {None}]
    BY <1>12 DEF WriteRevoked, Lets, FormInv, TypeOK
  <2>3. QED  BY <1>12, <2>1, <2>2, RowSettles DEF WriteRevoked, FormInv, TypeOK, history
<1>13. ASSUME NEW q \in Request, WriteAccepted(q)
      PROVE  FormInv'
  <2> DEFINE v == request[q].invitation
             u == invitation[v].email
  <2>1. v \in Invitation /\ request[q].role \in Role /\ u \in User
    BY <1>13 DEF WriteAccepted, At, FormInv, Said, LockInv
  <2>2. request' \in [Request -> RequestState] /\ \A p \in Request : Said(request'[p])
    BY <1>13, IdleSaid, RequestMoves DEF WriteAccepted, Ends
  <2>3. member' \in [User -> Role \union {None}]
    BY <1>13, <2>1 DEF WriteAccepted, FormInv, TypeOK
  <2>4. Settle(v, "accepted")
    BY <1>13 DEF WriteAccepted
  <2>5. crossed' \subseteq CustomRole
    BY <1>13 DEF WriteAccepted, Crosses, Deleting, FormInv, TypeOK, Said
  <2>6. unseen' \subseteq User
    BY <1>13, <2>1 DEF WriteAccepted, FormInv, TypeOK
  <2>7. rowLock' \in [Invitation -> Request \union {None}]
    BY <1>13 DEF WriteAccepted, Lets, FormInv, TypeOK
  <2>8. QED  BY <1>13, <2>2, <2>3, <2>4, <2>5, <2>6, <2>7, RowSettles
             DEF WriteAccepted, FormInv, TypeOK
<1>14. ASSUME NEW q \in Request, NEW a \in User, NEW r \in CustomRole, CreateRole(q, a, r)
      PROVE  FormInv'
  BY <1>14 DEF CreateRole, FormInv, TypeOK, Pending, locks, history
<1>15. ASSUME NEW q \in Request, NEW a \in User, NEW r \in CustomRole, AskDrop(q, a, r)
      PROVE  FormInv'
  <2>1. [Idle EXCEPT !.pc = "assigned", !.role = r] \in RequestState
    BY DEF Idle, RequestState, Pc, Role
  <2>2. Said([Idle EXCEPT !.pc = "assigned", !.role = r])
    BY DEF Idle, Said
  <2>3. QED  BY <1>15, <2>1, <2>2, RequestAsks DEF AskDrop
<1>16. ASSUME NEW q \in Request, CheckAssigned(q)
      PROVE  FormInv'
  BY <1>16, RolesChecked DEF CheckAssigned, At, Ends, FormInv, Said
<1>17. ASSUME NEW q \in Request, CheckPending(q)
      PROVE  FormInv'
  BY <1>17, RolesChecked DEF CheckPending, At, Ends, FormInv, Said
<1>18. ASSUME NEW q \in Request, Drop(q)
      PROVE  FormInv'
  <2>1. request' \in [Request -> RequestState] /\ \A p \in Request : Said(request'[p])
    BY <1>18, IdleSaid, RequestMoves DEF Drop, Ends
  <2>2. role' \subseteq CustomRole /\ crossed' \subseteq CustomRole
    BY <1>18 DEF Drop, At, FormInv, TypeOK, Said
  <2>3. QED  BY <1>18, <2>1, <2>2 DEF Drop, FormInv, TypeOK, Pending, locks
<1>19. ASSUME NEW q \in Request, NEW u \in User, AskDelete(q, u)
      PROVE  FormInv'
  <2> DEFINE pc == IF member[u] # None \/ owner = u THEN "cover" ELSE "purge"
             new == [Idle EXCEPT !.user = u, !.pc = pc]
  <2>1. new \in RequestState /\ Said(new)
    BY DEF Idle, RequestState, Pc, Said
  <2>2. request' \in [Request -> RequestState] /\ \A p \in Request : Said(request'[p])
    BY <1>19, <2>1, RequestMoves DEF AskDelete
  <2>3. QED  BY <1>19, <2>2 DEF AskDelete, FormInv, TypeOK, Pending, tables, history
<1>20. ASSUME NEW q \in Request, Cover(q)
      PROVE  FormInv'
  <2>1. CASE Ends(q) /\ owner' = owner /\ adminLock' = None /\ memberLock' = memberLock
    BY <1>20, <2>1, IdleSaid, RequestMoves
       DEF Cover, Ends, FormInv, TypeOK, Pending, history
  <2>2. CASE Goes(q, [request[q] EXCEPT !.pc = "purge"]) /\ owner' \in User
             /\ memberLock' = q /\ adminLock' = adminLock
    <3>1. [request[q] EXCEPT !.pc = "purge"] \in RequestState
      BY DEF FormInv, TypeOK, RequestState, Pc
    <3>2. Said([request[q] EXCEPT !.pc = "purge"])
      BY <1>20 DEF Cover, At, FormInv, TypeOK, RequestState, Said
    <3>3. QED  BY <1>20, <2>2, <3>1, <3>2, RequestMoves
                  DEF Cover, FormInv, TypeOK, Pending, history
  <2>3. owner \in User /\ Owners \subseteq User
    BY DEF FormInv, TypeOK, Owners
  <2>4. QED  BY <1>20, <2>1, <2>2, <2>3 DEF Cover
<1>21. ASSUME NEW q \in Request, Purge(q)
      PROVE  FormInv'
  <2>1. [request[q] EXCEPT !.pc = "delete"] \in RequestState
    BY DEF FormInv, TypeOK, RequestState, Pc
  <2>2. Said([request[q] EXCEPT !.pc = "delete"])
    BY <1>21 DEF Purge, At, FormInv, TypeOK, RequestState, Said
  <2>3. request' \in [Request -> RequestState] /\ \A p \in Request : Said(request'[p])
    BY <1>21, <2>1, <2>2, RequestMoves DEF Purge
  <2>4. \A v \in Invitation : invitation'[v] \in {invitation[v], Row("deleted")}
    BY <1>21 DEF Purge
  <2>5. invitation' \in [Invitation -> InvitationRow]
    BY <1>21, RowsTyped DEF Purge, FormInv, TypeOK
  <2>6. QED  BY <1>21, <2>3, <2>4, <2>5, RowsTyped
             DEF Purge, FormInv, TypeOK, Pending, locks, history
<1>22. ASSUME NEW q \in Request, Delete(q)
      PROVE  FormInv'
  <2>1. request' \in [Request -> RequestState] /\ \A p \in Request : Said(request'[p])
    BY <1>22, IdleSaid, RequestMoves DEF Delete, Ends
  <2>2. account' \subseteq User /\ member' \in [User -> Role \union {None}]
    BY <1>22 DEF Delete, FormInv, TypeOK
  <2>3. QED  BY <1>22, <2>1, <2>2 DEF Delete, FormInv, TypeOK, Pending, history
<1>23. CASE UNCHANGED vars
  BY <1>23 DEF FormInv, TypeOK, Pending, vars, tables, locks, history
<1>24. QED
  BY <1>1, <1>2, <1>3, <1>4, <1>5, <1>6, <1>7, <1>8, <1>9, <1>10, <1>11, <1>12, <1>13,
     <1>14, <1>15, <1>16, <1>17, <1>18, <1>19, <1>20, <1>21, <1>22, <1>23
     DEF Next, MemberStep, InvitationStep, RoleStep, DeletionStep

-----------------------------------------------------------------------------
(* The locks.                                                              *)

LEMMA Moved ==
  ASSUME FormInv, NEW q \in Request, NEW new, Goes(q, new)
  PROVE  request'[q] = new /\ \A p \in Request \ {q} : request'[p] = request[p]
  BY DEF FormInv, TypeOK, Goes

LEMMA Ended ==
  ASSUME FormInv, NEW q \in Request, Ends(q)
  PROVE  request'[q].pc = "idle" /\ \A p \in Request \ {q} : request'[p] = request[p]
  BY Moved DEF Ends, Idle

LEMMA LocksLock ==
  ASSUME FormInv, LockInv, NEW q \in Request, NEW allowed \in BOOLEAN, Locks(q, allowed)
  PROVE  LockInv'
<1>1. CASE allowed
  <2>1. request[q] \in RequestState
    BY DEF FormInv, TypeOK
  <2>2. /\ request'[q] = [request[q] EXCEPT !.pc = "write", !.actor = None]
        /\ \A p \in Request \ {q} : request'[p] = request[p]
    BY <1>1, Moved DEF Locks
  <2>3. \A p \in Request : ~At(p, "write")
    BY OrganizationsAssumption DEF Locks, LockInv
  <2>4. request'[q].pc = "write"
    BY <2>1, <2>2 DEF RequestState
  <2>5. memberLock' = q /\ UNCHANGED <<adminLock, rowLock, invitation>>
    BY <1>1 DEF Locks, tables
  <2>6. \A p \in Request \ {q} : request'[p] = request[p]
    BY <2>2
  <2>7. QED  BY <2>3, <2>4, <2>5, <2>6 DEF LockInv, At, Pending
<1>2. CASE ~allowed
  <2>1. request'[q].pc = "idle"
    BY <1>2, Ended DEF Locks
  <2>2. \A p \in Request \ {q} : request'[p] = request[p]
    BY <1>2, Moved DEF Locks, Ends
  <2>3. QED  BY <1>2, <2>1, <2>2 DEF Locks, LockInv, At, Pending, tables
<1>3. QED  BY <1>1, <1>2

LEMMA LockKept ==
  ASSUME FormInv, LockInv, [Next]_vars
  PROVE  LockInv'
<1>1. ASSUME NEW q \in Request, NEW a \in User, NEW u \in User, NEW r \in Role, AskChange(q, a, u, r)
      PROVE  LockInv'
  BY <1>1 DEF LockInv, At, Pending, AskChange, Goes, Keep, tables, locks
<1>2. ASSUME NEW q \in Request, NEW a \in User, NEW u \in User, AskRemove(q, a, u)
      PROVE  LockInv'
  BY <1>2 DEF LockInv, At, Pending, AskRemove, Goes, Keep, tables, locks
<1>3. ASSUME NEW q \in Request, CheckChange(q)
      PROVE  LockInv'
  BY <1>3, LocksLock DEF CheckChange
<1>4. ASSUME NEW q \in Request, CheckRemove(q)
      PROVE  LockInv'
  BY <1>4, LocksLock DEF CheckRemove
<1>5. ASSUME NEW q \in Request, WriteMember(q)
      PROVE  LockInv'
  BY <1>5 DEF LockInv, At, FormInv, TypeOK, Idle, Pending, WriteMember, Ends, Goes
<1>6. ASSUME NEW q \in Request, NEW a \in User, NEW u \in User, NEW r \in Role, AskInvite(q, a, u, r)
      PROVE  LockInv'
  BY <1>6 DEF LockInv, At, Pending, AskInvite, Goes, Keep, tables, locks
<1>7. ASSUME NEW q \in Request, NEW a \in User, NEW v \in Invitation, AskResend(q, a, v)
      PROVE  LockInv'
  BY <1>7 DEF LockInv, At, Pending, AskResend, AskInvite, Goes, Keep, tables, locks
<1>8. ASSUME NEW q \in Request, NEW a \in User, NEW v \in Invitation, Revoke(q, a, v)
      PROVE  LockInv'
  BY <1>8, OrganizationsAssumption
     DEF LockInv, At, FormInv, TypeOK, Pending, Revoke, Holds, Goes, tables
<1>9. ASSUME NEW q \in Request, NEW v \in Invitation, Insert(q, v)
      PROVE  LockInv'
  BY <1>9 DEF LockInv, At, Idle, Pending, Insert, Ends, Goes, locks
<1>10. ASSUME NEW q \in Request, NEW v \in Invitation, Accept(q, v)
      PROVE  LockInv'
  BY <1>10, OrganizationsAssumption
     DEF LockInv, At, FormInv, TypeOK, Pending, Accept, Holds, Goes, tables
<1>11. ASSUME NEW q \in Request, Replace(q)
      PROVE  LockInv'
  BY <1>11, OrganizationsAssumption
     DEF LockInv, At, FormInv, Said, Pending, Replace, Goes, locks
<1>12. ASSUME NEW q \in Request, WriteRevoked(q)
      PROVE  LockInv'
  BY <1>12
     DEF LockInv, At, FormInv, TypeOK, Idle, Pending, WriteRevoked, Settle, Lets,
         Ends, Goes
<1>13. ASSUME NEW q \in Request, WriteAccepted(q)
      PROVE  LockInv'
  <2> DEFINE v == request[q].invitation
  <2>1. v \in Invitation /\ rowLock[v] = q
    BY <1>13 DEF WriteAccepted, At, LockInv, FormInv, Said
  <2>2. request'[q].pc = "idle" /\ \A p \in Request \ {q} : request'[p] = request[p]
    BY <1>13, Ended DEF WriteAccepted
  <2>3. \A w \in Invitation \ {v} : rowLock'[w] = rowLock[w] /\ invitation'[w] = invitation[w]
    BY <1>13, <2>1 DEF WriteAccepted, Lets, Settle, FormInv, TypeOK
  <2>4. QED  BY <1>13, <2>1, <2>2, <2>3
                DEF WriteAccepted, LockInv, At, Pending, FormInv, Said
<1>14. ASSUME NEW q \in Request, NEW a \in User, NEW r \in CustomRole, CreateRole(q, a, r)
      PROVE  LockInv'
  BY <1>14 DEF LockInv, At, Pending, CreateRole, locks
<1>15. ASSUME NEW q \in Request, NEW a \in User, NEW r \in CustomRole, AskDrop(q, a, r)
      PROVE  LockInv'
  BY <1>15 DEF LockInv, At, Pending, AskDrop, Goes, Keep, tables, locks
<1>16. ASSUME NEW q \in Request, CheckAssigned(q)
      PROVE  LockInv'
  <2>1. request'[q].pc \in {"idle", "pending"}
    BY <1>16, Moved DEF CheckAssigned, Ends, Idle, FormInv, TypeOK, RequestState
  <2>2. \A p \in Request \ {q} : request'[p] = request[p]
    BY <1>16, Moved DEF CheckAssigned, Ends
  <2>3. QED  BY <1>16, <2>1, <2>2
                DEF CheckAssigned, LockInv, At, Keep, Pending, tables, locks
<1>17. ASSUME NEW q \in Request, CheckPending(q)
      PROVE  LockInv'
  <2>1. request'[q].pc \in {"idle", "drop"}
    BY <1>17, Moved DEF CheckPending, Ends, Idle, FormInv, TypeOK, RequestState
  <2>2. \A p \in Request \ {q} : request'[p] = request[p]
    BY <1>17, Moved DEF CheckPending, Ends
  <2>3. QED  BY <1>17, <2>1, <2>2
                DEF CheckPending, LockInv, At, Keep, Pending, tables, locks
<1>18. ASSUME NEW q \in Request, Drop(q)
      PROVE  LockInv'
  BY <1>18 DEF LockInv, At, Idle, Pending, Drop, Ends, Goes, locks
<1>19. ASSUME NEW q \in Request, NEW u \in User, AskDelete(q, u)
      PROVE  LockInv'
  BY <1>19, OrganizationsAssumption DEF LockInv, At, Pending, AskDelete, Goes, tables
<1>20. ASSUME NEW q \in Request, Cover(q)
      PROVE  LockInv'
  BY <1>20, OrganizationsAssumption
     DEF LockInv, At, FormInv, TypeOK, RequestState, Idle, Pending, Cover, Ends, Goes
<1>21. ASSUME NEW q \in Request, Purge(q)
      PROVE  LockInv'
  BY <1>21, OrganizationsAssumption
     DEF LockInv, At, FormInv, Said, Pending, Purge, Goes, locks
<1>22. ASSUME NEW q \in Request, Delete(q)
      PROVE  LockInv'
  <2>1. request'[q].pc = "idle" /\ \A p \in Request \ {q} : request'[p] = request[p]
    BY <1>22, Ended DEF Delete
  <2>2. \A p \in Request \ {q} : ~At(p, "write") /\ request[p].pc \notin {"cover", "purge", "delete"}
    BY <1>22, OrganizationsAssumption DEF Delete, LockInv, At
  <2>3. QED  BY <1>22, <2>1, <2>2 DEF Delete, LockInv, At, Pending
<1>23. CASE UNCHANGED vars
  BY <1>23 DEF LockInv, At, Pending, vars, tables, locks
<1>24. QED
  BY <1>1, <1>2, <1>3, <1>4, <1>5, <1>6, <1>7, <1>8, <1>9, <1>10, <1>11, <1>12, <1>13,
     <1>14, <1>15, <1>16, <1>17, <1>18, <1>19, <1>20, <1>21, <1>22, <1>23
     DEF Next, MemberStep, InvitationStep, RoleStep, DeletionStep

-----------------------------------------------------------------------------
(* There is always an owner.                                               *)

LEMMA SecondOwner ==
  ASSUME NEW u \in User, Cardinality(Owners) > 1
  PROVE  Owners \ {u} # {}
<1>1. CASE Owners = {}
  BY <1>1, FS_EmptySet
<1>2. CASE Owners = {u}
  BY <1>2, FS_Singleton
<1>3. QED  BY <1>1, <1>2

LEMMA LocksOwner ==
  ASSUME FormInv, LockInv, OwnerInv, NEW q \in Request, NEW allowed \in BOOLEAN, Locks(q, allowed),
         allowed => /\ member[request[q].user] # None
                    /\ request[q].role = "owner" \/ LeavesOwner(request[q].user)
  PROVE  OwnerInv'
<1>1. CASE allowed
  <2>1. /\ request'[q].pc = "write" /\ request'[q].user = request[q].user
        /\ request'[q].role = request[q].role
    BY <1>1 DEF Locks, Goes, FormInv, TypeOK, RequestState
  <2>2. \A p \in Request \ {q} : request'[p] = request[p] /\ ~At(p, "write") /\ memberLock # p
    BY <1>1, Moved, OrganizationsAssumption DEF Locks, LockInv
  <2>3. QED  BY <1>1, <2>1, <2>2
             DEF Locks, OwnerInv, HasOwner, LeavesOwner, Owners, At, tables, history
<1>2. CASE ~allowed
  <2>1. request'[q].pc = "idle" /\ \A p \in Request \ {q} : request'[p] = request[p]
    BY <1>2, Ended DEF Locks
  <2>2. QED  BY <1>2, <2>1
                DEF Locks, OwnerInv, HasOwner, LeavesOwner, Owners, At, tables,
                    history
<1>3. QED  BY <1>1, <1>2

LEMMA OwnerKept ==
  ASSUME FormInv, LockInv, OwnerInv, [Next]_vars
  PROVE  OwnerInv'
<1>1. ASSUME NEW q \in Request, NEW a \in User, NEW u \in User, NEW r \in Role, AskChange(q, a, u, r)
      PROVE  OwnerInv'
  BY <1>1
     DEF OwnerInv, HasOwner, LeavesOwner, Owners, At, AskChange, Goes, Keep, tables,
         locks, history
<1>2. ASSUME NEW q \in Request, NEW a \in User, NEW u \in User, AskRemove(q, a, u)
      PROVE  OwnerInv'
  BY <1>2
     DEF OwnerInv, HasOwner, LeavesOwner, Owners, At, AskRemove, Goes, Keep, tables,
         locks, history
<1>3. ASSUME NEW q \in Request, CheckChange(q)
      PROVE  OwnerInv'
  <2> DEFINE a == request[q].actor
             u == request[q].user
             r == request[q].role
             Allowed == /\ member[a] # None /\ member[u] # None
                        /\ u = a => member[a] = "owner"
                        /\ MayHandle(a, member[u]) /\ MayHandle(a, r)
                        /\ (member[u] = "owner" /\ r # "owner") => Cardinality(Owners) > 1
  <2>1. u \in User
    BY <1>3 DEF CheckChange, At, FormInv, Said
  <2>2. ASSUME Allowed, r # "owner"
        PROVE  LeavesOwner(u)
    <3>1. CASE member[u] = "owner"
      BY <2>1, <2>2, <3>1, SecondOwner DEF LeavesOwner
    <3>2. CASE member[u] # "owner"
      BY <3>2 DEF OwnerInv, HasOwner, LeavesOwner, Owners
    <3>3. QED  BY <3>1, <3>2
  <2>3. Locks(q, Allowed)
    BY <1>3 DEF CheckChange
  <2> HIDE DEF r, u
  <2>4. Allowed => member[u] # None
    OBVIOUS
  <2> HIDE DEF Allowed
  <2>5. Allowed \in BOOLEAN
    BY DEF Allowed
  <2>6. QED  BY <2>2, <2>3, <2>4, <2>5, LocksOwner DEF r, u
<1>4. ASSUME NEW q \in Request, CheckRemove(q)
      PROVE  OwnerInv'
  <2> DEFINE a == request[q].actor
             u == request[q].user
             Allowed == /\ member[a] # None /\ member[u] # None
                        /\ u # a
                        /\ MayHandle(a, member[u])
  <2>1. a \in User /\ u \in User
    BY <1>4 DEF CheckRemove, At, FormInv, Said
  <2>2. ASSUME Allowed
        PROVE  LeavesOwner(u)
    <3>1. CASE member[u] = "owner"
      BY <2>1, <2>2, <3>1 DEF LeavesOwner, Owners, MayHandle, Outranks
    <3>2. CASE member[u] # "owner"
      BY <3>2 DEF OwnerInv, HasOwner, LeavesOwner, Owners
    <3>3. QED  BY <3>1, <3>2
  <2>3. Locks(q, Allowed)
    BY <1>4 DEF CheckRemove
  <2> HIDE DEF u
  <2>4. Allowed => member[u] # None
    OBVIOUS
  <2> HIDE DEF Allowed
  <2>5. Allowed \in BOOLEAN
    BY DEF Allowed
  <2>6. QED  BY <2>2, <2>3, <2>4, <2>5, LocksOwner DEF u
<1>5. ASSUME NEW q \in Request, WriteMember(q)
      PROVE  OwnerInv'
  <2> DEFINE u == request[q].user
             r == request[q].role
  <2>1. u \in User /\ memberLock = q /\ member[u] # None /\ (r = "owner" \/ LeavesOwner(u))
    BY <1>5 DEF WriteMember, At, FormInv, Said, LockInv, OwnerInv
  <2>2. request'[q].pc = "idle" /\ \A p \in Request \ {q} : request'[p] = request[p]
    BY <1>5, Ended DEF WriteMember
  <2>3. \A p \in Request \ {q} : ~At(p, "write")
    BY <2>1 DEF LockInv
  <2>4. member'[u] = r /\ \A w \in User \ {u} : member'[w] = member[w]
    BY <1>5, <2>1 DEF WriteMember, FormInv, TypeOK
  <2>5. HasOwner'
    BY <1>5, <2>1, <2>4 DEF WriteMember, HasOwner, LeavesOwner, Owners
  <2>6. \A p \in Request \ {q} : request[p].pc \in {"purge", "delete"} =>
          request[p].user \in User /\ (member'[request[p].user] = None \/ request[p].user \in unseen)
    BY <2>1, <2>4 DEF OwnerInv, FormInv, Said
  <2>7. memberLock' = None /\ unseen' = unseen
    BY <1>5, <2>1 DEF WriteMember
  <2>8. QED  BY <2>2, <2>3, <2>5, <2>6, <2>7, OrganizationsAssumption DEF OwnerInv, At
<1>6. ASSUME NEW q \in Request, NEW a \in User, NEW u \in User, NEW r \in Role, AskInvite(q, a, u, r)
      PROVE  OwnerInv'
  BY <1>6
     DEF OwnerInv, HasOwner, LeavesOwner, Owners, At, AskInvite, Goes, Keep, tables,
         locks, history
<1>7. ASSUME NEW q \in Request, NEW a \in User, NEW v \in Invitation, AskResend(q, a, v)
      PROVE  OwnerInv'
  BY <1>7
     DEF OwnerInv, HasOwner, LeavesOwner, Owners, At, AskResend, AskInvite, Goes,
         Keep, tables, locks, history
<1>8. ASSUME NEW q \in Request, NEW a \in User, NEW v \in Invitation, Revoke(q, a, v)
      PROVE  OwnerInv'
  BY <1>8
     DEF OwnerInv, HasOwner, LeavesOwner, Owners, At, Revoke, Holds, Goes, tables,
         history
<1>9. ASSUME NEW q \in Request, NEW v \in Invitation, Insert(q, v)
      PROVE  OwnerInv'
  BY <1>9
     DEF OwnerInv, HasOwner, LeavesOwner, Owners, At, Idle, Insert, Ends, Goes, locks
<1>10. ASSUME NEW q \in Request, NEW v \in Invitation, Accept(q, v)
      PROVE  OwnerInv'
  BY <1>10
     DEF OwnerInv, HasOwner, LeavesOwner, Owners, At, Accept, Holds, Goes, tables,
         history
<1>11. ASSUME NEW q \in Request, Replace(q)
      PROVE  OwnerInv'
  BY <1>11
     DEF OwnerInv, HasOwner, LeavesOwner, Owners, At, Replace, Goes, locks, history
<1>12. ASSUME NEW q \in Request, WriteRevoked(q)
      PROVE  OwnerInv'
  BY <1>12
     DEF OwnerInv, HasOwner, LeavesOwner, Owners, At, Idle, WriteRevoked, Ends, Goes,
         history
<1>13. ASSUME NEW q \in Request, WriteAccepted(q)
      PROVE  OwnerInv'
  <2> DEFINE v == request[q].invitation
             u == invitation[v].email
  <2>1. v \in Invitation /\ u \in User /\ request[q].role \in Role
    BY <1>13 DEF WriteAccepted, At, LockInv, FormInv, Said
  <2>2. request'[q].pc = "idle" /\ \A p \in Request \ {q} : request'[p] = request[p]
    BY <1>13, Ended DEF WriteAccepted
  <2>3. /\ member[u] = None => member'[u] = request[q].role
        /\ member[u] # None => member'[u] = member[u]
        /\ \A w \in User \ {u} : member'[w] = member[w]
    BY <1>13, <2>1 DEF WriteAccepted, FormInv, TypeOK
  <2>4. /\ \A w \in User : member[w] # None => member'[w] = member[w]
        /\ Owners \subseteq Owners' /\ unseen \subseteq unseen' /\ memberLock' = memberLock
    BY <1>13, <2>1, <2>3, OrganizationsAssumption DEF WriteAccepted, Owners, Role
  <2>5. HasOwner' /\ \A w \in User : LeavesOwner(w) => LeavesOwner(w)'
    BY <2>4 DEF OwnerInv, HasOwner, LeavesOwner
  <2>6. \A p \in Request : request[p].pc \in {"purge", "delete"} /\ memberLock # p =>
          (u = request[p].user => u \in unseen')
    BY <1>13 DEF WriteAccepted
  <2>7. ASSUME NEW p \in Request \ {q}, request[p].pc \in {"write", "purge", "delete"}
        PROVE  request[p].user \in User
    BY <2>7 DEF FormInv, Said
  <2>8. QED  BY <2>2, <2>3, <2>4, <2>5, <2>6, <2>7 DEF OwnerInv, At, LeavesOwner
<1>14. ASSUME NEW q \in Request, NEW a \in User, NEW r \in CustomRole, CreateRole(q, a, r)
      PROVE  OwnerInv'
  BY <1>14 DEF OwnerInv, HasOwner, LeavesOwner, Owners, At, CreateRole, locks, history
<1>15. ASSUME NEW q \in Request, NEW a \in User, NEW r \in CustomRole, AskDrop(q, a, r)
      PROVE  OwnerInv'
  BY <1>15
     DEF OwnerInv, HasOwner, LeavesOwner, Owners, At, AskDrop, Goes, Keep, tables,
         locks, history
<1>16. ASSUME NEW q \in Request, CheckAssigned(q)
      PROVE  OwnerInv'
  BY <1>16, OrganizationsAssumption
     DEF OwnerInv, HasOwner, LeavesOwner, Owners, At, FormInv, TypeOK, RequestState,
         Pc, Idle, CheckAssigned, Ends, Goes, Keep, tables, locks, history
<1>17. ASSUME NEW q \in Request, CheckPending(q)
      PROVE  OwnerInv'
  BY <1>17
     DEF OwnerInv, HasOwner, LeavesOwner, Owners, At, FormInv, TypeOK, Said,
         RequestState, Idle, CheckPending, Ends, Goes, Keep, tables, locks, history
<1>18. ASSUME NEW q \in Request, Drop(q)
      PROVE  OwnerInv'
  BY <1>18
     DEF OwnerInv, HasOwner, LeavesOwner, Owners, At, Idle, Drop, Ends, Goes, locks
<1>19. ASSUME NEW q \in Request, NEW u \in User, AskDelete(q, u)
      PROVE  OwnerInv'
  <2>1. /\ request'[q].pc \in {"cover", "purge"} /\ request'[q].user = u
        /\ request'[q].pc = "purge" => member[u] = None
    BY <1>19, Moved DEF AskDelete, Goes, Idle, FormInv, TypeOK
  <2>2. \A p \in Request \ {q} : request'[p] = request[p]
    BY <1>19 DEF AskDelete, Goes, FormInv, TypeOK
  <2>3. member[u] = None => LeavesOwner(u)
    BY OrganizationsAssumption DEF OwnerInv, HasOwner, LeavesOwner, Owners, Role
  <2>4. QED  BY <1>19, <2>1, <2>2, <2>3
             DEF AskDelete, OwnerInv, HasOwner, LeavesOwner, Owners, At, tables, history
<1>20. ASSUME NEW q \in Request, Cover(q)
      PROVE  OwnerInv'
  <2> DEFINE u == request[q].user
  <2>1. CASE Ends(q) /\ memberLock' = memberLock
    <3>1. request'[q].pc = "idle" /\ \A p \in Request \ {q} : request'[p] = request[p]
      BY <2>1, Ended
    <3>2. QED  BY <1>20, <2>1, <3>1
                  DEF Cover, OwnerInv, HasOwner, LeavesOwner, Owners, At, history
  <2>2. CASE ~((owner = u \/ u \in Owners) /\ Owners \ {u} = {})
    <3>1. memberLock' = q /\ Goes(q, [request[q] EXCEPT !.pc = "purge"])
      BY <1>20, <2>2 DEF Cover
    <3>2. request'[q].pc = "purge" /\ request'[q].user = u
      BY <3>1 DEF Goes, FormInv, TypeOK, RequestState
    <3>3. LeavesOwner(u)
      BY <2>2 DEF OwnerInv, HasOwner, LeavesOwner, Owners
    <3>4. \A p \in Request \ {q} : /\ request'[p] = request[p]
                                   /\ request[p].pc \notin {"write", "purge", "delete"}
      BY <1>20, <3>1, OrganizationsAssumption
         DEF Cover, LockInv, At, Goes, FormInv, TypeOK
    <3>5. QED  BY <1>20, <3>1, <3>2, <3>3, <3>4
               DEF Cover, OwnerInv, HasOwner, LeavesOwner, Owners, At, history
  <2>3. QED  BY <1>20, <2>1, <2>2 DEF Cover
<1>21. ASSUME NEW q \in Request, Purge(q)
      PROVE  OwnerInv'
  BY <1>21 DEF OwnerInv, HasOwner, LeavesOwner, Owners, At, Purge, Goes, locks, history
<1>22. ASSUME NEW q \in Request, Delete(q)
      PROVE  OwnerInv'
  <2> DEFINE u == request[q].user
  <2>1. request'[q].pc = "idle" /\ \A p \in Request \ {q} : request'[p] = request[p]
    BY <1>22, Ended DEF Delete
  <2>2. \A p \in Request \ {q} : request[p].pc \notin {"write", "purge", "delete"}
    BY <1>22, OrganizationsAssumption DEF Delete, LockInv, At
  <2>3. u \in User /\ (LeavesOwner(u) \/ member[u] = None \/ u \in unseen)
    BY <1>22 DEF Delete, At, FormInv, Said, OwnerInv
  <2>4. Owners' = Owners \ {u} /\ unseen' = unseen
    BY <1>22, <2>3, OrganizationsAssumption
       DEF Delete, Owners, Role, FormInv, TypeOK, history
  <2>5. HasOwner'
    BY <2>3, <2>4, OrganizationsAssumption
       DEF OwnerInv, HasOwner, LeavesOwner, Owners, Role
  <2>6. QED  BY <2>1, <2>2, <2>5 DEF OwnerInv, At
<1>23. CASE UNCHANGED vars
  BY <1>23 DEF OwnerInv, HasOwner, LeavesOwner, Owners, At, vars, tables, locks, history
<1>24. QED
  BY <1>1, <1>2, <1>3, <1>4, <1>5, <1>6, <1>7, <1>8, <1>9, <1>10, <1>11, <1>12, <1>13,
     <1>14, <1>15, <1>16, <1>17, <1>18, <1>19, <1>20, <1>21, <1>22, <1>23
     DEF Next, MemberStep, InvitationStep, RoleStep, DeletionStep

-----------------------------------------------------------------------------
(* The owner and the members have accounts.                                *)

LEMMA AccountUntouched ==
  ASSUME FormInv, LockInv, AccountInv, NEW q \in Request,
         \A p \in Request \ {q} : request'[p] = request[p],
         request'[q].pc \notin {"accept", "purge", "delete"},
         UNCHANGED <<account, member, owner, invitation, late>>
  PROVE  AccountInv'
  BY DEF AccountInv, OwnerHasAccount, MemberHasAccount, At, Pending

LEMMA LocksAccount ==
  ASSUME FormInv, LockInv, AccountInv, NEW q \in Request, NEW allowed \in BOOLEAN, Locks(q, allowed)
  PROVE  AccountInv'
<1>1. request'[q].pc \in {"write", "idle"} /\ \A p \in Request \ {q} : request'[p] = request[p]
  <2>1. CASE Ends(q)
    BY <2>1, Ended
  <2>2. CASE Goes(q, [request[q] EXCEPT !.pc = "write", !.actor = None])
    BY <2>2 DEF Goes, FormInv, TypeOK, RequestState
  <2>3. QED  BY <2>1, <2>2 DEF Locks
<1>2. QED  BY <1>1, AccountUntouched DEF Locks, tables, history

LEMMA AccountKept ==
  ASSUME FormInv, LockInv, OwnerInv, AccountInv, [Next]_vars
  PROVE  AccountInv'
<1>1. ASSUME NEW q \in Request, NEW a \in User, NEW u \in User, NEW r \in Role, AskChange(q, a, u, r)
      PROVE  AccountInv'
  BY <1>1
     DEF AccountInv, OwnerHasAccount, MemberHasAccount, At, Pending, AskChange, Goes,
         Keep, tables, history
<1>2. ASSUME NEW q \in Request, NEW a \in User, NEW u \in User, AskRemove(q, a, u)
      PROVE  AccountInv'
  BY <1>2
     DEF AccountInv, OwnerHasAccount, MemberHasAccount, At, Pending, AskRemove, Goes,
         Keep, tables, history
<1>3. ASSUME NEW q \in Request, CheckChange(q)
      PROVE  AccountInv'
  BY <1>3, LocksAccount DEF CheckChange
<1>4. ASSUME NEW q \in Request, CheckRemove(q)
      PROVE  AccountInv'
  BY <1>4, LocksAccount DEF CheckRemove
<1>5. ASSUME NEW q \in Request, WriteMember(q)
      PROVE  AccountInv'
  <2>1. request'[q].pc = "idle" /\ \A p \in Request \ {q} : request'[p] = request[p]
    BY <1>5, Ended DEF WriteMember
  <2>2. request[q].user \in User /\ member[request[q].user] # None
    BY <1>5 DEF WriteMember, At, FormInv, Said, OwnerInv
  <2>3. \A u \in User : member'[u] # None => member[u] # None
    BY <1>5, <2>2 DEF WriteMember, FormInv, TypeOK
  <2>4. QED  BY <1>5, <2>1, <2>3
             DEF WriteMember, AccountInv, OwnerHasAccount, MemberHasAccount, At, Pending
<1>6. ASSUME NEW q \in Request, NEW a \in User, NEW u \in User, NEW r \in Role, AskInvite(q, a, u, r)
      PROVE  AccountInv'
  BY <1>6
     DEF AccountInv, OwnerHasAccount, MemberHasAccount, At, Pending, AskInvite, Goes,
         Keep, tables, history
<1>7. ASSUME NEW q \in Request, NEW a \in User, NEW v \in Invitation, AskResend(q, a, v)
      PROVE  AccountInv'
  BY <1>7
     DEF AccountInv, OwnerHasAccount, MemberHasAccount, At, Pending, AskResend,
         AskInvite, Goes, Keep, tables, history
<1>8. ASSUME NEW q \in Request, NEW a \in User, NEW v \in Invitation, Revoke(q, a, v)
      PROVE  AccountInv'
  BY <1>8
     DEF AccountInv, OwnerHasAccount, MemberHasAccount, At, Pending, Revoke, Holds,
         Goes, tables, history
<1>9. ASSUME NEW q \in Request, NEW v \in Invitation, Insert(q, v)
      PROVE  AccountInv'
  <2>1. request'[q].pc = "idle" /\ \A p \in Request \ {q} : request'[p] = request[p]
    BY <1>9, Ended DEF Insert
  <2>2. \A w \in Invitation \ {v} : invitation'[w] = invitation[w]
    BY <1>9 DEF Insert, FormInv, TypeOK
  <2>3. invitation'[v].email = request[q].user
    BY <1>9 DEF Insert, FormInv, TypeOK
  <2>4. late \subseteq late' /\ \A p \in Request :
          At(p, "delete") /\ request[p].user = request[q].user => request[p].user \in late'
    BY <1>9 DEF Insert, At
  <2>5. \A p \in Request : At(p, "accept") =>
          request[p].invitation \in Invitation \ {v}
    BY <1>9 DEF Insert, LockInv, FormInv, Said, At, Pending
  <2>6. QED  BY <1>9, <2>1, <2>2, <2>3, <2>4, <2>5
             DEF Insert, AccountInv, OwnerHasAccount, MemberHasAccount, At, Pending
<1>10. ASSUME NEW q \in Request, NEW v \in Invitation, Accept(q, v)
      PROVE  AccountInv'
  BY <1>10
     DEF AccountInv, OwnerHasAccount, MemberHasAccount, At, Pending, Accept, Holds,
         Goes, tables, history
<1>11. ASSUME NEW q \in Request, Replace(q)
      PROVE  AccountInv'
  <2>1. \A p \in Request \ {q} : request'[p] = request[p]
    BY <1>11 DEF Replace, Goes, FormInv, TypeOK
  <2>2. request'[q].pc = "insert"
    BY <1>11 DEF Replace, Goes, FormInv, TypeOK, RequestState
  <2>3. \A v \in Invitation : /\ invitation'[v] \in {invitation[v], Row("revoked")}
                              /\ rowLock[v] # None => invitation'[v] = invitation[v]
    BY <1>11 DEF Replace
  <2>4. QED  BY <1>11, <2>1, <2>2, <2>3, RowsTyped, OrganizationsAssumption
             DEF Replace, AccountInv, OwnerHasAccount, MemberHasAccount, LockInv,
                 FormInv, Said, At, Pending, history
<1>12. ASSUME NEW q \in Request, WriteRevoked(q)
      PROVE  AccountInv'
  <2> DEFINE v == request[q].invitation
  <2>1. request'[q].pc = "idle" /\ \A p \in Request \ {q} : request'[p] = request[p]
    BY <1>12, Ended DEF WriteRevoked
  <2>2. v \in Invitation /\ rowLock[v] = q
    BY <1>12 DEF WriteRevoked, At, LockInv, FormInv, Said
  <2>3. /\ \A w \in Invitation \ {v} : invitation'[w] = invitation[w]
        /\ invitation'[v] = Row("revoked")
    BY <1>12, <2>2 DEF WriteRevoked, Settle, FormInv, TypeOK
  <2>4. \A p \in Request \ {q} : At(p, "accept") => request[p].invitation \in Invitation \ {v}
    BY <2>2 DEF LockInv, At, FormInv, Said
  <2>5. \A w \in Invitation : Pending(w)' => Pending(w) /\ invitation'[w] = invitation[w]
    BY <2>3, RowsTyped DEF Pending
  <2>6. UNCHANGED <<account, member, owner, late>>
    BY <1>12 DEF WriteRevoked, history
  <2>7. QED  BY <2>1, <2>3, <2>4, <2>5, <2>6
             DEF AccountInv, OwnerHasAccount, MemberHasAccount, At
<1>13. ASSUME NEW q \in Request, WriteAccepted(q)
      PROVE  AccountInv'
  <2> DEFINE v == request[q].invitation
             u == invitation[v].email
  <2>1. request'[q].pc = "idle" /\ \A p \in Request \ {q} : request'[p] = request[p]
    BY <1>13, Ended DEF WriteAccepted
  <2>2. v \in Invitation /\ rowLock[v] = q /\ u \in User /\ u \in account \union late
    BY <1>13 DEF WriteAccepted, At, LockInv, FormInv, Said, AccountInv
  <2>3. /\ \A w \in Invitation \ {v} : invitation'[w] = invitation[w]
        /\ invitation'[v] = Row("accepted")
    BY <1>13, <2>2 DEF WriteAccepted, Settle, FormInv, TypeOK
  <2>4. \A p \in Request \ {q} : At(p, "accept") => request[p].invitation # v
    BY <2>2 DEF LockInv, At
  <2>5. \A w \in User \ {u} : member'[w] = member[w]
    BY <1>13, <2>2 DEF WriteAccepted, FormInv, TypeOK
  <2>6. QED  BY <1>13, <2>1, <2>2, <2>3, <2>4, <2>5, RowsTyped
             DEF WriteAccepted, AccountInv, OwnerHasAccount, MemberHasAccount, At,
                 Pending, FormInv, Said
<1>14. ASSUME NEW q \in Request, NEW a \in User, NEW r \in CustomRole, CreateRole(q, a, r)
      PROVE  AccountInv'
  BY <1>14
     DEF AccountInv, OwnerHasAccount, MemberHasAccount, At, Pending, CreateRole,
         history
<1>15. ASSUME NEW q \in Request, NEW a \in User, NEW r \in CustomRole, AskDrop(q, a, r)
      PROVE  AccountInv'
  BY <1>15
     DEF AccountInv, OwnerHasAccount, MemberHasAccount, At, Pending, AskDrop, Goes,
         Keep, tables, history
<1>16. ASSUME NEW q \in Request, CheckAssigned(q)
      PROVE  AccountInv'
  <2>1. request'[q].pc \in {"idle", "pending"} /\ \A p \in Request \ {q} : request'[p] = request[p]
    BY <1>16 DEF CheckAssigned, Ends, Goes, Idle, FormInv, TypeOK, RequestState
  <2>2. QED  BY <1>16, <2>1, AccountUntouched DEF CheckAssigned, Keep, tables, history
<1>17. ASSUME NEW q \in Request, CheckPending(q)
      PROVE  AccountInv'
  <2>1. request'[q].pc \in {"idle", "drop"} /\ \A p \in Request \ {q} : request'[p] = request[p]
    BY <1>17 DEF CheckPending, Ends, Goes, Idle, FormInv, TypeOK, RequestState
  <2>2. QED  BY <1>17, <2>1, AccountUntouched DEF CheckPending, Keep, tables, history
<1>18. ASSUME NEW q \in Request, Drop(q)
      PROVE  AccountInv'
  BY <1>18
     DEF AccountInv, OwnerHasAccount, MemberHasAccount, At, Pending, Idle, Drop, Ends,
         Goes
<1>19. ASSUME NEW q \in Request, NEW u \in User, AskDelete(q, u)
      PROVE  AccountInv'
  BY <1>19
     DEF AccountInv, OwnerHasAccount, MemberHasAccount, At, Pending, AskDelete, Goes,
         tables, history
<1>20. ASSUME NEW q \in Request, Cover(q)
      PROVE  AccountInv'
  <2> DEFINE u == request[q].user
  <2>1. CASE Ends(q) /\ owner' = owner
    BY <1>20, <2>1, Ended, AccountUntouched DEF Cover, history
  <2>2. CASE /\ owner' \in IF owner = u THEN Owners \ {u} ELSE {owner}
             /\ Goes(q, [request[q] EXCEPT !.pc = "purge"])
    <3>1. request'[q].pc = "purge" /\ request'[q].user = u
      BY <2>2 DEF Goes, FormInv, TypeOK, RequestState
    <3>2. \A p \in Request \ {q} : request'[p] = request[p]
      BY <2>2 DEF Goes, FormInv, TypeOK
    <3>3. \A p \in Request \ {q} : request[p].pc \notin {"purge", "delete"}
      BY <1>20 DEF Cover, LockInv, At
    <3>4. owner' # u /\ owner' \in account \union late
      BY <2>2, OrganizationsAssumption
         DEF AccountInv, OwnerHasAccount, MemberHasAccount, Owners, Role
    <3>5. QED  BY <1>20, <3>1, <3>2, <3>3, <3>4
               DEF Cover, AccountInv, OwnerHasAccount, MemberHasAccount, At, Pending,
                   history
  <2>3. QED  BY <1>20, <2>1, <2>2 DEF Cover
<1>21. ASSUME NEW q \in Request, Purge(q)
      PROVE  AccountInv'
  <2> DEFINE u == request[q].user
  <2>1. \A p \in Request \ {q} : request'[p] = request[p]
    BY <1>21 DEF Purge, Goes, FormInv, TypeOK
  <2>2. request'[q].pc = "delete" /\ request'[q].user = u
    BY <1>21 DEF Purge, Goes, FormInv, TypeOK, RequestState
  <2>3. \A v \in Invitation : /\ invitation'[v] \in {invitation[v], Row("deleted")}
                              /\ rowLock[v] # None => invitation'[v] = invitation[v]
    BY <1>21 DEF Purge
  <2>4. \A v \in Invitation : Pending(v)' => invitation'[v].email # u
    BY <1>21, RowsTyped DEF Purge, Pending
  <2>5. QED  BY <1>21, <2>1, <2>2, <2>3, <2>4, RowsTyped, OrganizationsAssumption
             DEF Purge, AccountInv, OwnerHasAccount, MemberHasAccount, LockInv,
                 FormInv, Said, At, Pending, history
<1>22. ASSUME NEW q \in Request, Delete(q)
      PROVE  AccountInv'
  <2> DEFINE u == request[q].user
  <2>1. request'[q].pc = "idle" /\ \A p \in Request \ {q} : request'[p] = request[p]
    BY <1>22, Ended DEF Delete
  <2>2. u \in User /\ owner # u
    BY <1>22 DEF Delete, At, FormInv, Said, AccountInv
  <2>3. member'[u] = None /\ \A w \in User \ {u} : member'[w] = member[w]
    BY <1>22, <2>2 DEF Delete, FormInv, TypeOK
  <2>4. \A p \in Request \ {q} : At(p, "accept") =>
          invitation[request[p].invitation].email # u \/ u \in late
    BY <1>22 DEF Delete, At, AccountInv, LockInv, FormInv, Said
  <2>5. account' = account \ {u} /\ UNCHANGED <<owner, invitation, late>>
    BY <1>22 DEF Delete, history
  <2>6. QED  BY <2>1, <2>2, <2>3, <2>4, <2>5
             DEF AccountInv, OwnerHasAccount, MemberHasAccount, At, Pending
<1>23. CASE UNCHANGED vars
  BY <1>23
     DEF AccountInv, OwnerHasAccount, MemberHasAccount, At, Pending, vars, tables,
         history
<1>24. QED
  BY <1>1, <1>2, <1>3, <1>4, <1>5, <1>6, <1>7, <1>8, <1>9, <1>10, <1>11, <1>12, <1>13,
     <1>14, <1>15, <1>16, <1>17, <1>18, <1>19, <1>20, <1>21, <1>22, <1>23
     DEF Next, MemberStep, InvitationStep, RoleStep, DeletionStep

-----------------------------------------------------------------------------
(* The roles of the members exist.                                         *)

LEMMA LocksRole ==
  ASSUME FormInv, RoleInv, NEW q \in Request, NEW allowed \in BOOLEAN, Locks(q, allowed),
         allowed => request[q].role = None \/ Known(request[q].role)
  PROVE  RoleInv'
<1>1. UNCHANGED <<member, role, crossed>>
  BY DEF Locks, tables, history
<1>2. CASE allowed
  <2>1. /\ request'[q] = [request[q] EXCEPT !.pc = "write", !.actor = None]
        /\ \A p \in Request \ {q} : request'[p] = request[p]
    BY <1>2, Moved DEF Locks
  <2>2. request[q] \in RequestState
    BY DEF FormInv, TypeOK
  <2>3. request'[q].pc = "write" /\ request'[q].role = request[q].role
    BY <2>1, <2>2 DEF RequestState
  <2>4. QED  BY <1>1, <1>2, <2>1, <2>3 DEF RoleInv, MemberHasRole, Handed, Known, At
<1>3. CASE ~allowed
  <2>1. request'[q].pc = "idle" /\ \A p \in Request \ {q} : request'[p] = request[p]
    BY <1>3, Ended DEF Locks
  <2>2. QED  BY <1>1, <2>1 DEF RoleInv, MemberHasRole, Handed, Known, At
<1>4. QED  BY <1>2, <1>3

LEMMA RoleKept ==
  ASSUME FormInv, LockInv, RoleInv, [Next]_vars
  PROVE  RoleInv'
<1>1. ASSUME NEW q \in Request, NEW a \in User, NEW u \in User, NEW r \in Role, AskChange(q, a, u, r)
      PROVE  RoleInv'
  BY <1>1
     DEF RoleInv, MemberHasRole, Handed, Known, At, AskChange, Goes, Keep, tables,
         history
<1>2. ASSUME NEW q \in Request, NEW a \in User, NEW u \in User, AskRemove(q, a, u)
      PROVE  RoleInv'
  BY <1>2
     DEF RoleInv, MemberHasRole, Handed, Known, At, Idle, AskRemove, Goes, Keep,
         tables, history
<1>3. ASSUME NEW q \in Request, CheckChange(q)
      PROVE  RoleInv'
  <2>1. MayHandle(request[q].actor, request[q].role) => Known(request[q].role)
    BY DEF MayHandle
  <2>2. QED  BY <1>3, <2>1, LocksRole DEF CheckChange
<1>4. ASSUME NEW q \in Request, CheckRemove(q)
      PROVE  RoleInv'
  <2>1. request[q].role = None
    BY <1>4 DEF CheckRemove, At, RoleInv
  <2>2. QED  BY <1>4, <2>1, LocksRole DEF CheckRemove
<1>5. ASSUME NEW q \in Request, WriteMember(q)
      PROVE  RoleInv'
  <2> DEFINE r == request[q].role
  <2>1. request'[q].pc = "idle" /\ \A p \in Request \ {q} : request'[p] = request[p]
    BY <1>5, Ended DEF WriteMember
  <2>2. r = None \/ Handed(r)
    BY <1>5 DEF WriteMember, RoleInv
  <2>3. \A u \in User : member'[u] \in {member[u], r}
    BY <1>5 DEF WriteMember, FormInv, TypeOK
  <2>4. crossed \subseteq crossed' /\ \A p \in Request :
          request[p].pc \in {"pending", "drop"} /\ request[p].role = r => r \in crossed'
    BY <1>5 DEF WriteMember, Crosses, Deleting
  <2>5. role' = role /\ \A p \in Request \ {q} : request[p].pc \in {"pending", "drop"} =>
          request[p].role # None
    BY <1>5, OrganizationsAssumption DEF WriteMember, FormInv, Said, Role
  <2>6. QED  BY <2>1, <2>2, <2>3, <2>4, <2>5
                DEF RoleInv, MemberHasRole, Handed, Known, At
<1>6. ASSUME NEW q \in Request, NEW a \in User, NEW u \in User, NEW r \in Role, AskInvite(q, a, u, r)
      PROVE  RoleInv'
  BY <1>6
     DEF RoleInv, MemberHasRole, Handed, Known, At, AskInvite, Goes, Keep, tables,
         history
<1>7. ASSUME NEW q \in Request, NEW a \in User, NEW v \in Invitation, AskResend(q, a, v)
      PROVE  RoleInv'
  BY <1>7
     DEF RoleInv, MemberHasRole, Handed, Known, At, AskResend, AskInvite, Goes, Keep,
         tables, history
<1>8. ASSUME NEW q \in Request, NEW a \in User, NEW v \in Invitation, Revoke(q, a, v)
      PROVE  RoleInv'
  BY <1>8
     DEF RoleInv, MemberHasRole, Handed, Known, At, Revoke, Holds, Goes, tables,
         history
<1>9. ASSUME NEW q \in Request, NEW v \in Invitation, Insert(q, v)
      PROVE  RoleInv'
  <2>1. request'[q].pc = "idle" /\ \A p \in Request \ {q} : request'[p] = request[p]
    BY <1>9, Ended DEF Insert
  <2>2. UNCHANGED <<member, role>> /\ crossed \subseteq crossed'
    BY <1>9 DEF Insert, Crosses
  <2>3. QED  BY <2>1, <2>2 DEF RoleInv, MemberHasRole, Handed, Known, At
<1>10. ASSUME NEW q \in Request, NEW v \in Invitation, Accept(q, v)
      PROVE  RoleInv'
  BY <1>10
     DEF RoleInv, MemberHasRole, Handed, Known, At, Accept, Holds, Goes, tables,
         history
<1>11. ASSUME NEW q \in Request, Replace(q)
      PROVE  RoleInv'
  BY <1>11 DEF RoleInv, MemberHasRole, Handed, Known, At, Replace, Goes, history
<1>12. ASSUME NEW q \in Request, WriteRevoked(q)
      PROVE  RoleInv'
  BY <1>12
     DEF RoleInv, MemberHasRole, Handed, Known, At, Idle, WriteRevoked, Ends, Goes,
         history
<1>13. ASSUME NEW q \in Request, WriteAccepted(q)
      PROVE  RoleInv'
  <2> DEFINE r == request[q].role
  <2>1. request'[q].pc = "idle" /\ \A p \in Request \ {q} : request'[p] = request[p]
    BY <1>13, Ended DEF WriteAccepted
  <2>2. Handed(r)
    BY <1>13 DEF WriteAccepted, RoleInv
  <2>3. \A u \in User : member'[u] \in {member[u], r}
    BY <1>13 DEF WriteAccepted, FormInv, TypeOK
  <2>4. crossed \subseteq crossed' /\ \A p \in Request :
          request[p].pc \in {"pending", "drop"} /\ request[p].role = r => r \in crossed'
    BY <1>13 DEF WriteAccepted, Crosses, Deleting
  <2>5. role' = role
    BY <1>13 DEF WriteAccepted
  <2>6. QED  BY <2>1, <2>2, <2>3, <2>4, <2>5
                DEF RoleInv, MemberHasRole, Handed, Known, At
<1>14. ASSUME NEW q \in Request, NEW a \in User, NEW r \in CustomRole, CreateRole(q, a, r)
      PROVE  RoleInv'
  BY <1>14 DEF RoleInv, MemberHasRole, Handed, Known, At, CreateRole, history
<1>15. ASSUME NEW q \in Request, NEW a \in User, NEW r \in CustomRole, AskDrop(q, a, r)
      PROVE  RoleInv'
  BY <1>15
     DEF RoleInv, MemberHasRole, Handed, Known, At, AskDrop, Goes, Keep, tables,
         history
<1>16. ASSUME NEW q \in Request, CheckAssigned(q)
      PROVE  RoleInv'
  BY <1>16
     DEF RoleInv, MemberHasRole, Handed, Known, At, FormInv, TypeOK, RequestState,
         Idle, CheckAssigned, Ends, Goes, Keep, tables, history
<1>17. ASSUME NEW q \in Request, CheckPending(q)
      PROVE  RoleInv'
  BY <1>17
     DEF RoleInv, MemberHasRole, Handed, Known, At, FormInv, TypeOK, RequestState,
         Idle, CheckPending, Ends, Goes, Keep, tables, history
<1>18. ASSUME NEW q \in Request, Drop(q)
      PROVE  RoleInv'
  BY <1>18 DEF RoleInv, MemberHasRole, Handed, Known, At, Idle, Drop, Ends, Goes
<1>19. ASSUME NEW q \in Request, NEW u \in User, AskDelete(q, u)
      PROVE  RoleInv'
  BY <1>19
     DEF RoleInv, MemberHasRole, Handed, Known, At, AskDelete, Goes, tables, history
<1>20. ASSUME NEW q \in Request, Cover(q)
      PROVE  RoleInv'
  BY <1>20
     DEF RoleInv, MemberHasRole, Handed, Known, At, FormInv, TypeOK, RequestState,
         Idle, Cover, Ends, Goes, history
<1>21. ASSUME NEW q \in Request, Purge(q)
      PROVE  RoleInv'
  BY <1>21 DEF RoleInv, MemberHasRole, Handed, Known, At, Purge, Goes, history
<1>22. ASSUME NEW q \in Request, Delete(q)
      PROVE  RoleInv'
  <2>1. request'[q].pc = "idle" /\ \A p \in Request \ {q} : request'[p] = request[p]
    BY <1>22, Ended DEF Delete
  <2>2. \A u \in User : member'[u] \in {member[u], None}
    BY <1>22 DEF Delete, FormInv, TypeOK
  <2>3. \A p \in Request : request[p].pc \in {"pending", "drop"} => request[p].role # None
    BY OrganizationsAssumption DEF FormInv, Said, Role
  <2>4. UNCHANGED <<role, crossed>>
    BY <1>22 DEF Delete, history
  <2>5. QED  BY <2>1, <2>2, <2>3, <2>4 DEF RoleInv, MemberHasRole, Handed, Known, At
<1>23. CASE UNCHANGED vars
  BY <1>23 DEF RoleInv, MemberHasRole, Handed, Known, At, vars, tables, history
<1>24. QED
  BY <1>1, <1>2, <1>3, <1>4, <1>5, <1>6, <1>7, <1>8, <1>9, <1>10, <1>11, <1>12, <1>13,
     <1>14, <1>15, <1>16, <1>17, <1>18, <1>19, <1>20, <1>21, <1>22, <1>23
     DEF Next, MemberStep, InvitationStep, RoleStep, DeletionStep

-----------------------------------------------------------------------------
(* The theorems.                                                           *)

LEMMA InitHolds ==
  ASSUME Init
  PROVE  IInv
<1>1. \A q \in Request : request[q] = Idle
  BY DEF Init
<1>2. FormInv
  BY <1>1, OrganizationsAssumption, IdleSaid, RowsTyped
     DEF Init, FormInv, TypeOK, Role, Pending, NoInvitation
<1>3. \A q \in Request : request[q].pc = "idle"
  BY <1>1 DEF Idle
<1>4. LockInv /\ RoleInv /\ AccountInv
  BY <1>3, OrganizationsAssumption
     DEF Init, LockInv, RoleInv, MemberHasRole, Known, AccountInv, OwnerHasAccount,
         MemberHasAccount, At
<1>5. OwnerInv
  BY <1>3, OrganizationsAssumption DEF Init, OwnerInv, HasOwner, Owners, At
<1>6. QED  BY <1>2, <1>4, <1>5 DEF IInv

LEMMA Invariance == Spec => []IInv
<1>1. Init => IInv
  BY InitHolds
<1>2. IInv /\ [Next]_vars => IInv'
  BY FormKept, LockKept, OwnerKept, AccountKept, RoleKept DEF IInv
<1>3. QED  BY <1>1, <1>2, PTL DEF Spec

\* Every table, lock and request keeps its form, and what a request carries to
\* its next step fits that step.
THEOREM TypeCorrect == Spec => []TypeOK
<1>1. IInv => TypeOK
  BY DEF IInv, FormInv
<1>2. QED  BY <1>1, Invariance, PTL

\* updateMemberRole, removeMember and the deletion of a user never take the
\* last owner of an organization among them, because what each has checked
\* stays true while it holds the rows of the members.
THEOREM OwnerTheorem == Spec => []HasOwner
<1>1. IInv => HasOwner
  BY DEF IInv, OwnerInv
<1>2. QED  BY <1>1, Invariance, PTL

\* deleteUser passes organizations.owner_user_id on before the account goes,
\* and never to a user who is deleted in turn.
THEOREM OwnerAccountTheorem == Spec => []OwnerHasAccount
<1>1. IInv => OwnerHasAccount
  BY DEF IInv, AccountInv
<1>2. QED  BY <1>1, Invariance, PTL

\* No member outlives the account, although acceptInvitation reads the user
\* without a lock: deleteUser waits for the invitation to be settled first.
THEOREM MemberAccountTheorem == Spec => []MemberHasAccount
<1>1. IInv => MemberHasAccount
  BY DEF IInv, AccountInv
<1>2. QED  BY <1>1, Invariance, PTL

\* deleteRole leaves no member with the role, but for one it crossed with.
THEOREM MemberRoleTheorem == Spec => []MemberHasRole
<1>1. IInv => MemberHasRole
  BY DEF IInv, RoleInv
<1>2. QED  BY <1>1, Invariance, PTL

\* A step that writes an invitation holds its row, or has waited for nobody to
\* hold it, so of acceptInvitation, revokeInvitation and a new invitation only
\* one settles it.
LEMMA SettledStep ==
  ASSUME FormInv, LockInv, [Next]_vars, NEW v \in Invitation,
         invitation[v].status \in {"accepted", "revoked"}
  PROVE  invitation'[v].status \in {invitation[v].status, "deleted"}
<1>1. ASSUME NEW q \in Request, NEW a \in User, NEW u \in User, NEW r \in Role, AskChange(q, a, u, r)
      PROVE  invitation'[v].status \in {invitation[v].status, "deleted"}
  BY <1>1 DEF AskChange, Keep, tables
<1>2. ASSUME NEW q \in Request, NEW a \in User, NEW u \in User, AskRemove(q, a, u)
      PROVE  invitation'[v].status \in {invitation[v].status, "deleted"}
  BY <1>2 DEF AskRemove, Keep, tables
<1>3. ASSUME NEW q \in Request, CheckChange(q)
      PROVE  invitation'[v].status \in {invitation[v].status, "deleted"}
  BY <1>3 DEF CheckChange, Locks, tables
<1>4. ASSUME NEW q \in Request, CheckRemove(q)
      PROVE  invitation'[v].status \in {invitation[v].status, "deleted"}
  BY <1>4 DEF CheckRemove, Locks, tables
<1>5. ASSUME NEW q \in Request, WriteMember(q)
      PROVE  invitation'[v].status \in {invitation[v].status, "deleted"}
  BY <1>5 DEF WriteMember, tables
<1>6. ASSUME NEW q \in Request, NEW a \in User, NEW u \in User, NEW r \in Role, AskInvite(q, a, u, r)
      PROVE  invitation'[v].status \in {invitation[v].status, "deleted"}
  BY <1>6 DEF AskInvite, Keep, tables
<1>7. ASSUME NEW q \in Request, NEW a \in User, NEW w \in Invitation, AskResend(q, a, w)
      PROVE  invitation'[v].status \in {invitation[v].status, "deleted"}
  BY <1>7 DEF AskResend, AskInvite, Keep, tables
<1>8. ASSUME NEW q \in Request, NEW a \in User, NEW w \in Invitation, Revoke(q, a, w)
      PROVE  invitation'[v].status \in {invitation[v].status, "deleted"}
  BY <1>8 DEF Revoke, tables
<1>9. ASSUME NEW q \in Request, NEW w \in Invitation, Insert(q, w)
      PROVE  invitation'[v].status \in {invitation[v].status, "deleted"}
  BY <1>9 DEF Insert, FormInv, TypeOK
<1>10. ASSUME NEW q \in Request, NEW w \in Invitation, Accept(q, w)
      PROVE  invitation'[v].status \in {invitation[v].status, "deleted"}
  BY <1>10 DEF Accept, tables
<1>11. ASSUME NEW q \in Request, Replace(q)
      PROVE  invitation'[v].status \in {invitation[v].status, "deleted"}
  <2>1. ~Pending(v)
    BY DEF Pending
  <2>2. QED  BY <1>11, <2>1 DEF Replace
<1>12. ASSUME NEW q \in Request, WriteRevoked(q)
      PROVE  invitation'[v].status \in {invitation[v].status, "deleted"}
  <2>1. request[q].invitation # v
    BY <1>12 DEF WriteRevoked, LockInv, At, Pending
  <2>2. QED  BY <1>12, <2>1 DEF WriteRevoked, Settle, FormInv, TypeOK
<1>13. ASSUME NEW q \in Request, WriteAccepted(q)
      PROVE  invitation'[v].status \in {invitation[v].status, "deleted"}
  <2>1. request[q].invitation # v
    BY <1>13 DEF WriteAccepted, LockInv, At, Pending
  <2>2. QED  BY <1>13, <2>1 DEF WriteAccepted, Settle, FormInv, TypeOK
<1>14. ASSUME NEW q \in Request, NEW a \in User, NEW r \in CustomRole, CreateRole(q, a, r)
      PROVE  invitation'[v].status \in {invitation[v].status, "deleted"}
  BY <1>14 DEF CreateRole, tables
<1>15. ASSUME NEW q \in Request, NEW a \in User, NEW r \in CustomRole, AskDrop(q, a, r)
      PROVE  invitation'[v].status \in {invitation[v].status, "deleted"}
  BY <1>15 DEF AskDrop, Keep, tables
<1>16. ASSUME NEW q \in Request, CheckAssigned(q)
      PROVE  invitation'[v].status \in {invitation[v].status, "deleted"}
  BY <1>16 DEF CheckAssigned, Keep, tables
<1>17. ASSUME NEW q \in Request, CheckPending(q)
      PROVE  invitation'[v].status \in {invitation[v].status, "deleted"}
  BY <1>17 DEF CheckPending, Keep, tables
<1>18. ASSUME NEW q \in Request, Drop(q)
      PROVE  invitation'[v].status \in {invitation[v].status, "deleted"}
  BY <1>18 DEF Drop, tables
<1>19. ASSUME NEW q \in Request, NEW u \in User, AskDelete(q, u)
      PROVE  invitation'[v].status \in {invitation[v].status, "deleted"}
  BY <1>19 DEF AskDelete, tables
<1>20. ASSUME NEW q \in Request, Cover(q)
      PROVE  invitation'[v].status \in {invitation[v].status, "deleted"}
  BY <1>20 DEF Cover, tables
<1>21. ASSUME NEW q \in Request, Purge(q)
      PROVE  invitation'[v].status \in {invitation[v].status, "deleted"}
  BY <1>21, RowsTyped DEF Purge
<1>22. ASSUME NEW q \in Request, Delete(q)
      PROVE  invitation'[v].status \in {invitation[v].status, "deleted"}
  BY <1>22 DEF Delete, tables
<1>23. CASE UNCHANGED vars
  BY <1>23 DEF vars, tables
<1>24. QED
  BY <1>1, <1>2, <1>3, <1>4, <1>5, <1>6, <1>7, <1>8, <1>9, <1>10, <1>11, <1>12, <1>13,
     <1>14, <1>15, <1>16, <1>17, <1>18, <1>19, <1>20, <1>21, <1>22, <1>23
     DEF Next, MemberStep, InvitationStep, RoleStep, DeletionStep

\* An invitation is accepted or revoked once: acceptInvitation checks under its
\* lock that it is still pending.
THEOREM SettledTheorem == Spec => SettledOnce
<1>1. IInv /\ [Next]_vars =>
        [\A v \in Invitation : invitation[v].status \in {"accepted", "revoked"} =>
           invitation'[v].status \in {invitation[v].status, "deleted"}]_vars
  BY SettledStep DEF IInv
<1>2. QED  BY <1>1, Invariance, PTL DEF Spec, SettledOnce
=============================================================================
