------------------------- MODULE IssueCountsProofs -------------------------
(***************************************************************************)
(* Proofs that the batched counters of IssueTracking lose no event and,    *)
(* while no unmerge has run, count none twice, for every instance.         *)
(* Whoever changes timesSeen holds the row, so that what a flush took and  *)
(* what a merge read are still so when they commit.                        *)
(***************************************************************************)
EXTENDS IssueTrackingProofs

\* An issue without a row has no event; what is referred to has a row.
AbsentEmpty == \A i \in Issue : ~Exists(i) => EventsOf(i) = {}
IntoExists == \A i \in Issue : issue[i].into # None => Exists(issue[i].into)

\* A transaction creates an issue that has no row, and alone; any other has
\* found the row it counts on.
FoundExists(d) ==
  /\ del[d].phase = "found" =>
       /\ Exists(Group(d)) /\ del[d].saw.status # "absent"
       /\ del[d].saw.into # None => Exists(del[d].saw.into)
  /\ del[d].phase = "ready" => del[d].way # "none"
  /\ (del[d].phase = "ready" /\ del[d].way # "create") =>
       Exists(del[d].to) /\ (del[d].way = "update" => del[d].status # "absent")
Creates(d) == del[d].phase = "ready" /\ del[d].way = "create"
CreatesAlone ==
  \A d \in Delivery : Creates(d) =>
    /\ del[d].to = Group(d) /\ ~Exists(Group(d))
    /\ \A e \in Delivery : Creates(e) /\ Group(e) = Group(d) => e = d
RequestExists(r) ==
  req[r].phase \notin {"new", "done"} =>
    Exists(req[r].source) /\ (KindOf[r] # "status" => Exists(req[r].target))

ExistInv ==
  /\ AbsentEmpty /\ IntoExists /\ CreatesAlone
  /\ \A d \in Delivery : FoundExists(d)
  /\ \A r \in Request : RequestExists(r)

\* Row locks exclude each other.
Holder == {r \in Request : KindOf[r] # "status"}
Held(i) == \E r \in Holder : i \in req[r].held
Counts(d) == del[d].phase = "ready" /\ del[d].way \in {"update", "merged"}
FlushesAlone ==
  \A f \in Flusher : flush[f].at # None =>
    /\ ~Held(flush[f].at)
    /\ \A g \in Flusher : flush[g].at = flush[f].at => g = f
CountsAlone == \A d \in Delivery : Counts(d) => ~Held(del[d].to)
HoldsAlone == \A r, q \in Holder : r # q => req[r].held \intersect req[q].held = {}
UnmergeHolds(r) ==
  KindOf[r] = "unmerge" =>
    /\ req[r].phase = "flushed" => req[r].target \in req[r].held
    /\ req[r].phase = "ready" => {req[r].source, req[r].target} \subseteq req[r].held

ExclusionInv ==
  FlushesAlone /\ CountsAlone /\ HoldsAlone /\ \A r \in Request : UnmergeHolds(r)

\* What was taken is still pending, what was read is still so.
FlushTook == \A f \in Flusher : flush[f].at # None => flush[f].took \subseteq PendingOf(flush[f].at)
RequestTook(r) ==
  (KindOf[r] = "unmerge" /\ req[r].phase \in {"flushed", "ready"}) =>
    req[r].took \subseteq PendingOf(req[r].target)
RequestSaw(r) ==
  (KindOf[r] = "merge" /\ req[r].phase = "ready") =>
    /\ issue[req[r].source].seen = req[r].sawSource.seen
    /\ issue[req[r].target].seen = req[r].sawTarget.seen

StillSoInv == FlushTook /\ \A r \in Request : RequestTook(r) /\ RequestSaw(r)


-----------------------------------------------------------------------------
(* What a step of a delivery and a step of a request come to.              *)

\* A delivery reads the row of its issue, or writes under the lock it needs.
Reading(d) ==
  del'[d].phase = "found" /\ Exists(Group(d)) /\ del'[d].saw = issue[Group(d)]
Creating(d) ==
  /\ del'[d].phase = "ready" /\ del'[d].way = "create" /\ del'[d].to = Group(d)
  /\ ~Exists(Group(d))
  /\ \A e \in Delivery : Creates(e) => Group(e) # Group(d)
Counting(d) ==
  /\ del'[d].phase = "ready" /\ del[d].phase = "found"
  /\ del'[d].way \in {"pending", "merged", "update"}
  /\ del'[d].to = IF del'[d].way = "merged" THEN del[d].saw.into ELSE Group(d)
  /\ del'[d].way = "merged" => del[d].saw.into # None
  /\ del'[d].way # "pending" => CanUpdate(del'[d].to)
  /\ del'[d].status \in {"open", del[d].saw.status}
Outcome(d) ==
  \/ del'[d].phase \notin {"found", "ready"}
  \/ Reading(d) \/ Creating(d) \/ Counting(d)

LEMMA AttemptShape ==
  ASSUME TypeOK, NEW d \in Delivery, Attempts(d)
  PROVE  /\ \A e \in Delivery \ {d} : del'[e] = del[e]
         /\ Outcome(d)
<1>1. del \in [Delivery -> DeliveryState] /\ del[d] \in DeliveryState
  BY DEF TypeOK
<1>2. \A e \in Delivery \ {d} : del'[e] = del[e]
  BY <1>1 DEF Attempts, Receive, LockEvent, CheckAgain, FindIssue, InsertIssue, CountOnTarget,
     CountLater, UpdateIssue, Rollback, GoTo, Reads, Writes
<1>3. ASSUME NEW phase \in DeliveryPhase, GoTo(d, phase)
      PROVE  del'[d].phase = phase
  BY <1>1, <1>3 DEF GoTo, DeliveryState
<1>4. ASSUME Reads(d), Exists(Group(d))
      PROVE  Outcome(d)
  BY <1>1, <1>4 DEF Reads, DeliveryState, Outcome, Reading
<1>5. ASSUME NEW way \in Way, NEW to \in Issue \union {None}, NEW status \in IssueStatus,
             Writes(d, way, to, status)
      PROVE  /\ del'[d].phase = "ready" /\ del'[d].way = way /\ del'[d].to = to
             /\ del'[d].status = status
  BY <1>1, <1>5 DEF Writes, DeliveryState
<1> USE GroupsAreIssues DEF Way, IssueStatus
<1>6. del[d].saw.into \in Issue \union {None} /\ del[d].saw.status \in IssueStatus
  BY <1>1 DEF DeliveryState, IssueRow
<1>7. CASE Receive(d) \/ LockEvent(d) \/ CheckAgain(d) \/ Rollback(d)
  BY <1>1, <1>2, <1>7 DEF Receive, LockEvent, CheckAgain, Rollback, GoTo, DeliveryState, Ended, Outcome
<1>8. CASE FindIssue(d)
  BY <1>2, <1>3, <1>4, <1>8 DEF FindIssue, Outcome, DeliveryPhase
<1>9. CASE InsertIssue(d)
  BY <1>2, <1>4, <1>5, <1>9 DEF InsertIssue, Outcome, Creating, Creates
<1>10. CASE CountOnTarget(d)
  BY <1>2, <1>5, <1>6, <1>10 DEF CountOnTarget, Outcome, Counting
<1>11. CASE CountLater(d)
  BY <1>2, <1>5, <1>6, <1>11 DEF CountLater, Outcome, Counting
<1>12. ASSUME NEW reopen \in BOOLEAN, UpdateIssue(d, reopen)
       PROVE  Outcome(d)
  BY <1>5, <1>6, <1>12 DEF UpdateIssue, Outcome, Counting
<1>13. QED  BY <1>2, <1>7, <1>8, <1>9, <1>10, <1>11, <1>12 DEF Attempts

\* A request answers, begins, or goes on with the same issues.
Begins(r) ==
  /\ req[r].phase = "new" /\ req'[r].phase \in {"open", "read"} /\ req'[r].held = req[r].held
  /\ Exists(req'[r].source)
  /\ KindOf[r] # "status" => Exists(req'[r].target)
LocksMore(r) ==
  /\ KindOf[r] = "merge" /\ req'[r].phase = "open"
  /\ \A i \in req'[r].held : i \in req[r].held \/ CanUpdate(i)
HasRead(r) ==
  /\ KindOf[r] = "merge" /\ req'[r].phase = "ready" /\ req'[r].held = req[r].held
  /\ req'[r].sawSource = issue[req[r].source] /\ req'[r].sawTarget = issue[req[r].target]
Flushing(r) ==
  KindOf[r] = "unmerge" /\ req'[r].phase = "flush" /\ req'[r].held = req[r].held
HasFlushed(r) ==
  /\ KindOf[r] = "unmerge" /\ req'[r].phase = "flushed"
  /\ req'[r].held = {req[r].target} /\ CanUpdate(req[r].target)
  /\ req'[r].took \subseteq PendingOf(req[r].target)
HasRestored(r) ==
  /\ KindOf[r] = "unmerge" /\ req[r].phase = "flushed" /\ req'[r].phase = "ready"
  /\ req'[r].held = req[r].held \union {req[r].source} /\ CanUpdate(req[r].source)
  /\ req'[r].took = req[r].took
GoesOn(r) ==
  /\ req[r].phase # "new" /\ req'[r].source = req[r].source /\ req'[r].target = req[r].target
  /\ LocksMore(r) \/ HasRead(r) \/ Flushing(r) \/ HasFlushed(r) \/ HasRestored(r)
Turn(r) ==
  \/ req'[r].phase = "done" /\ req'[r].held = {}
  \/ Begins(r) \/ GoesOn(r)

LEMMA AnswerShape ==
  ASSUME TypeOK, NEW r \in Request, Answer(r)
  PROVE  /\ \A q \in Request \ {r} : req'[q] = req[q]
         /\ req'[r].phase = "done" /\ req'[r].held = {}
  BY DEF TypeOK, Answer, Answered, NewRequest

LEMMA PrepareShape ==
  ASSUME TypeOK, IntoExists, NEW r \in Request, Prepares(r)
  PROVE  /\ \A q \in Request \ {r} : req'[q] = req[q]
         /\ req[r].phase # "done" /\ Turn(r)
<1>1. req \in [Request -> RequestState] /\ req[r] \in RequestState
  BY DEF TypeOK
<1>2. \A q \in Request \ {r} : req'[q] = req[q]
  BY <1>1 DEF Prepares, MergeOpen, UnmergeRead, StatusRead, MergeLock, MergeRead, FlushInStart,
     FlushIn, Restore, RequestFails, Answer
<1>3. req[r].phase # "done"
  BY DEF Prepares, MergeOpen, UnmergeRead, StatusRead, MergeLock, MergeRead, FlushInStart,
     FlushIn, Restore, RequestFails
<1> SUFFICES Turn(r)
  BY <1>2, <1>3
<1>4. CASE Answer(r)
  BY <1>4, AnswerShape DEF Turn
<1>5. ASSUME NEW s \in Issue, NEW t \in Issue, MergeOpen(r, s, t)
      PROVE  Turn(r)
  BY <1>1, <1>5 DEF MergeOpen, RequestState, Turn, Begins
<1>6. ASSUME NEW s \in Issue, UnmergeRead(r, s)
      PROVE  Turn(r)
  BY <1>1, <1>6 DEF UnmergeRead, RequestState, IntoExists, Turn, Begins
<1>7. ASSUME NEW s \in Issue, StatusRead(r, s)
      PROVE  Turn(r)
  BY <1>1, <1>7 DEF StatusRead, RequestState, Turn, Begins
<1>8. CASE MergeLock(r)
  <2>1. PICK i \in NextToLock(r) :
          /\ CanLockForUpdate(i)
          /\ req' = [req EXCEPT ![r] = [req[r] EXCEPT !.held = req[r].held \union {i}]]
    BY <1>8 DEF MergeLock
  <2>2. /\ req'[r].source = req[r].source /\ req'[r].target = req[r].target
        /\ req'[r].phase = req[r].phase /\ req'[r].held = req[r].held \union {i}
    BY <1>1, <2>1 DEF RequestState
  <2>3. QED  BY <1>8, <2>1, <2>2 DEF MergeLock, CanLockForUpdate, Turn, GoesOn, LocksMore
<1>9. CASE MergeRead(r) /\ ~Answer(r)
  <2>1. req' = [req EXCEPT ![r] = [req[r] EXCEPT !.phase = "ready",
                  !.sawSource = issue[req[r].source], !.sawTarget = issue[req[r].target]]]
    BY <1>9 DEF MergeRead
  <2>2. QED  BY <1>1, <1>9, <2>1 DEF MergeRead, RequestState, Turn, GoesOn, HasRead
<1>10. CASE FlushInStart(r)
  BY <1>1, <1>10 DEF FlushInStart, RequestState, Turn, GoesOn, Flushing
<1>11. CASE FlushIn(r)
  <2>1. req'[r] = [req[r] EXCEPT !.phase = "flushed", !.held = {req[r].target},
                                 !.took = req[r].took \intersect PendingOf(req[r].target)]
    BY <1>1, <1>11 DEF FlushIn
  <2>2. /\ req'[r].phase = "flushed" /\ req'[r].held = {req[r].target}
        /\ req'[r].took = req[r].took \intersect PendingOf(req[r].target)
        /\ req'[r].source = req[r].source /\ req'[r].target = req[r].target
    BY <1>1, <2>1 DEF RequestState
  <2>3. QED  BY <1>11, <2>2 DEF FlushIn, Turn, GoesOn, HasFlushed
<1>12. CASE Restore(r)
  <2>1. req'[r] = [req[r] EXCEPT !.phase = "ready", !.held = req[r].held \union {req[r].source}]
    BY <1>1, <1>12 DEF Restore
  <2>2. /\ req'[r].phase = "ready" /\ req'[r].held = req[r].held \union {req[r].source}
        /\ req'[r].took = req[r].took
        /\ req'[r].source = req[r].source /\ req'[r].target = req[r].target
    BY <1>1, <2>1 DEF RequestState
  <2>3. QED  BY <1>12, <2>2 DEF Restore, Turn, GoesOn, HasRestored
<1>13. QED
  BY <1>4, <1>5, <1>6, <1>7, <1>8, <1>9, <1>10, <1>11, <1>12 DEF Prepares, RequestFails

LEMMA PreparesStoreNothing ==
  ASSUME NEW r \in Request, Prepares(r)
  PROVE  UNCHANGED <<issue, event, pending, del, flush>>
  BY DEF Prepares, MergeOpen, UnmergeRead, StatusRead, MergeLock, MergeRead, FlushInStart,
     FlushIn, Restore, RequestFails, store

LEMMA AttemptsStoreNothing ==
  ASSUME NEW d \in Delivery, Attempts(d)
  PROVE  UNCHANGED <<issue, event, pending, flush, req>>
  BY AttemptStoresNothing DEF store

-----------------------------------------------------------------------------
(* Issues that exist.                                                      *)

\* A step that makes no issue, and moves events and merges only to issues.
Steady ==
  /\ \A i \in Issue : Exists(i)' <=> Exists(i)
  /\ \A d \in Delivery : event'[d].issue # event[d].issue => Exists(event'[d].issue)
  /\ \A i \in Issue :
       issue'[i].into \notin {None, issue[i].into} => issue'[i].into \in Issue /\ Exists(issue'[i].into)

LEMMA SteadyKeepsRows ==
  ASSUME TypeOK, ExistInv, Steady
  PROVE  AbsentEmpty' /\ IntoExists'
<1>1. ASSUME NEW i \in Issue, ~Exists(i)'
      PROVE  EventsOf(i)' = {}
  <2>1. EventsOf(i) = {} /\ ~Exists(i)
    BY <1>1 DEF Steady, ExistInv, AbsentEmpty
  <2>2. QED  BY <1>1, <2>1 DEF Steady, EventsOf
<1>2. ASSUME NEW i \in Issue, issue'[i].into # None
      PROVE  issue'[issue'[i].into].status # "absent"
  <2>1. issue[i].into \in Issue \union {None}
    BY DEF TypeOK, IssueRow
  <2>2. QED  BY <1>2, <2>1 DEF Steady, ExistInv, IntoExists, Exists
<1>3. QED  BY <1>1, <1>2 DEF AbsentEmpty, IntoExists, Exists

LEMMA SteadyKeepsDeliveries ==
  ASSUME IInv, ExistInv, Steady, UNCHANGED del
  PROVE  CreatesAlone' /\ \A d \in Delivery : FoundExists(d)'
<1>1. ASSUME NEW d \in Delivery
      PROVE  FoundExists(d)'
  <2>1. /\ del[d].saw.into \in Issue \union {None} /\ Group(d) \in Issue
        /\ del[d].phase = "ready" => del[d].to \in Issue
    BY GroupsAreIssues DEF IInv, OnceInv, TargetsNamed, TypeOK, DeliveryState, IssueRow
  <2>2. FoundExists(d)
    BY DEF ExistInv
  <2>3. QED  BY <2>1, <2>2 DEF FoundExists, Steady
<1>2. CreatesAlone'
  BY GroupsAreIssues DEF ExistInv, CreatesAlone, Creates, Steady
<1>3. QED  BY <1>1, <1>2

LEMMA SteadyKeepsRequest ==
  ASSUME RequestsNamed, ExistInv, Steady, NEW q \in Request, req'[q] = req[q]
  PROVE  RequestExists(q)'
  BY DEF RequestsNamed, RequestNamed, ExistInv, RequestExists, Steady

LEMMA UnchangedIsSteady ==
  ASSUME UNCHANGED <<issue, event>>
  PROVE  Steady
  BY DEF Steady, Exists

LEMMA ExistKept ==
  ASSUME IInv, ExistInv, Steady, UNCHANGED <<del, req>>
  PROVE  ExistInv'
<1>1. \A q \in Request : RequestExists(q)'
  BY SteadyKeepsRequest DEF IInv, MergeInv
<1>2. QED  BY <1>1, SteadyKeepsRows, SteadyKeepsDeliveries DEF ExistInv, IInv

LEMMA AttemptKeepsExist ==
  ASSUME IInv, ExistInv, NEW d \in Delivery, Attempts(d)
  PROVE  ExistInv'
<1>1. UNCHANGED <<issue, event, pending, flush, req>>
  BY AttemptsStoreNothing
<1>2. (\A e \in Delivery \ {d} : del'[e] = del[e]) /\ Outcome(d)
  BY AttemptShape DEF IInv
<1>3. AbsentEmpty' /\ IntoExists' /\ \A r \in Request : RequestExists(r)'
  BY <1>1 DEF ExistInv, AbsentEmpty, Exists, EventsOf, IntoExists, RequestExists
<1>4. ASSUME NEW e \in Delivery \ {d}
      PROVE  FoundExists(e)' /\ (Creates(e)' <=> Creates(e)) /\ del'[e].to = del[e].to
  BY <1>1, <1>2 DEF ExistInv, FoundExists, Creates, Exists
<1>5. FoundExists(d)' /\ (Creates(d)' => Creating(d))
  <2>1. CASE del'[d].phase \notin {"found", "ready"}
    BY <2>1 DEF FoundExists, Creates
  <2>2. CASE Reading(d)
    BY <1>1, <2>2, GroupsAreIssues DEF Reading, FoundExists, Creates, ExistInv, IntoExists, Exists
  <2>3. CASE Creating(d)
    BY <2>3 DEF Creating, FoundExists
  <2>4. CASE Counting(d)
    BY <1>1, <2>4 DEF Counting, FoundExists, Creates, ExistInv, Exists
  <2>5. QED  BY <1>2, <2>1, <2>2, <2>3, <2>4 DEF Outcome
<1>6. CreatesAlone'
  <2>1. ASSUME NEW c \in Delivery, Creates(c)'
        PROVE  /\ del'[c].to = Group(c) /\ ~Exists(Group(c))
               /\ \A e \in Delivery : Creates(e)' /\ Group(e) = Group(c) => e = c
    <3>1. CASE c = d
      BY <1>4, <1>5, <2>1, <3>1 DEF Creating
    <3>2. CASE c # d
      BY <1>4, <1>5, <2>1, <3>2 DEF Creating, ExistInv, CreatesAlone
    <3>3. QED  BY <3>1, <3>2
  <2>2. QED  BY <1>1, <2>1 DEF CreatesAlone, Exists
<1>7. QED  BY <1>3, <1>4, <1>5, <1>6 DEF ExistInv

\* What a delivery that commits has found, and that it is not stored yet.
LEMMA CommitShape ==
  ASSUME IInv, ExistInv, NEW d \in Delivery, Commit(d)
  PROVE  /\ del[d].to \in Issue
         /\ event[d].issue = None /\ pending[d] = None
         /\ Creates(d) => del[d].to = Group(d) /\ ~Exists(del[d].to)
         /\ ~Creates(d) => Exists(del[d].to) /\ del[d].way \in {"pending", "merged", "update"}
         /\ \A i \in Issue \ {del[d].to} : issue'[i] = issue[i]
         /\ issue'[del[d].to] = Written(d) /\ Written(d).status # "absent"
         /\ Creates(d) => Written(d).seen = 1 /\ Written(d).into = None
         /\ ~Creates(d) =>
              /\ Written(d).seen = IF del[d].way = "pending" THEN issue[del[d].to].seen
                                   ELSE issue[del[d].to].seen + 1
              /\ Written(d).into = issue[del[d].to].into
         /\ \A e \in Delivery \ {d} : event'[e] = event[e] /\ pending'[e] = pending[e] /\ del'[e] = del[e]
         /\ event'[d].issue = del[d].to
         /\ pending'[d] = (IF del[d].way = "pending" THEN del[d].to ELSE None)
         /\ del'[d] = Ended
<1>1. del[d].phase = "ready" /\ del[d].to \in Issue
  BY DEF IInv, OnceInv, TargetsNamed, Commit
<1>2. event[d].issue = None
  BY <1>1 DEF IInv, OnceInv, CheckHolds, PastCheck, Duplicate, Stored
<1>3. pending[d] = None
  BY <1>2 DEF IInv, CountFollowsEvent
<1>4. Creates(d) => del[d].to = Group(d) /\ ~Exists(del[d].to)
  BY DEF ExistInv, CreatesAlone
<1>5. ~Creates(d) => Exists(del[d].to) /\ (del[d].way = "update" => del[d].status # "absent")
  BY <1>1 DEF Creates, ExistInv, FoundExists
<1>6. ~Creates(d) => del[d].way \in {"pending", "merged", "update"}
  <2>1. del[d].way \in Way
    BY DEF IInv, TypeOK, DeliveryState
  <2>2. QED  BY <1>1, <2>1 DEF Creates, ExistInv, FoundExists, Way
<1>7. /\ issue' = [issue EXCEPT ![del[d].to] = Written(d)]
      /\ event' = [event EXCEPT ![d] =
                     [issue |-> del[d].to, from |-> IF del[d].way = "merged" THEN Group(d) ELSE None]]
      /\ pending' = [pending EXCEPT ![d] = IF del[d].way = "pending" THEN del[d].to ELSE None]
      /\ del' = [del EXCEPT ![d] = Ended]
  BY DEF Commit
<1>8. issue[del[d].to] \in IssueRow
  BY <1>1 DEF IInv, TypeOK
<1>9. CASE Creates(d)
  <2>1. Written(d) = [status |-> "open", into |-> None, seen |-> 1]
    BY <1>9 DEF Creates, Written
  <2>2. QED  BY <1>1, <1>2, <1>3, <1>4, <1>7, <1>9, <2>1 DEF IInv, TypeOK
<1>10. CASE ~Creates(d)
  <2>1. Written(d) = [issue[del[d].to] EXCEPT
                        !.seen = IF del[d].way = "pending" THEN @ ELSE @ + 1,
                        !.status = IF del[d].way = "update" THEN del[d].status ELSE @]
    BY <1>1, <1>10 DEF Creates, Written
  <2>2. /\ Written(d).seen = IF del[d].way = "pending" THEN issue[del[d].to].seen
                             ELSE issue[del[d].to].seen + 1
        /\ Written(d).into = issue[del[d].to].into
        /\ Written(d).status = IF del[d].way = "update" THEN del[d].status ELSE issue[del[d].to].status
    BY <1>8, <2>1 DEF IssueRow
  <2>3. Written(d).status # "absent"
    BY <1>5, <1>10, <2>2 DEF Exists
  <2>4. QED  BY <1>1, <1>2, <1>3, <1>5, <1>7, <1>10, <1>6, <2>2, <2>3 DEF IInv, TypeOK
<1>11. QED  BY <1>9, <1>10

LEMMA CommitKeepsExist ==
  ASSUME IInv, ExistInv, NEW d \in Delivery, Commit(d)
  PROVE  ExistInv'
<1> DEFINE i == del[d].to
<1>1. \A j \in Issue : Exists(j)' <=> Exists(j) \/ j = i
  BY CommitShape DEF Exists
<1>2. UNCHANGED req
  BY DEF Commit
<1>3. AbsentEmpty'
  <2>1. ASSUME NEW j \in Issue, ~Exists(j)'
        PROVE  EventsOf(j)' = {}
    <3>1. EventsOf(j) = {} /\ j # i
      BY <1>1, <2>1 DEF ExistInv, AbsentEmpty
    <3>2. QED  BY <3>1, CommitShape DEF EventsOf
  <2>2. QED  BY <2>1 DEF AbsentEmpty
<1>4. IntoExists'
  <2>1. ASSUME NEW j \in Issue, issue'[j].into # None
        PROVE  issue'[issue'[j].into].status # "absent"
    <3>1. issue'[j].into = issue[j].into /\ issue[j].into \in Issue
      <4>1. issue'[j].into \in {issue[j].into, None}
        BY CommitShape
      <4>2. issue[j].into \in Issue \union {None}
        BY DEF IInv, TypeOK, IssueRow
      <4>3. QED  BY <2>1, <4>1, <4>2
    <3>2. QED  BY <1>1, <2>1, <3>1 DEF ExistInv, IntoExists, Exists
  <2>2. QED  BY <2>1 DEF IntoExists, Exists
<1>5. ASSUME NEW e \in Delivery
      PROVE  FoundExists(e)'
  <2>1. CASE e = d
    BY <2>1, CommitShape DEF FoundExists, Ended
  <2>2. CASE e # d
    <3>1. del'[e] = del[e] /\ FoundExists(e)
      BY <2>2, CommitShape DEF ExistInv
    <3>2. /\ del[e].saw.into \in Issue \union {None} /\ Group(e) \in Issue
          /\ del[e].phase = "ready" => del[e].to \in Issue
      BY GroupsAreIssues DEF IInv, OnceInv, TargetsNamed, TypeOK, DeliveryState, IssueRow
    <3>3. QED  BY <1>1, <3>1, <3>2 DEF FoundExists
  <2>3. QED  BY <2>1, <2>2
<1>6. CreatesAlone'
  <2>1. ASSUME NEW e \in Delivery, Creates(e)'
        PROVE  e # d /\ Creates(e) /\ del'[e].to = del[e].to
    BY <2>1, CommitShape DEF Creates, Ended
  <2>2. ASSUME NEW e \in Delivery, Creates(e)'
        PROVE  Group(e) # i
    <3>1. e # d /\ ~Exists(Group(e))
      BY <2>1, <2>2 DEF ExistInv, CreatesAlone
    <3>2. CASE Creates(d)
      BY <2>1, <2>2, <3>1, <3>2, CommitShape DEF ExistInv, CreatesAlone
    <3>3. CASE ~Creates(d)
      BY <3>1, <3>3, CommitShape
    <3>4. QED  BY <3>2, <3>3
  <2>3. QED  BY <1>1, <2>1, <2>2, GroupsAreIssues DEF ExistInv, CreatesAlone
<1>7. ASSUME NEW r \in Request
      PROVE  RequestExists(r)'
  BY <1>1, <1>2 DEF IInv, MergeInv, RequestsNamed, RequestNamed, ExistInv, RequestExists
<1>8. QED  BY <1>3, <1>4, <1>5, <1>6, <1>7 DEF ExistInv

LEMMA PrepareKeepsExist ==
  ASSUME IInv, ExistInv, NEW r \in Request, Prepares(r)
  PROVE  ExistInv'
<1>1. UNCHANGED <<issue, event, pending, del, flush>>
  BY PreparesStoreNothing
<1>2. (\A q \in Request \ {r} : req'[q] = req[q]) /\ Turn(r)
  BY PrepareShape DEF IInv, ExistInv
<1>3. Steady
  BY <1>1, UnchangedIsSteady
<1>4. RequestExists(r)'
  <2>1. CASE req'[r].phase = "done"
    BY <2>1 DEF RequestExists
  <2>2. CASE Begins(r)
    BY <1>1, <2>2 DEF Begins, RequestExists, Exists
  <2>3. CASE GoesOn(r) /\ req'[r].phase # "done"
    <3>1. req[r].phase \notin {"new", "done"}
      BY <2>3, PrepareShape DEF GoesOn, IInv, ExistInv
    <3>2. QED  BY <1>1, <2>3, <3>1 DEF GoesOn, ExistInv, RequestExists, Exists
  <2>4. QED  BY <1>2, <2>1, <2>2, <2>3 DEF Turn
<1>5. \A q \in Request : RequestExists(q)'
  BY <1>2, <1>3, <1>4, SteadyKeepsRequest DEF IInv, MergeInv
<1>6. QED  BY <1>1, <1>3, <1>5, SteadyKeepsRows, SteadyKeepsDeliveries DEF ExistInv, IInv

\* A step that answers a request and is steady.
LEMMA AnswerKeepsExist ==
  ASSUME IInv, ExistInv, Steady, UNCHANGED del, NEW r \in Request, Answer(r)
  PROVE  ExistInv'
<1>1. \A q \in Request : RequestExists(q)'
  <2>1. RequestExists(r)'
    BY AnswerShape DEF IInv, RequestExists
  <2>2. QED  BY <2>1, AnswerShape, SteadyKeepsRequest DEF IInv, MergeInv
<1>2. QED  BY <1>1, SteadyKeepsRows, SteadyKeepsDeliveries DEF ExistInv, IInv

\* The rows after a merge, an unmerge and a change of status.
LEMMA MergeShape ==
  ASSUME IInv, ExistInv, NEW r \in Request, MergeCommit(r)
  PROVE  LET s == req[r].source
             t == req[r].target
         IN
         /\ KindOf[r] = "merge" /\ s \in Issue /\ t \in Issue /\ s # t
         /\ Exists(s) /\ Exists(t) /\ s \in req[r].held /\ t \in req[r].held
         /\ issue[s].into = None /\ issue[t].into = None
         /\ \A i \in Issue :
              /\ Exists(i)' <=> Exists(i)
              /\ issue'[i].into = IF i = s \/ issue[i].into = s THEN t ELSE issue[i].into
              /\ issue'[i].seen = IF i = t THEN req[r].sawTarget.seen + req[r].sawSource.seen
                                  ELSE issue[i].seen
         /\ \A d \in Delivery :
              /\ event'[d].issue = IF event[d].issue = s THEN t ELSE event[d].issue
              /\ pending'[d] = IF pending[d] = s THEN t ELSE pending[d]
<1> DEFINE s == req[r].source
           t == req[r].target
<1>1. KindOf[r] = "merge" /\ req[r].phase = "ready"
  BY DEF MergeCommit
<1>2. s \in Issue /\ t \in Issue /\ s # t
  BY <1>1 DEF IInv, MergeInv, RequestsNamed, RequestNamed
<1>3. Exists(s) /\ Exists(t)
  BY <1>1 DEF ExistInv, RequestExists
<1>4. s \in req[r].held /\ t \in req[r].held
  BY <1>1 DEF IInv, MergeInv, RequestsLock, RequestLocks, Unheld
<1>5. issue[s].into = None /\ issue[t].into = None
  BY <1>1 DEF IInv, MergeInv, ReadsUnderLock, ReadUnderLock
<1>6. ASSUME NEW d \in Delivery
      PROVE  /\ event'[d].issue = IF event[d].issue = s THEN t ELSE event[d].issue
             /\ pending'[d] = IF pending[d] = s THEN t ELSE pending[d]
  BY DEF MergeCommit, PendingMoved
<1>7. ASSUME NEW i \in Issue
      PROVE  issue'[i] =
               IF i = s THEN [issue[i] EXCEPT !.status = "merged", !.into = t]
               ELSE IF i = t
               THEN [issue[i] EXCEPT !.seen = req[r].sawTarget.seen + req[r].sawSource.seen]
               ELSE IF issue[i].into = s THEN [issue[i] EXCEPT !.into = t]
               ELSE issue[i]
  BY DEF MergeCommit, MergedInto
<1>8. ASSUME NEW i \in Issue
      PROVE  /\ Exists(i)' <=> Exists(i)
             /\ issue'[i].into = IF i = s \/ issue[i].into = s THEN t ELSE issue[i].into
             /\ issue'[i].seen = IF i = t THEN req[r].sawTarget.seen + req[r].sawSource.seen
                                 ELSE issue[i].seen
  <2>1. issue[i] \in IssueRow /\ issue[i].into \in Issue \union {None} /\ s # None
    BY <1>2, NoneIsNoIssue DEF IInv, TypeOK, IssueRow
  <2>2. CASE i = s
    <3>1. issue'[i] = [issue[i] EXCEPT !.status = "merged", !.into = t]
      BY <1>7, <2>2
    <3>2. QED  BY <1>2, <1>3, <2>1, <2>2, <3>1 DEF IssueRow, Exists
  <2>3. CASE i = t
    <3>1. issue'[i] = [issue[i] EXCEPT !.seen = req[r].sawTarget.seen + req[r].sawSource.seen]
      BY <1>2, <1>7, <2>3
    <3>2. QED  BY <1>2, <1>5, <2>1, <2>3, <3>1 DEF IssueRow, Exists
  <2>4. CASE i # s /\ i # t /\ issue[i].into = s
    <3>1. issue'[i] = [issue[i] EXCEPT !.into = t]
      BY <1>7, <2>4
    <3>2. QED  BY <2>1, <2>4, <3>1 DEF IssueRow, Exists
  <2>5. CASE i # s /\ i # t /\ issue[i].into # s
    BY <1>7, <2>5 DEF Exists
  <2>6. QED  BY <2>2, <2>3, <2>4, <2>5
<1>9. QED  BY <1>1, <1>2, <1>3, <1>4, <1>5, <1>6, <1>8

LEMMA MergeKeepsExist ==
  ASSUME IInv, ExistInv, NEW r \in Request, MergeCommit(r)
  PROVE  ExistInv'
<1> DEFINE s == req[r].source
           t == req[r].target
<1>1. \A i \in Issue : (Exists(i)' <=> Exists(i)) /\ issue'[i].into \in {issue[i].into, t}
  BY MergeShape
<1>2. t \in Issue /\ Exists(t)
  BY MergeShape
<1>3. \A d \in Delivery : event'[d].issue \in {event[d].issue, t}
  BY MergeShape
<1>4. Steady
  BY <1>1, <1>2, <1>3 DEF Steady
<1>5. QED  BY <1>4, AnswerKeepsExist DEF MergeCommit

LEMMA AtLeastFloor == \A n \in Int, floor \in Nat : AtLeast(n, floor) \in Int /\ AtLeast(n, floor) >= floor
  BY DEF AtLeast

LEMMA UnmergeShape ==
  ASSUME IInv, ExistInv, NEW r \in Request, UnmergeCommit(r)
  PROVE  LET s == req[r].source
             t == req[r].target
             moved == {d \in EventsOf(t) : event[d].from = s}
         IN
         /\ KindOf[r] = "unmerge" /\ req[r].phase = "ready" /\ s \in Issue /\ t \in Issue
         /\ Exists(s) /\ Exists(t)
         /\ \A i \in Issue :
              /\ Exists(i)' <=> Exists(i)
              /\ issue'[i].into = IF i = s THEN None ELSE issue[i].into
              /\ i \notin {s, t} => issue'[i].seen = issue[i].seen
         /\ issue'[s].seen >= Cardinality(EventsOf(s) \union moved)
         /\ t # s => issue'[t].seen >= Cardinality(EventsOf(t) \ moved)
         /\ \A d \in Delivery :
              /\ event'[d].issue = IF d \in moved THEN s ELSE event[d].issue
              /\ pending'[d] = pending[d] \/ d \in req[r].took \/ (pending[d] = t /\ pending'[d] = s)
<1> DEFINE s == req[r].source
           t == req[r].target
           moved == {d \in EventsOf(t) : event[d].from = s}
           seenOfS == AtLeast(issue[s].seen, Cardinality(EventsOf(s) \union moved))
           seenOfT == AtLeast(issue[t].seen + Cardinality(req[r].took) - Cardinality(moved),
                              Cardinality(EventsOf(t) \ moved))
<1>1. KindOf[r] = "unmerge" /\ req[r].phase = "ready"
  BY DEF UnmergeCommit
<1>2. s \in Issue /\ t \in Issue
  BY <1>1 DEF IInv, MergeInv, RequestsNamed, RequestNamed
<1>3. Exists(s) /\ Exists(t)
  BY <1>1 DEF ExistInv, RequestExists
<1>4. ASSUME NEW d \in Delivery
      PROVE  /\ event'[d].issue = IF d \in moved THEN s ELSE event[d].issue
             /\ pending'[d] = pending[d] \/ d \in req[r].took \/ (pending[d] = t /\ pending'[d] = s)
  BY DEF UnmergeCommit
<1>5. ASSUME NEW i \in Issue
      PROVE  issue'[i] = IF i = s THEN [status |-> "open", into |-> None, seen |-> seenOfS]
                         ELSE IF i = t THEN [issue[t] EXCEPT !.seen = seenOfT]
                         ELSE issue[i]
  BY DEF UnmergeCommit
<1>6. ASSUME NEW i \in Issue
      PROVE  /\ Exists(i)' <=> Exists(i)
             /\ issue'[i].into = IF i = s THEN None ELSE issue[i].into
             /\ i \notin {s, t} => issue'[i].seen = issue[i].seen
  <2> HIDE DEF seenOfS, seenOfT
  <2>1. issue[i] \in IssueRow
    BY DEF IInv, TypeOK
  <2>2. CASE i = s
    BY <1>3, <1>5, <2>2 DEF Exists
  <2>3. CASE i # s /\ i = t
    BY <1>5, <2>1, <2>3 DEF Exists, IssueRow
  <2>4. CASE i # s /\ i # t
    BY <1>5, <2>4 DEF Exists
  <2>5. QED  BY <2>2, <2>3, <2>4
<1>7. /\ issue[s] \in IssueRow /\ issue[t] \in IssueRow /\ req[r].took \in SUBSET Delivery
      /\ moved \in SUBSET Delivery /\ EventsOf(s) \union moved \in SUBSET Delivery
      /\ EventsOf(t) \ moved \in SUBSET Delivery
  BY <1>2 DEF IInv, TypeOK, RequestState, EventsOf
<1>8. /\ issue[s].seen \in Nat /\ issue[t].seen \in Nat
      /\ Cardinality(EventsOf(s) \union moved) \in Nat /\ Cardinality(EventsOf(t) \ moved) \in Nat
      /\ Cardinality(req[r].took) \in Nat /\ Cardinality(moved) \in Nat
  BY <1>7, SetsOfDeliveriesAreFinite DEF IssueRow
<1>9. issue'[s].seen = seenOfS /\ (t # s => issue'[t].seen = seenOfT)
  <2> HIDE DEF seenOfS, seenOfT
  <2>1. QED  BY <1>2, <1>5, <1>7 DEF IssueRow
<1>10. /\ seenOfS >= Cardinality(EventsOf(s) \union moved)
       /\ seenOfT >= Cardinality(EventsOf(t) \ moved)
  <2>1. PICK n, floorOfS, floorOfT, taken, gone \in Nat :
          /\ issue[s].seen = n /\ Cardinality(EventsOf(s) \union moved) = floorOfS
          /\ Cardinality(EventsOf(t) \ moved) = floorOfT
          /\ Cardinality(req[r].took) = taken /\ Cardinality(moved) = gone
    BY <1>8
  <2>2. PICK m \in Nat : issue[t].seen = m
    BY <1>8
  <2>3. n \in Int /\ m + taken - gone \in Int
    OBVIOUS
  <2>4. AtLeast(n, floorOfS) >= floorOfS /\ AtLeast(m + taken - gone, floorOfT) >= floorOfT
    BY <2>3, AtLeastFloor
  <2>5. seenOfS = AtLeast(n, floorOfS) /\ seenOfT = AtLeast(m + taken - gone, floorOfT)
    BY <2>1, <2>2
  <2>6. QED
    <3> HIDE DEF seenOfS, seenOfT
    <3>1. QED  BY <2>1, <2>4, <2>5
<1>11. QED  BY <1>1, <1>2, <1>3, <1>4, <1>6, <1>9, <1>10

LEMMA UnmergeKeepsExist ==
  ASSUME IInv, ExistInv, NEW r \in Request, UnmergeCommit(r)
  PROVE  ExistInv'
<1> DEFINE s == req[r].source
           t == req[r].target
<1>1. \A i \in Issue : (Exists(i)' <=> Exists(i)) /\ issue'[i].into \in {issue[i].into, None}
  BY UnmergeShape
<1>2. s \in Issue /\ Exists(s)
  BY UnmergeShape
<1>3. \A d \in Delivery : event'[d].issue \in {event[d].issue, s}
  BY UnmergeShape
<1>4. Steady
  BY <1>1, <1>2, <1>3 DEF Steady
<1>5. QED  BY <1>4, AnswerKeepsExist DEF UnmergeCommit

\* A change of status.
Marks(r) ==
  \E status \in UserStatus :
    StatusWrite(r, status) \/ \E chosen \in SUBSET Issue : BulkStatus(r, chosen, status)

LEMMA MarkShape ==
  ASSUME IInv, ExistInv, NEW r \in Request, Marks(r)
  PROVE  /\ UNCHANGED <<event, pending, del, flush>> /\ Answer(r) /\ KindOf[r] = "status"
         /\ req[r].phase # "done"
         /\ \A i \in Issue :
              /\ Exists(i)' <=> Exists(i)
              /\ issue'[i].into = issue[i].into /\ issue'[i].seen = issue[i].seen
<1>1. PICK status \in UserStatus :
        StatusWrite(r, status) \/ \E chosen \in SUBSET Issue : BulkStatus(r, chosen, status)
  BY DEF Marks
<1>2. /\ UNCHANGED <<event, pending, del, flush>> /\ Answer(r) /\ KindOf[r] = "status"
      /\ req[r].phase # "done"
  BY <1>1 DEF StatusWrite, BulkStatus
<1>3. status # "absent"
  BY DEF UserStatus
<1>4. ASSUME NEW i \in Issue
      PROVE  /\ Exists(i)' <=> Exists(i)
             /\ issue'[i].into = issue[i].into /\ issue'[i].seen = issue[i].seen
  <2>1. issue[i] \in IssueRow
    BY DEF IInv, TypeOK
  <2>2. issue'[i] = issue[i] \/ (Exists(i) /\ issue'[i] = [issue[i] EXCEPT !.status = status])
    <3>1. CASE StatusWrite(r, status)
      <4>1. issue' = [issue EXCEPT ![req[r].source] = [issue[req[r].source] EXCEPT !.status = status]]
        BY <3>1 DEF StatusWrite
      <4>2. Exists(req[r].source)
        BY <3>1 DEF StatusWrite, ExistInv, RequestExists
      <4>3. QED  BY <4>1, <4>2 DEF IInv, TypeOK
    <3>2. ASSUME NEW chosen \in SUBSET Issue, BulkStatus(r, chosen, status)
          PROVE  issue'[i] = issue[i] \/ (Exists(i) /\ issue'[i] = [issue[i] EXCEPT !.status = status])
      BY <3>2 DEF BulkStatus
    <3>3. QED  BY <1>1, <3>1, <3>2
  <2>3. QED  BY <1>3, <2>1, <2>2 DEF Exists, IssueRow
<1>5. QED  BY <1>2, <1>4

LEMMA MarkKeepsExist ==
  ASSUME IInv, ExistInv, NEW r \in Request, Marks(r)
  PROVE  ExistInv'
<1>1. Steady
  BY MarkShape DEF Steady
<1>2. QED  BY <1>1, MarkShape, AnswerKeepsExist

\* The steps of flushes change no issue's row but its count.
LEMMA FlushCommitShape ==
  ASSUME IInv, NEW f \in Flusher, FlushCommit(f)
  PROVE  LET i == flush[f].at IN
         /\ i \in Issue /\ flush[f].took \in SUBSET Delivery
         /\ issue'[i] = [issue[i] EXCEPT !.seen = @ + Cardinality(flush[f].took)]
         /\ \A j \in Issue \ {i} : issue'[j] = issue[j]
         /\ \A d \in Delivery : pending'[d] = IF d \in flush[f].took THEN None ELSE pending[d]
         /\ \A g \in Flusher \ {f} : flush'[g] = flush[g]
         /\ flush'[f].at = None
         /\ UNCHANGED <<event, del, req>>
<1> DEFINE i == flush[f].at
<1>1. flush \in [Flusher -> FlushState] /\ flush[f] \in FlushState
  BY DEF IInv, TypeOK
<1>2. i \in Issue /\ flush[f].took \in SUBSET Delivery
  BY <1>1 DEF FlushCommit, FlushState
<1>3. issue' = [issue EXCEPT ![i] = [issue[i] EXCEPT !.seen = @ + Cardinality(flush[f].took)]]
  BY DEF FlushCommit
<1>4. /\ issue'[i] = [issue[i] EXCEPT !.seen = @ + Cardinality(flush[f].took)]
      /\ \A j \in Issue \ {i} : issue'[j] = issue[j]
  BY <1>2, <1>3 DEF IInv, TypeOK
<1>5. (\A g \in Flusher \ {f} : flush'[g] = flush[g]) /\ flush'[f].at = None
  <2>1. CASE flush[f].took = {} \/ LastRound(f)
    BY <1>1, <2>1 DEF FlushCommit, Skip, NotFlushing
  <2>2. CASE ~(flush[f].took = {} \/ LastRound(f))
    BY <1>1, <2>2 DEF FlushCommit, FlushState
  <2>3. QED  BY <2>1, <2>2
<1>6. \A d \in Delivery : pending'[d] = IF d \in flush[f].took THEN None ELSE pending[d]
  BY DEF FlushCommit
<1>7. UNCHANGED <<event, del, req>>
  BY DEF FlushCommit
<1>8. QED  BY <1>2, <1>4, <1>5, <1>6, <1>7

LEMMA FlushCommitKeepsExist ==
  ASSUME IInv, ExistInv, NEW f \in Flusher, FlushCommit(f)
  PROVE  ExistInv'
<1>1. ASSUME NEW i \in Issue
      PROVE  issue'[i].status = issue[i].status /\ issue'[i].into = issue[i].into
  <2>1. issue[i] \in IssueRow
    BY DEF IInv, TypeOK
  <2>2. CASE i # flush[f].at
    BY <2>2, FlushCommitShape
  <2>3. CASE i = flush[f].at
    <3>1. issue'[i] = [issue[i] EXCEPT !.seen = @ + Cardinality(flush[f].took)]
      BY <2>3, FlushCommitShape
    <3>2. QED  BY <2>1, <3>1 DEF IssueRow
  <2>4. QED  BY <2>2, <2>3
<1>2. Steady
  BY <1>1, FlushCommitShape DEF Steady, Exists
<1>3. QED  BY <1>2, FlushCommitShape, ExistKept

-----------------------------------------------------------------------------
(* Row locks exclude each other.                                           *)

LEMMA FreeToUpdate ==
  ASSUME NEW i, CanUpdate(i)
  PROVE  /\ ~Held(i)
         /\ \A f \in Flusher : flush[f].at # i
         /\ \A d \in Delivery : Counts(d) => del[d].to # i
  BY IssueStoreAssumption DEF CanUpdate, NoKeyUpdate, ForUpdate, Held, Holder, Counts

\* A step that takes no lock.
FlushesRelease == \A f \in Flusher : flush'[f].at \in {None, flush[f].at}
RequestsRelease == \A q \in Request : req'[q].held \subseteq req[q].held
DeliveriesRelease == \A d \in Delivery : Counts(d)' => Counts(d) /\ del'[d].to = del[d].to

LEMMA HeldReleased ==
  ASSUME RequestsRelease, NEW i, ~Held(i)
  PROVE  ~Held(i)'
  BY DEF RequestsRelease, Held, Holder

LEMMA ReleaseKeepsExclusion ==
  ASSUME ExclusionInv, FlushesRelease, RequestsRelease, DeliveriesRelease
  PROVE  FlushesAlone' /\ CountsAlone' /\ HoldsAlone'
<1>1. FlushesAlone'
  <2>1. ASSUME NEW f \in Flusher, flush'[f].at # None
        PROVE  /\ ~Held(flush[f].at) /\ flush'[f].at = flush[f].at
               /\ \A g \in Flusher : flush'[g].at = flush'[f].at => g = f
    BY <2>1 DEF FlushesRelease, ExclusionInv, FlushesAlone
  <2>2. QED  BY <2>1, HeldReleased DEF FlushesAlone, Held, Holder, RequestsRelease
<1>2. CountsAlone'
  BY HeldReleased DEF DeliveriesRelease, ExclusionInv, CountsAlone, Held, Holder, RequestsRelease
<1>3. HoldsAlone'
  BY DEF RequestsRelease, ExclusionInv, HoldsAlone, Holder
<1>4. QED  BY <1>1, <1>2, <1>3

LEMMA AnswerReleases ==
  ASSUME TypeOK, ExclusionInv, NEW r \in Request, Answer(r)
  PROVE  RequestsRelease /\ \A q \in Request : UnmergeHolds(q)'
<1>1. RequestsRelease
  <2>1. ASSUME NEW q \in Request
        PROVE  req'[q].held \subseteq req[q].held
    BY AnswerShape
  <2>2. QED  BY <2>1 DEF RequestsRelease
<1>2. \A q \in Request : UnmergeHolds(q)'
  BY AnswerShape DEF ExclusionInv, UnmergeHolds
<1>3. QED  BY <1>1, <1>2

LEMMA AttemptKeepsExclusion ==
  ASSUME IInv, ExclusionInv, NEW d \in Delivery, Attempts(d)
  PROVE  ExclusionInv'
<1>1. UNCHANGED <<issue, event, pending, flush, req>>
  BY AttemptsStoreNothing
<1>2. (\A e \in Delivery \ {d} : del'[e] = del[e]) /\ Outcome(d)
  BY AttemptShape DEF IInv
<1>3. Counts(d)' => ~Held(del'[d].to)
  BY <1>2, FreeToUpdate DEF Counts, Outcome, Reading, Creating, Counting
<1>4. CountsAlone'
  BY <1>1, <1>2, <1>3 DEF ExclusionInv, CountsAlone, Counts, Held
<1>5. FlushesAlone' /\ HoldsAlone' /\ \A r \in Request : UnmergeHolds(r)'
  BY <1>1 DEF ExclusionInv, FlushesAlone, HoldsAlone, Held, UnmergeHolds
<1>6. QED  BY <1>4, <1>5 DEF ExclusionInv

LEMMA CommitFlushes ==
  ASSUME TypeOK, NEW d \in Delivery, Commit(d)
  PROVE  \A f \in Flusher : flush'[f].at = flush[f].at /\ flush'[f].took = flush[f].took
<1>1. flush \in [Flusher -> FlushState] /\ d \in Flusher
  BY DEF TypeOK, Flusher
<1>2. flush' = [flush EXCEPT ![d] = [flush[d] EXCEPT !.todo = {del[d].to}]]
  BY DEF Commit
<1>3. QED  BY <1>1, <1>2 DEF FlushState

LEMMA CommitKeepsExclusion ==
  ASSUME IInv, ExistInv, ExclusionInv, NEW d \in Delivery, Commit(d)
  PROVE  ExclusionInv'
<1>1. UNCHANGED req
  BY DEF Commit
<1>2. FlushesRelease
  BY CommitFlushes DEF IInv, FlushesRelease
<1>3. DeliveriesRelease
  BY CommitShape DEF DeliveriesRelease, Counts, Ended
<1>4. RequestsRelease /\ \A r \in Request : UnmergeHolds(r)'
  BY <1>1 DEF RequestsRelease, ExclusionInv, UnmergeHolds
<1>5. QED  BY <1>2, <1>3, <1>4, ReleaseKeepsExclusion DEF ExclusionInv

LEMMA TakeShape ==
  ASSUME TypeOK, NEW f \in Flusher, NEW i \in Issue, FlushTake(f, i)
  PROVE  /\ UNCHANGED <<issue, event, pending, del, req>>
         /\ \A g \in Flusher \ {f} : flush'[g] = flush[g]
         /\ \/ flush'[f].at = None
            \/ CanUpdate(i) /\ flush'[f].at = i /\ flush'[f].took = PendingOf(i)
<1>1. flush \in [Flusher -> FlushState] /\ flush[f] \in FlushState
  BY DEF TypeOK
<1>2. CASE CanUpdate(i)
  <2>1. flush' = [flush EXCEPT ![f] = [flush[f] EXCEPT !.at = i, !.took = PendingOf(i)]]
    BY <1>2 DEF FlushTake
  <2>2. QED  BY <1>1, <1>2, <2>1 DEF FlushTake, FlushState, store
<1>3. CASE ~CanUpdate(i)
  BY <1>1, <1>3 DEF FlushTake, Skip, NotFlushing, store
<1>4. QED  BY <1>2, <1>3

LEMMA TakeKeepsExclusion ==
  ASSUME IInv, ExclusionInv, NEW f \in Flusher, NEW i \in Issue, FlushTake(f, i)
  PROVE  ExclusionInv'
<1>1. /\ UNCHANGED <<issue, event, pending, del, req>>
      /\ \A g \in Flusher \ {f} : flush'[g] = flush[g]
      /\ \/ flush'[f].at = None
         \/ CanUpdate(i) /\ flush'[f].at = i /\ flush'[f].took = PendingOf(i)
  BY TakeShape DEF IInv
<1>2. FlushesAlone'
  <2>1. CASE flush'[f].at = None
    BY <1>1, <2>1 DEF ExclusionInv, FlushesAlone, Held
  <2>2. CASE CanUpdate(i) /\ flush'[f].at = i
    BY <1>1, <2>2, FreeToUpdate DEF ExclusionInv, FlushesAlone, Held
  <2>3. QED  BY <1>1, <2>1, <2>2
<1>3. CountsAlone' /\ HoldsAlone' /\ \A r \in Request : UnmergeHolds(r)'
  BY <1>1 DEF ExclusionInv, CountsAlone, Counts, HoldsAlone, Held, UnmergeHolds
<1>4. QED  BY <1>2, <1>3 DEF ExclusionInv

LEMMA FlushCommitKeepsExclusion ==
  ASSUME IInv, ExclusionInv, NEW f \in Flusher, FlushCommit(f)
  PROVE  ExclusionInv'
<1>1. FlushesRelease /\ UNCHANGED <<del, req>>
  BY FlushCommitShape DEF FlushesRelease
<1>2. RequestsRelease /\ DeliveriesRelease
  BY <1>1 DEF RequestsRelease, DeliveriesRelease, Counts
<1>3. \A r \in Request : UnmergeHolds(r)'
  BY <1>1 DEF ExclusionInv, UnmergeHolds
<1>4. QED  BY <1>1, <1>2, <1>3, ReleaseKeepsExclusion DEF ExclusionInv

LEMMA RestShape ==
  ASSUME TypeOK, SweepStart \/ \E f \in Flusher : FlushFails(f)
  PROVE  /\ UNCHANGED <<issue, event, pending, del, req>>
         /\ \A g \in Flusher : flush'[g].at = None \/ flush'[g] = flush[g]
<1>1. flush \in [Flusher -> FlushState]
  BY DEF TypeOK
<1>2. CASE SweepStart
  <2>1. flush' = [flush EXCEPT ![Sweeper] =
                    [flush[Sweeper] EXCEPT !.todo = {i \in Issue : PendingOf(i) # {}}]]
    BY <1>2 DEF SweepStart
  <2>2. flush[Sweeper].at = None /\ Sweeper \in Flusher
    BY <1>2 DEF SweepStart, NotFlushing, Flusher
  <2>3. QED  BY <1>1, <1>2, <2>1, <2>2 DEF SweepStart, store, FlushState
<1>3. ASSUME NEW f \in Flusher, FlushFails(f)
      PROVE  /\ UNCHANGED <<issue, event, pending, del, req>>
             /\ \A g \in Flusher : flush'[g].at = None \/ flush'[g] = flush[g]
  BY <1>1, <1>3 DEF FlushFails, store, NotFlushing
<1>4. QED  BY <1>2, <1>3

LEMMA RestKeepsExclusion ==
  ASSUME IInv, ExclusionInv, SweepStart \/ \E f \in Flusher : FlushFails(f)
  PROVE  ExclusionInv'
<1>1. FlushesRelease /\ UNCHANGED <<del, req>>
  BY RestShape DEF IInv, FlushesRelease
<1>2. RequestsRelease /\ DeliveriesRelease
  BY <1>1 DEF RequestsRelease, DeliveriesRelease, Counts
<1>3. \A r \in Request : UnmergeHolds(r)'
  BY <1>1 DEF ExclusionInv, UnmergeHolds
<1>4. QED  BY <1>1, <1>2, <1>3, ReleaseKeepsExclusion DEF ExclusionInv

LEMMA PrepareKeepsExclusion ==
  ASSUME IInv, ExistInv, ExclusionInv, NEW r \in Request, Prepares(r)
  PROVE  ExclusionInv'
<1>1. UNCHANGED <<issue, event, pending, del, flush>>
  BY PreparesStoreNothing
<1>2. (\A q \in Request \ {r} : req'[q] = req[q]) /\ Turn(r)
  BY PrepareShape DEF IInv, ExistInv
<1>3. \A i \in req'[r].held : i \in req[r].held \/ CanUpdate(i)
  BY <1>2 DEF Turn, Begins, GoesOn, LocksMore, HasRead, Flushing, HasFlushed, HasRestored
<1>4. \A i : Held(i)' => Held(i) \/ CanUpdate(i)
  BY <1>2, <1>3 DEF Held, Holder
<1>5. FlushesAlone'
  BY <1>1, <1>4, FreeToUpdate DEF ExclusionInv, FlushesAlone
<1>6. CountsAlone'
  BY <1>1, <1>4, FreeToUpdate DEF ExclusionInv, CountsAlone, Counts
<1>7. HoldsAlone'
  BY <1>2, <1>3, FreeToUpdate DEF ExclusionInv, HoldsAlone, Held, Holder
<1>8. UnmergeHolds(r)'
  <2>1. UnmergeHolds(r)
    BY DEF ExclusionInv
  <2>2. CASE Begins(r) \/ req'[r].phase = "done"
    BY <2>2 DEF Begins, UnmergeHolds
  <2>3. CASE GoesOn(r)
    BY <2>1, <2>3
       DEF GoesOn, LocksMore, HasRead, Flushing, HasFlushed, HasRestored, UnmergeHolds
  <2>4. QED  BY <1>2, <2>2, <2>3 DEF Turn
<1>9. \A q \in Request : UnmergeHolds(q)'
  BY <1>2, <1>8 DEF ExclusionInv, UnmergeHolds
<1>10. QED  BY <1>5, <1>6, <1>7, <1>9 DEF ExclusionInv

LEMMA AnswerKeepsExclusion ==
  ASSUME IInv, ExclusionInv, UNCHANGED <<del, flush>>, NEW r \in Request, Answer(r)
  PROVE  ExclusionInv'
<1>1. FlushesRelease /\ DeliveriesRelease
  BY DEF FlushesRelease, DeliveriesRelease, Counts
<1>2. QED  BY <1>1, AnswerReleases, ReleaseKeepsExclusion DEF ExclusionInv, IInv

-----------------------------------------------------------------------------
(* What was taken is still pending, and what was read is still so.         *)

LEMMA AttemptKeepsStillSo ==
  ASSUME StillSoInv, NEW d \in Delivery, Attempts(d)
  PROVE  StillSoInv'
  BY AttemptsStoreNothing DEF StillSoInv, FlushTook, PendingOf, RequestTook, RequestSaw

\* A delivery that commits holds no lock of a request, and had no row yet.
LEMMA CommitKeepsStillSo ==
  ASSUME IInv, ExistInv, ExclusionInv, StillSoInv, NEW d \in Delivery, Commit(d)
  PROVE  StillSoInv'
<1>1. UNCHANGED req
  BY DEF Commit
<1>2. \A i \in Issue : PendingOf(i) \subseteq PendingOf(i)'
  BY CommitShape, NoneIsNoIssue DEF PendingOf
<1>3. FlushTook'
  <2>1. ASSUME NEW f \in Flusher, flush'[f].at # None
        PROVE  \A e \in flush'[f].took : e \in Delivery /\ pending'[e] = flush'[f].at
    <3>1. flush'[f].at = flush[f].at /\ flush'[f].took = flush[f].took
      BY CommitFlushes DEF IInv
    <3>2. flush[f].at \in Issue
      BY <2>1, <3>1 DEF IInv, TypeOK, FlushState
    <3>3. flush[f].took \subseteq PendingOf(flush[f].at)
      BY <2>1, <3>1 DEF StillSoInv, FlushTook
    <3>4. QED  BY <1>2, <3>1, <3>2, <3>3 DEF PendingOf
  <2>2. QED  BY <2>1 DEF FlushTook, PendingOf
<1>4. ASSUME NEW q \in Request
      PROVE  RequestTook(q)'
  <2>1. (KindOf[q] = "unmerge" /\ req[q].phase \in {"flushed", "ready"}) => req[q].target \in Issue
    BY DEF IInv, MergeInv, RequestsNamed, RequestNamed
  <2>2. RequestTook(q)
    BY DEF StillSoInv
  <2>3. QED  BY <1>1, <1>2, <2>1, <2>2 DEF RequestTook, PendingOf
<1>5. ASSUME NEW q \in Request
      PROVE  RequestSaw(q)'
  <2>1. SUFFICES ASSUME KindOf[q] = "merge", req[q].phase = "ready"
                 PROVE  /\ issue'[req[q].source].seen = req[q].sawSource.seen
                        /\ issue'[req[q].target].seen = req[q].sawTarget.seen
    BY <1>1 DEF RequestSaw
  <2>2. ASSUME NEW i \in Issue, Exists(i), i \in req[q].held
        PROVE  issue'[i].seen = issue[i].seen
    <3>1. CASE i # del[d].to
      BY <3>1, CommitShape
    <3>2. CASE i = del[d].to
      <4>1. Held(i) /\ ~Creates(d)
        BY <2>1, <2>2, <3>2, CommitShape DEF Held, Holder
      <4>2. ~Counts(d)
        BY <3>2, <4>1 DEF ExclusionInv, CountsAlone
      <4>3. del[d].way = "pending"
        BY <4>1, <4>2, CommitShape DEF Counts, Commit
      <4>4. QED  BY <3>2, <4>1, <4>3, CommitShape
    <3>3. QED  BY <3>1, <3>2
  <2>3. /\ req[q].source \in Issue /\ req[q].target \in Issue
        /\ Exists(req[q].source) /\ Exists(req[q].target)
        /\ req[q].source \in req[q].held /\ req[q].target \in req[q].held
    BY <2>1 DEF IInv, MergeInv, RequestsNamed, RequestNamed, RequestsLock, RequestLocks, Unheld,
       ExistInv, RequestExists
  <2>4. RequestSaw(q)
    BY DEF StillSoInv
  <2>5. QED  BY <2>1, <2>2, <2>3, <2>4 DEF RequestSaw
<1>6. QED  BY <1>3, <1>4, <1>5 DEF StillSoInv

LEMMA TakeKeepsStillSo ==
  ASSUME IInv, StillSoInv, NEW f \in Flusher, NEW i \in Issue, FlushTake(f, i)
  PROVE  StillSoInv'
<1>1. /\ UNCHANGED <<issue, event, pending, del, req>>
      /\ \A g \in Flusher \ {f} : flush'[g] = flush[g]
      /\ \/ flush'[f].at = None
         \/ CanUpdate(i) /\ flush'[f].at = i /\ flush'[f].took = PendingOf(i)
  BY TakeShape DEF IInv
<1>2. QED  BY <1>1 DEF StillSoInv, FlushTook, PendingOf, RequestTook, RequestSaw

LEMMA RestKeepsStillSo ==
  ASSUME IInv, StillSoInv, SweepStart \/ \E f \in Flusher : FlushFails(f)
  PROVE  StillSoInv'
<1>1. /\ UNCHANGED <<issue, event, pending, del, req>>
      /\ \A g \in Flusher : flush'[g].at = None \/ flush'[g] = flush[g]
  BY RestShape DEF IInv
<1>2. QED  BY <1>1 DEF StillSoInv, FlushTook, PendingOf, RequestTook, RequestSaw

\* Requests with locks on their issues, none of which is i.
LEMMA OthersHold ==
  ASSUME IInv, ExclusionInv, NEW q \in Request
  PROVE  /\ (KindOf[q] = "unmerge" /\ req[q].phase \in {"flushed", "ready"}) =>
              /\ q \in Holder /\ req[q].target \in Issue /\ req[q].target \in req[q].held
              /\ req[q].phase = "ready" => req[q].source \in req[q].held
         /\ (KindOf[q] = "merge" /\ req[q].phase = "ready") =>
              /\ q \in Holder /\ req[q].source \in Issue /\ req[q].target \in Issue
              /\ req[q].source \in req[q].held /\ req[q].target \in req[q].held
<1>1. UnmergeHolds(q) /\ RequestNamed(q) /\ RequestLocks(q)
  BY DEF ExclusionInv, IInv, MergeInv, RequestsNamed, RequestsLock
<1>2. QED  BY <1>1 DEF UnmergeHolds, RequestNamed, RequestLocks, Unheld, Holder

LEMMA FlushCommitKeepsStillSo ==
  ASSUME IInv, ExclusionInv, StillSoInv, NEW f \in Flusher, FlushCommit(f)
  PROVE  StillSoInv'
<1> DEFINE i == flush[f].at
<1>1. i # None /\ flush[f].took \subseteq PendingOf(i)
  BY DEF FlushCommit, StillSoInv, FlushTook
<1>2. \A j : j # i => PendingOf(j) \subseteq PendingOf(j)'
  BY <1>1, FlushCommitShape DEF PendingOf
<1>3. ~Held(i)
  BY <1>1 DEF ExclusionInv, FlushesAlone
<1>4. UNCHANGED req
  BY FlushCommitShape
<1>5. FlushTook'
  <2>1. ASSUME NEW g \in Flusher, flush'[g].at # None
        PROVE  flush'[g] = flush[g] /\ flush[g].at # i
    BY <1>1, <2>1, FlushCommitShape DEF ExclusionInv, FlushesAlone
  <2>2. QED  BY <1>2, <2>1 DEF StillSoInv, FlushTook, PendingOf
<1>6. ASSUME NEW q \in Request
      PROVE  RequestTook(q)' /\ RequestSaw(q)'
  <2>1. RequestTook(q) /\ RequestSaw(q)
    BY DEF StillSoInv
  <2>2. ASSUME q \in Holder
        PROVE  i \notin req[q].held
    BY <1>3, <2>2 DEF Held
  <2>3. RequestTook(q)'
    BY <1>2, <1>4, <2>1, <2>2, OthersHold DEF RequestTook, PendingOf
  <2>4. RequestSaw(q)'
    BY <1>4, <2>1, <2>2, OthersHold, FlushCommitShape DEF RequestSaw
  <2>5. QED  BY <2>3, <2>4
<1>7. QED  BY <1>5, <1>6 DEF StillSoInv

LEMMA PrepareKeepsStillSo ==
  ASSUME IInv, ExistInv, StillSoInv, NEW r \in Request, Prepares(r)
  PROVE  StillSoInv'
<1>1. UNCHANGED <<issue, event, pending, del, flush>>
  BY PreparesStoreNothing
<1>2. (\A q \in Request \ {r} : req'[q] = req[q]) /\ Turn(r)
  BY PrepareShape DEF IInv, ExistInv
<1>3. RequestTook(r)' /\ RequestSaw(r)'
  <2>1. RequestTook(r) /\ RequestSaw(r)
    BY DEF StillSoInv
  <2>2. CASE Begins(r) \/ req'[r].phase = "done"
    BY <2>2 DEF Begins, RequestTook, RequestSaw
  <2>3. CASE GoesOn(r)
    BY <1>1, <2>1, <2>3 DEF GoesOn, LocksMore, HasRead, Flushing, HasFlushed, HasRestored,
       RequestTook, RequestSaw, PendingOf
  <2>4. QED  BY <1>2, <2>2, <2>3 DEF Turn
<1>4. QED  BY <1>1, <1>2, <1>3 DEF StillSoInv, FlushTook, PendingOf, RequestTook, RequestSaw

\* A request that answers, having changed only what it held.
LEMMA AnswerKeepsStillSo ==
  ASSUME IInv, ExclusionInv, StillSoInv, UNCHANGED flush, NEW r \in Request, Answer(r),
         \A i \in Issue :
           \/ r \in Holder /\ i \in req[r].held
           \/ issue'[i].seen = issue[i].seen /\ PendingOf(i) \subseteq PendingOf(i)'
  PROVE  StillSoInv'
<1>1. \A q \in Request \ {r} : req'[q] = req[q]
  BY AnswerShape DEF IInv
<1>2. ASSUME NEW f \in Flusher, flush[f].at # None
      PROVE  \A d \in flush[f].took : pending'[d] = flush[f].at
  <2>1. flush[f].at \in Issue /\ ~Held(flush[f].at)
    BY <1>2 DEF IInv, TypeOK, FlushState, ExclusionInv, FlushesAlone
  <2>2. PendingOf(flush[f].at) \subseteq {d \in Delivery : pending'[d] = flush[f].at}
    BY <2>1 DEF Held, PendingOf
  <2>3. QED  BY <1>2, <2>2 DEF StillSoInv, FlushTook
<1>3. ASSUME NEW q \in Request
      PROVE  RequestTook(q)' /\ RequestSaw(q)'
  <2>1. CASE q = r
    BY <2>1, AnswerShape DEF IInv, RequestTook, RequestSaw
  <2>2. CASE q # r
    <3>1. RequestTook(q) /\ RequestSaw(q)
      BY DEF StillSoInv
    <3>2. \A i \in Issue : q \in Holder /\ i \in req[q].held =>
            issue'[i].seen = issue[i].seen /\ PendingOf(i) \subseteq PendingOf(i)'
      BY <2>2 DEF ExclusionInv, HoldsAlone
    <3>3. RequestTook(q)'
      BY <1>1, <2>2, <3>1, <3>2, OthersHold DEF RequestTook, PendingOf
    <3>4. RequestSaw(q)'
      BY <1>1, <2>2, <3>1, <3>2, OthersHold DEF RequestSaw
    <3>5. QED  BY <3>3, <3>4
  <2>3. QED  BY <2>1, <2>2
<1>4. QED  BY <1>2, <1>3 DEF StillSoInv, FlushTook, PendingOf

LEMMA MergeKeepsStillSo ==
  ASSUME IInv, ExistInv, ExclusionInv, StillSoInv, NEW r \in Request, MergeCommit(r)
  PROVE  StillSoInv'
<1> DEFINE s == req[r].source
           t == req[r].target
<1>1. /\ r \in Holder /\ s \in Issue /\ t \in Issue /\ {s, t} \subseteq req[r].held
      /\ \A i \in Issue \ {s, t} : issue'[i].seen = issue[i].seen
  BY MergeShape DEF Holder
<1>2. \A i \in Issue \ {s, t} : PendingOf(i) \subseteq PendingOf(i)'
  BY MergeShape DEF PendingOf
<1>3. QED  BY <1>1, <1>2, AnswerKeepsStillSo DEF MergeCommit

LEMMA UnmergeKeepsStillSo ==
  ASSUME IInv, ExistInv, ExclusionInv, StillSoInv, NEW r \in Request, UnmergeCommit(r)
  PROVE  StillSoInv'
<1> DEFINE s == req[r].source
           t == req[r].target
<1>1. /\ KindOf[r] = "unmerge" /\ req[r].phase = "ready" /\ s \in Issue /\ t \in Issue
      /\ \A i \in Issue \ {s, t} : issue'[i].seen = issue[i].seen
      /\ \A d \in Delivery :
           pending'[d] = pending[d] \/ d \in req[r].took \/ (pending[d] = t /\ pending'[d] = s)
  BY UnmergeShape
<1>2. r \in Holder /\ {s, t} \subseteq req[r].held /\ req[r].took \subseteq PendingOf(t)
  BY <1>1, OthersHold DEF StillSoInv, RequestTook
<1>3. \A i \in Issue \ {s, t} : PendingOf(i) \subseteq PendingOf(i)'
  BY <1>1, <1>2 DEF PendingOf
<1>4. QED  BY <1>1, <1>2, <1>3, AnswerKeepsStillSo DEF UnmergeCommit

LEMMA MarkKeepsStillSo ==
  ASSUME IInv, ExistInv, ExclusionInv, StillSoInv, NEW r \in Request, Marks(r)
  PROVE  StillSoInv'
<1>1. UNCHANGED <<event, pending, del, flush>> /\ Answer(r) /\ KindOf[r] = "status"
  BY MarkShape
<1>2. \A i \in Issue : issue'[i].seen = issue[i].seen
  BY MarkShape
<1>3. \A i \in Issue : PendingOf(i) \subseteq PendingOf(i)'
  BY <1>1 DEF PendingOf
<1>4. QED  BY <1>1, <1>2, <1>3, AnswerKeepsStillSo

-----------------------------------------------------------------------------
(* The counts.                                                             *)

\* No unmerge has been answered.
NoneUnmerged == \A r \in Request : KindOf[r] = "unmerge" => req[r].phase # "done"

Tally(i) == issue[i].seen + Cardinality(PendingOf(i))
CountInv == NeverUndercounted /\ CountsExact

LEMMA CountTypes ==
  ASSUME TypeOK, NEW i \in Issue
  PROVE  /\ issue[i].seen \in Nat
         /\ IsFiniteSet(EventsOf(i)) /\ Cardinality(EventsOf(i)) \in Nat
         /\ IsFiniteSet(PendingOf(i)) /\ Cardinality(PendingOf(i)) \in Nat
         /\ Tally(i) \in Nat
<1>1. EventsOf(i) \in SUBSET Delivery /\ PendingOf(i) \in SUBSET Delivery
  BY DEF EventsOf, PendingOf
<1>2. issue[i].seen \in Nat
  BY DEF TypeOK, IssueRow
<1>3. QED  BY <1>1, <1>2, SetsOfDeliveriesAreFinite DEF Tally

LEMMA CountTypesAfter ==
  ASSUME TypeOK', NEW i \in Issue
  PROVE  /\ issue'[i].seen \in Nat
         /\ IsFiniteSet(EventsOf(i)') /\ Cardinality(EventsOf(i)') \in Nat
         /\ IsFiniteSet(PendingOf(i)') /\ Cardinality(PendingOf(i)') \in Nat
         /\ Tally(i)' \in Nat
<1>1. EventsOf(i)' \in SUBSET Delivery /\ PendingOf(i)' \in SUBSET Delivery
  BY DEF EventsOf, PendingOf
<1>2. issue'[i].seen \in Nat
  BY DEF TypeOK, IssueRow
<1>3. QED  BY <1>1, <1>2, SetsOfDeliveriesAreFinite DEF Tally

\* A step that counts as many events of an issue as it adds to it.
LEMMA EvenKeepsCounts ==
  ASSUME CountInv, NoneUnmerged' => NoneUnmerged,
         \A i \in Issue :
           \/ Tally(i)' = Cardinality(EventsOf(i)')
           \/ /\ Tally(i) >= Cardinality(EventsOf(i)) => Tally(i)' >= Cardinality(EventsOf(i)')
              /\ issue'[i].into = None =>
                   /\ issue[i].into = None
                   /\ Tally(i) = Cardinality(EventsOf(i)) => Tally(i)' = Cardinality(EventsOf(i)'),
         TypeOK'
  PROVE  CountInv'
<1>1. ASSUME NEW i \in Issue
      PROVE  Tally(i)' >= Cardinality(EventsOf(i)')
  <2>1. Tally(i) >= Cardinality(EventsOf(i))
    BY DEF CountInv, NeverUndercounted, Tally
  <2>2. Tally(i)' \in Nat
    BY CountTypesAfter
  <2>3. QED  BY <2>1, <2>2
<1>2. ASSUME NoneUnmerged', NEW i \in Issue, issue'[i].into = None
      PROVE  Tally(i)' = Cardinality(EventsOf(i)')
  BY <1>2 DEF CountInv, CountsExact, NoneUnmerged, Tally
<1>3. QED  BY <1>1, <1>2 DEF CountInv, NeverUndercounted, CountsExact, NoneUnmerged, Tally

\* A step that changes no count, no event and no pending row.
LEMMA SameKeepsCounts ==
  ASSUME CountInv, NoneUnmerged' => NoneUnmerged, UNCHANGED <<event, pending>>,
         \A i \in Issue : issue'[i].into = issue[i].into /\ issue'[i].seen = issue[i].seen
  PROVE  CountInv'
  BY DEF CountInv, NeverUndercounted, CountsExact, NoneUnmerged, PendingOf, EventsOf

LEMMA OthersUnmerged ==
  ASSUME NEW r \in Request, req[r].phase # "done", \A q \in Request \ {r} : req'[q] = req[q]
  PROVE  NoneUnmerged' => NoneUnmerged
  BY DEF NoneUnmerged

LEMMA CommitKeepsCounts ==
  ASSUME IInv, ExistInv, CountInv, NEW d \in Delivery, Commit(d)
  PROVE  CountInv'
<1>1. PICK i \in Issue : i = del[d].to
  BY CommitShape
<1>2. TypeOK /\ TypeOK'
  BY CommitKeepsType DEF IInv, OnceInv
<1>3. NoneUnmerged' => NoneUnmerged
  BY DEF Commit, NoneUnmerged
<1>4. ASSUME NEW j \in Issue, j # i
      PROVE  EventsOf(j)' = EventsOf(j) /\ PendingOf(j)' = PendingOf(j) /\ issue'[j] = issue[j]
  BY <1>4, <1>1, CommitShape, NoneIsNoIssue DEF EventsOf, PendingOf
<1>5. i \in Issue /\ d \notin EventsOf(i) /\ d \notin PendingOf(i)
  BY <1>1, CommitShape, NoneIsNoIssue DEF EventsOf, PendingOf
<1>6. EventsOf(i)' = EventsOf(i) \union {d}
  BY <1>5, <1>1, CommitShape DEF EventsOf
<1>7. Cardinality(EventsOf(i)') = Cardinality(EventsOf(i)) + 1
  BY <1>2, <1>5, <1>6, CountTypes, FS_AddElement
<1>8. CASE Creates(d)
  <2>1. EventsOf(i) = {}
    BY <1>5, <1>8, <1>1, CommitShape DEF ExistInv, AbsentEmpty
  <2>2. PendingOf(i)' = {}
    <3>1. PendingOf(i) = {}
      BY <1>5, <2>1, NoneIsNoIssue DEF IInv, CountFollowsEvent, PendingOf, EventsOf
    <3>2. del[d].way # "pending"
      BY <1>8 DEF Creates
    <3>3. QED  BY <1>5, <3>1, <3>2, <1>1, CommitShape, NoneIsNoIssue DEF PendingOf
  <2>3. issue'[i].seen = 1
    BY <1>8, <1>1, CommitShape
  <2>4. Tally(i)' = Cardinality(EventsOf(i)')
    BY <1>7, <2>1, <2>2, <2>3, FS_EmptySet DEF Tally
  <2>5. QED  BY <1>2, <1>3, <1>4, <2>4, EvenKeepsCounts DEF Tally
<1>9. CASE ~Creates(d)
  <2>1. Tally(i)' = Tally(i) + 1
    <3>1. issue[i].seen \in Nat /\ Cardinality(PendingOf(i)) \in Nat /\ IsFiniteSet(PendingOf(i))
      BY <1>2, <1>5, CountTypes
    <3>2. CASE del[d].way = "pending"
      <4>1. PendingOf(i)' = PendingOf(i) \union {d} /\ issue'[i].seen = issue[i].seen
        BY <1>5, <1>9, <3>2, <1>1, CommitShape DEF PendingOf
      <4>2. Cardinality(PendingOf(i)') = Cardinality(PendingOf(i)) + 1
        BY <1>5, <3>1, <4>1, FS_AddElement
      <4>3. QED  BY <3>1, <4>1, <4>2 DEF Tally
    <3>3. CASE del[d].way # "pending"
      <4>1. PendingOf(i)' = PendingOf(i) /\ issue'[i].seen = issue[i].seen + 1
        BY <1>5, <1>9, <3>3, <1>1, CommitShape, NoneIsNoIssue DEF PendingOf
      <4>2. QED  BY <3>1, <4>1 DEF Tally
    <3>4. QED  BY <3>2, <3>3
  <2>2. issue'[i].into = issue[i].into
    BY <1>9, <1>1, CommitShape
  <2>3. Tally(i) \in Nat /\ Cardinality(EventsOf(i)) \in Nat
    BY <1>2, <1>5, CountTypes
  <2>4. QED  BY <1>2, <1>3, <1>4, <1>7, <2>1, <2>2, <2>3, EvenKeepsCounts DEF Tally
<1>10. QED  BY <1>8, <1>9

LEMMA FlushCommitKeepsCounts ==
  ASSUME IInv, StillSoInv, CountInv, NEW f \in Flusher, FlushCommit(f)
  PROVE  CountInv'
<1>1. PICK i \in Issue, took \in SUBSET Delivery : i = flush[f].at /\ took = flush[f].took
  BY FlushCommitShape
<1>2. TypeOK /\ TypeOK'
  BY FlushCommitKeepsType DEF IInv
<1>3. NoneUnmerged' => NoneUnmerged
  BY <1>1, FlushCommitShape DEF NoneUnmerged
<1>4. i \in Issue /\ i # None /\ took \subseteq PendingOf(i)
  BY <1>1, FlushCommitShape DEF FlushCommit, StillSoInv, FlushTook
<1>5. \A j \in Issue : EventsOf(j)' = EventsOf(j)
  BY <1>1, FlushCommitShape DEF EventsOf
<1>6. ASSUME NEW j \in Issue, j # i
      PROVE  PendingOf(j)' = PendingOf(j) /\ issue'[j] = issue[j]
  <2>1. \A d \in Delivery : pending'[d] = IF d \in took THEN None ELSE pending[d]
    BY <1>1, FlushCommitShape
  <2>2. j # None
    BY NoneIsNoIssue
  <2>3. \A d \in Delivery : pending'[d] = j <=> pending[d] = j
    BY <2>1, <2>2, <1>4, <1>6 DEF PendingOf
  <2>4. issue'[j] = issue[j]
    BY <1>1, <1>6, FlushCommitShape
  <2>5. QED  BY <2>3, <2>4 DEF PendingOf
<1>7. PendingOf(i)' = PendingOf(i) \ took
  BY <1>4, <1>1, FlushCommitShape, NoneIsNoIssue DEF PendingOf
<1>8. issue[i] \in IssueRow /\ Cardinality(took) \in Nat
  BY <1>2, <1>4, <1>1, FlushCommitShape, SetsOfDeliveriesAreFinite DEF TypeOK
<1>9. issue'[i].seen = issue[i].seen + Cardinality(took) /\ issue'[i].into = issue[i].into
  BY <1>8, <1>1, FlushCommitShape DEF IssueRow
<1>10. Cardinality(PendingOf(i)') = Cardinality(PendingOf(i)) - Cardinality(took)
  <2>1. PendingOf(i) \intersect took = took
    BY <1>4
  <2>2. QED  BY <1>2, <1>4, <1>7, <2>1, CountTypes, FS_Difference
<1>11. Tally(i)' = Tally(i)
  BY <1>2, <1>4, <1>8, <1>9, <1>10, CountTypes DEF Tally
<1>12. QED  BY <1>2, <1>3, <1>5, <1>6, <1>9, <1>11, EvenKeepsCounts DEF Tally

LEMMA MergeKeepsCounts ==
  ASSUME IInv, ExistInv, StillSoInv, CountInv, NEW r \in Request, MergeCommit(r)
  PROVE  CountInv'
<1>1. PICK s \in Issue, t \in Issue : s = req[r].source /\ t = req[r].target
  BY MergeShape
<1>2. TypeOK /\ TypeOK'
  BY MergeKeepsType DEF IInv, MergeInv
<1>3. NoneUnmerged' => NoneUnmerged
  BY AnswerShape, OthersUnmerged DEF MergeCommit, IInv
<1>4. s \in Issue /\ t \in Issue /\ s # t /\ issue[s].into = None /\ issue[t].into = None
  BY <1>1, MergeShape
<1>5. issue'[s].into = t /\ issue'[s].seen = issue[s].seen
  BY <1>4, <1>1, MergeShape
<1>6. issue'[t].seen = issue[t].seen + issue[s].seen
  <2>1. issue'[t].seen = req[r].sawTarget.seen + req[r].sawSource.seen
    BY <1>4, <1>1, MergeShape
  <2>2. RequestSaw(r) /\ KindOf[r] = "merge" /\ req[r].phase = "ready"
    BY DEF StillSoInv, MergeCommit
  <2>3. QED  BY <1>1, <2>1, <2>2 DEF RequestSaw
<1>7. /\ EventsOf(s)' = {} /\ PendingOf(s)' = {}
      /\ EventsOf(t)' = EventsOf(t) \union EventsOf(s)
      /\ PendingOf(t)' = PendingOf(t) \union PendingOf(s)
  BY <1>4, <1>1, MergeShape DEF EventsOf, PendingOf
<1>8. ASSUME NEW j \in Issue, j # s, j # t
      PROVE  /\ EventsOf(j)' = EventsOf(j) /\ PendingOf(j)' = PendingOf(j)
             /\ issue'[j].seen = issue[j].seen /\ (issue'[j].into = None => issue[j].into = None)
  BY <1>4, <1>8, <1>1, MergeShape, NoneIsNoIssue DEF EventsOf, PendingOf
<1>9. /\ Cardinality(EventsOf(t)') = Cardinality(EventsOf(t)) + Cardinality(EventsOf(s))
      /\ Cardinality(PendingOf(t)') = Cardinality(PendingOf(t)) + Cardinality(PendingOf(s))
  <2>1. EventsOf(t) \intersect EventsOf(s) = {} /\ PendingOf(t) \intersect PendingOf(s) = {}
    BY <1>4 DEF EventsOf, PendingOf
  <2>2. /\ IsFiniteSet(EventsOf(s)) /\ Cardinality(EventsOf(s)) \in Nat
        /\ IsFiniteSet(EventsOf(t)) /\ Cardinality(EventsOf(t)) \in Nat
        /\ IsFiniteSet(PendingOf(s)) /\ Cardinality(PendingOf(s)) \in Nat
        /\ IsFiniteSet(PendingOf(t)) /\ Cardinality(PendingOf(t)) \in Nat
    BY <1>2, <1>4, CountTypes
  <2>3. /\ Cardinality(EventsOf(t) \union EventsOf(s)) =
             Cardinality(EventsOf(t)) + Cardinality(EventsOf(s)) - Cardinality(EventsOf(t) \intersect EventsOf(s))
        /\ Cardinality(PendingOf(t) \union PendingOf(s)) =
             Cardinality(PendingOf(t)) + Cardinality(PendingOf(s)) - Cardinality(PendingOf(t) \intersect PendingOf(s))
    BY <2>2, FS_Union
  <2>4. /\ Cardinality(EventsOf(t) \intersect EventsOf(s)) = 0
        /\ Cardinality(PendingOf(t) \intersect PendingOf(s)) = 0
    BY <2>1, FS_EmptySet
  <2>5. /\ Cardinality(EventsOf(t)') = Cardinality(EventsOf(t) \union EventsOf(s))
        /\ Cardinality(PendingOf(t)') = Cardinality(PendingOf(t) \union PendingOf(s))
    BY <1>7
  <2>6. QED  BY <2>2, <2>3, <2>4, <2>5
<1>10. /\ Tally(s) \in Nat /\ Tally(t) \in Nat /\ Tally(t)' = Tally(t) + Tally(s)
       /\ Cardinality(EventsOf(s)) \in Nat /\ Cardinality(EventsOf(t)) \in Nat
  BY <1>2, <1>4, <1>6, <1>9, CountTypes DEF Tally
<1>11. /\ Tally(s) >= Cardinality(EventsOf(s)) /\ Tally(t) >= Cardinality(EventsOf(t))
       /\ NoneUnmerged => /\ Tally(s) = Cardinality(EventsOf(s))
                          /\ Tally(t) = Cardinality(EventsOf(t))
  BY <1>4 DEF CountInv, NeverUndercounted, CountsExact, NoneUnmerged, Tally
<1>12. Tally(s)' >= Cardinality(EventsOf(s)')
  BY <1>2, <1>4, <1>5, <1>7, CountTypes, CountTypesAfter, FS_EmptySet DEF Tally
<1>13. NeverUndercounted'
  <2>1. ASSUME NEW i \in Issue
        PROVE  Tally(i)' >= Cardinality(EventsOf(i)')
    <3>1. CASE i = s
      BY <1>12, <3>1
    <3>2. CASE i = t
      BY <1>9, <1>10, <1>11, <3>2
    <3>3. CASE i # s /\ i # t
      BY <1>8, <3>3 DEF CountInv, NeverUndercounted, Tally
    <3>4. QED  BY <3>1, <3>2, <3>3
  <2>2. QED  BY <2>1 DEF NeverUndercounted, Tally
<1>14. CountsExact'
  <2>1. ASSUME NoneUnmerged', NEW i \in Issue, issue'[i].into = None
        PROVE  Tally(i)' = Cardinality(EventsOf(i)')
    <3>1. i # s /\ NoneUnmerged
      BY <1>3, <1>4, <1>5, <2>1, NoneIsNoIssue
    <3>2. CASE i = t
      BY <1>9, <1>10, <1>11, <3>1, <3>2
    <3>3. CASE i # t
      BY <1>8, <2>1, <3>1, <3>3 DEF CountInv, CountsExact, NoneUnmerged, Tally
    <3>4. QED  BY <3>2, <3>3
  <2>2. QED  BY <2>1 DEF CountsExact, NoneUnmerged, Tally
<1>15. QED  BY <1>13, <1>14 DEF CountInv

\* An unmerge counts anew what the two issues hold.
LEMMA UnmergeKeepsCounts ==
  ASSUME IInv, ExistInv, StillSoInv, CountInv, NEW r \in Request, UnmergeCommit(r)
  PROVE  CountInv'
<1>1. PICK s \in Issue, t \in Issue, moved \in SUBSET Delivery :
        /\ s = req[r].source /\ t = req[r].target
        /\ moved = {d \in EventsOf(req[r].target) : event[d].from = req[r].source}
  <2>1. {d \in EventsOf(req[r].target) : event[d].from = req[r].source} \in SUBSET Delivery
    BY DEF EventsOf
  <2>2. QED  BY <2>1, UnmergeShape
<1>2. TypeOK /\ TypeOK'
  BY UnmergeKeepsType DEF IInv, MergeInv
<1>3. ~NoneUnmerged'
  <2>1. KindOf[r] = "unmerge" /\ req'[r].phase = "done"
    BY <1>2, AnswerShape DEF UnmergeCommit
  <2>2. QED  BY <2>1 DEF NoneUnmerged
<1>4. /\ KindOf[r] = "unmerge" /\ req[r].phase = "ready"
      /\ issue'[s].seen >= Cardinality(EventsOf(s) \union moved)
      /\ t # s => issue'[t].seen >= Cardinality(EventsOf(t) \ moved)
  <2>1. KindOf[r] = "unmerge" /\ req[r].phase = "ready"
    BY UnmergeShape
  <2>2. issue'[s].seen >= Cardinality(EventsOf(s) \union moved)
    BY <1>1, UnmergeShape
  <2>3. t # s => issue'[t].seen >= Cardinality(EventsOf(t) \ moved)
    BY <1>1, UnmergeShape
  <2>4. QED  BY <2>1, <2>2, <2>3
<1>5. \A i \in Issue \ {s, t} : issue'[i].seen = issue[i].seen
  BY <1>1, UnmergeShape
<1>6. \A d \in Delivery : d \in moved <=> event[d].issue = t /\ event[d].from = s
  BY <1>1 DEF EventsOf
<1>7. \A d \in Delivery :
        /\ event'[d].issue = IF d \in moved THEN s ELSE event[d].issue
        /\ pending'[d] = pending[d] \/ d \in req[r].took \/ (pending[d] = t /\ pending'[d] = s)
  <2>1. \A d \in Delivery :
          pending'[d] = pending[d] \/ d \in req[r].took \/ (pending[d] = t /\ pending'[d] = s)
    BY <1>1, UnmergeShape
  <2>2. \A d \in Delivery : event'[d].issue = IF d \in moved THEN s ELSE event[d].issue
    BY <1>1, <1>6, UnmergeShape DEF EventsOf
  <2>3. QED  BY <2>1, <2>2
<1>8. req[r].took \subseteq PendingOf(t)
  BY <1>1, <1>4 DEF StillSoInv, RequestTook
<1>9. ASSUME NEW j \in Issue, j # s, j # t
      PROVE  /\ EventsOf(j)' = EventsOf(j) /\ PendingOf(j) \subseteq PendingOf(j)'
             /\ issue'[j].seen = issue[j].seen
  BY <1>8, <1>9, <1>5, <1>7, <1>6 DEF EventsOf, PendingOf
<1>10. /\ EventsOf(s)' = EventsOf(s) \union moved
       /\ t # s => EventsOf(t)' = EventsOf(t) \ moved
  BY <1>7, <1>6 DEF EventsOf
<1>11. ASSUME NEW j \in Issue
       PROVE  issue'[j].seen + Cardinality(PendingOf(j)') >= Cardinality(EventsOf(j)')
  <2>1. /\ issue'[j].seen \in Nat /\ Cardinality(PendingOf(j)') \in Nat
        /\ Cardinality(EventsOf(j)') \in Nat /\ IsFiniteSet(PendingOf(j)')
    BY <1>2, CountTypesAfter
  <2>2. CASE j = s
    <3>1. issue'[j].seen >= Cardinality(EventsOf(j)')
      BY <1>4, <1>10, <2>2
    <3>2. QED  BY <2>1, <3>1
  <2>3. CASE j = t /\ t # s
    <3>1. issue'[j].seen >= Cardinality(EventsOf(j)')
      BY <1>4, <1>10, <2>3
    <3>2. QED  BY <2>1, <3>1
  <2>4. CASE j # s /\ j # t
    <3>1. Cardinality(PendingOf(j)) <= Cardinality(PendingOf(j)')
      BY <1>9, <2>1, <2>4, FS_Subset
    <3>2. issue[j].seen + Cardinality(PendingOf(j)) >= Cardinality(EventsOf(j))
      BY DEF CountInv, NeverUndercounted
    <3>3. Cardinality(PendingOf(j)) \in Nat /\ issue[j].seen \in Nat
      BY <1>2, CountTypes
    <3>4. QED  BY <1>9, <2>1, <2>4, <3>1, <3>2, <3>3
  <2>5. QED  BY <2>2, <2>4, <2>3
<1>12. QED  BY <1>3, <1>11 DEF CountInv, NeverUndercounted, CountsExact, NoneUnmerged

-----------------------------------------------------------------------------
(* The inductive invariant.                                                *)

CInv == ExistInv /\ ExclusionInv /\ StillSoInv /\ CountInv

LEMMA InitCounted == Init => CInv
<1> SUFFICES ASSUME Init
             PROVE  CInv
  OBVIOUS
<1>1. /\ \A r \in Request : req[r].phase = "new" /\ req[r].held = {}
      /\ \A d \in Delivery : del[d].phase \in {"new", "done"} /\ pending[d] = None
      /\ \A f \in Flusher : flush[f].at = None
      /\ \A i \in Issue : issue[i].into = None
  BY DEF Init, NewRequest, Ended, Arriving, NotFlushing, NoIssue
<1>2. ASSUME NEW i \in Issue
      PROVE  /\ PendingOf(i) = {} /\ issue[i].seen = Cardinality(EventsOf(i))
             /\ ~Exists(i) => EventsOf(i) = {}
  <2>1. EventsOf(i) = {d \in Earlier : Group(d) = i}
    BY <1>2, NoneIsNoIssue, IssueStoreAssumption DEF Init, EventsOf, NoEvent
  <2>2. IsFiniteSet(EventsOf(i))
    <3>1. EventsOf(i) \in SUBSET Delivery
      BY DEF EventsOf
    <3>2. QED  BY <3>1, SetsOfDeliveriesAreFinite
  <2>3. issue[i] = LET n == Cardinality(EventsOf(i)) IN
                   IF n = 0 THEN NoIssue ELSE [status |-> "open", into |-> None, seen |-> n]
    BY <2>1 DEF Init
  <2>4. issue[i].seen = Cardinality(EventsOf(i)) /\ (~Exists(i) => EventsOf(i) = {})
    <3>1. Cardinality(EventsOf(i)) = 0 => EventsOf(i) = {}
      BY <2>2, FS_EmptySet
    <3> DEFINE n == Cardinality(EventsOf(i))
    <3>2. issue[i] = IF n = 0 THEN NoIssue ELSE [status |-> "open", into |-> None, seen |-> n]
      BY <2>3
    <3> HIDE DEF n
    <3>3. issue[i].seen = n /\ (~Exists(i) => n = 0)
      BY <3>2 DEF NoIssue, Exists
    <3>4. QED  BY <3>1, <3>3 DEF n
  <2>5. PendingOf(i) = {}
    BY <1>1, <1>2, NoneIsNoIssue DEF PendingOf
  <2>6. QED  BY <2>4, <2>5
<1>3. ExistInv
  BY <1>1, <1>2 DEF ExistInv, AbsentEmpty, IntoExists, CreatesAlone, Creates, FoundExists, RequestExists
<1>4. ExclusionInv
  BY <1>1 DEF ExclusionInv, FlushesAlone, CountsAlone, Counts, HoldsAlone, Holder, UnmergeHolds
<1>5. StillSoInv
  BY <1>1 DEF StillSoInv, FlushTook, RequestTook, RequestSaw
<1>6. CountInv
  <2>1. ASSUME NEW i \in Issue
        PROVE  /\ issue[i].seen + Cardinality(PendingOf(i)) = Cardinality(EventsOf(i))
               /\ Cardinality(EventsOf(i)) \in Nat
    <3>1. issue[i].seen \in Nat
      BY TypeInit DEF TypeOK, IssueRow
    <3>2. QED  BY <1>2, <3>1, FS_EmptySet
  <2>2. QED  BY <2>1 DEF CountInv, NeverUndercounted, CountsExact
<1>7. QED  BY <1>3, <1>4, <1>5, <1>6 DEF CInv

LEMMA DeliveryKeepsCInv ==
  ASSUME IInv, CInv, NEW d \in Delivery, Receive(d) \/ DeliveryStep(d) \/ Rollback(d)
  PROVE  CInv'
<1>1. CASE Attempts(d)
  <2>1. UNCHANGED <<issue, event, pending, flush, req>>
    BY <1>1, AttemptsStoreNothing
  <2>2. CountInv'
    BY <2>1, SameKeepsCounts DEF CInv, NoneUnmerged
  <2>3. QED
    BY <1>1, <2>2, AttemptKeepsExist, AttemptKeepsExclusion, AttemptKeepsStillSo DEF CInv
<1>2. CASE Commit(d)
  BY <1>2, CommitKeepsExist, CommitKeepsExclusion, CommitKeepsStillSo, CommitKeepsCounts DEF CInv
<1>3. QED  BY <1>1, <1>2 DEF DeliveryStep, Attempts

LEMMA FlushKeepsCInv ==
  ASSUME IInv, CInv, SweepStart \/ \E f \in Flusher : FlushStep(f) \/ FlushFails(f)
  PROVE  CInv'
<1>1. ASSUME UNCHANGED <<issue, event, pending, del, req>>
      PROVE  ExistInv' /\ CountInv'
  <2>1. Steady
    BY <1>1, UnchangedIsSteady
  <2>2. QED  BY <1>1, <2>1, ExistKept, SameKeepsCounts DEF CInv, NoneUnmerged
<1>2. CASE SweepStart \/ \E f \in Flusher : FlushFails(f)
  <2>1. UNCHANGED <<issue, event, pending, del, req>>
    BY <1>2, RestShape DEF IInv
  <2>2. QED  BY <1>1, <1>2, <2>1, RestKeepsExclusion, RestKeepsStillSo DEF CInv
<1>3. ASSUME NEW f \in Flusher, NEW i \in Issue, FlushTake(f, i)
      PROVE  CInv'
  <2>1. UNCHANGED <<issue, event, pending, del, req>>
    BY <1>3, TakeShape DEF IInv
  <2>2. QED  BY <1>1, <1>3, <2>1, TakeKeepsExclusion, TakeKeepsStillSo DEF CInv
<1>4. ASSUME NEW f \in Flusher, FlushCommit(f)
      PROVE  CInv'
  BY <1>4, FlushCommitKeepsExist, FlushCommitKeepsExclusion, FlushCommitKeepsStillSo,
     FlushCommitKeepsCounts DEF CInv
<1>5. QED  BY <1>2, <1>3, <1>4 DEF FlushStep

LEMMA RequestKeepsCInv ==
  ASSUME IInv, CInv, NEW r \in Request, Ask(r) \/ RequestStep(r) \/ RequestFails(r)
  PROVE  CInv'
<1>1. CASE Prepares(r)
  <2>1. UNCHANGED <<issue, event, pending, del, flush>>
    BY <1>1, PreparesStoreNothing
  <2>2. NoneUnmerged' => NoneUnmerged
    BY <1>1, PrepareShape, OthersUnmerged DEF IInv, CInv, ExistInv
  <2>3. CountInv'
    BY <2>1, <2>2, SameKeepsCounts DEF CInv
  <2>4. QED
    BY <1>1, <2>3, PrepareKeepsExist, PrepareKeepsExclusion, PrepareKeepsStillSo DEF CInv
<1>2. CASE MergeCommit(r)
  <2>1. ExclusionInv'
    BY <1>2, AnswerKeepsExclusion DEF CInv, MergeCommit
  <2>2. QED  BY <1>2, <2>1, MergeKeepsExist, MergeKeepsStillSo, MergeKeepsCounts DEF CInv
<1>3. CASE UnmergeCommit(r)
  <2>1. ExclusionInv'
    BY <1>3, AnswerKeepsExclusion DEF CInv, UnmergeCommit
  <2>2. QED  BY <1>3, <2>1, UnmergeKeepsExist, UnmergeKeepsStillSo, UnmergeKeepsCounts DEF CInv
<1>4. CASE Marks(r)
  <2>1. ExclusionInv'
    BY <1>4, MarkShape, AnswerKeepsExclusion DEF CInv
  <2>2. NoneUnmerged' => NoneUnmerged
    BY <1>4, MarkShape, AnswerShape, OthersUnmerged DEF IInv, CInv
  <2>3. CountInv'
    BY <1>4, <2>2, MarkShape, SameKeepsCounts DEF CInv
  <2>4. QED  BY <1>4, <2>1, <2>3, MarkKeepsExist, MarkKeepsStillSo DEF CInv
<1>5. QED  BY <1>1, <1>2, <1>3, <1>4 DEF Ask, RequestStep, Prepares, Marks

LEMMA StutterKeepsCInv ==
  ASSUME CInv, UNCHANGED vars
  PROVE  CInv'
<1>1. UNCHANGED <<issue, event, pending, del, flush, req>>
  BY DEF vars, store
<1>2. ExistInv'
  BY <1>1 DEF CInv, ExistInv, AbsentEmpty, Exists, EventsOf, IntoExists, CreatesAlone, Creates,
     FoundExists, RequestExists
<1>3. ExclusionInv'
  BY <1>1 DEF CInv, ExclusionInv, FlushesAlone, CountsAlone, Counts, HoldsAlone, Held, UnmergeHolds
<1>4. StillSoInv'
  BY <1>1 DEF CInv, StillSoInv, FlushTook, PendingOf, RequestTook, RequestSaw
<1>5. CountInv'
  BY <1>1, SameKeepsCounts DEF CInv, NoneUnmerged
<1>6. QED  BY <1>2, <1>3, <1>4, <1>5 DEF CInv

LEMMA StepKeepsCInv == IInv /\ CInv /\ [Next]_vars => CInv'
<1> SUFFICES ASSUME IInv, CInv, [Next]_vars
             PROVE  CInv'
  OBVIOUS
<1>1. CASE Next
  BY <1>1, DeliveryKeepsCInv, FlushKeepsCInv, RequestKeepsCInv DEF Next
<1>2. CASE UNCHANGED vars
  BY <1>2, StutterKeepsCInv
<1>3. QED  BY <1>1, <1>2

LEMMA CountsHold == Spec => []CInv
  BY InitCounted, StepKeepsCInv, InvariantHolds, PTL DEF Spec

-----------------------------------------------------------------------------

\* No interleaving of deliveries, flushes, merges, unmerges and failures loses
\* an event to the counts: what flushOnce, mergeIssue and recomputeIssueStats
\* leave in timesSeen and issue_pending_counts covers every event of the issue.
THEOREM NoEventUncounted == Spec => []NeverUndercounted
<1>1. CInv => NeverUndercounted
  BY DEF CInv, CountInv
<1>2. QED  BY <1>1, CountsHold, PTL

\* Until an unmerge is answered, nothing is counted twice either: an issue that
\* is not merged has counted, or has pending, exactly its events.
THEOREM CountsExactUntilUnmerge == Spec => []CountsExact
<1>1. CInv => CountsExact
  BY DEF CInv, CountInv
<1>2. QED  BY <1>1, CountsHold, PTL
====
