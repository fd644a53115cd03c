------------------------ MODULE IssueTrackingProofs ------------------------
(***************************************************************************)
(* Proofs about IssueTracking, for every set of issues, deliveries and     *)
(* requests, every assignment of events to issues and every number of      *)
(* rounds of a flush.                                                      *)
(***************************************************************************)
EXTENDS IssueTracking, FiniteSetTheorems, TLAPS

\* A transaction that wrote its event has an issue to write it to.
TargetsNamed == \A d \in Delivery : del[d].phase = "ready" => del[d].to \in Issue

\* A request under way has its issues.
RequestNamed(r) ==
  req[r].phase \notin {"new", "done"} =>
    /\ req[r].source \in Issue
    /\ KindOf[r] # "status" => req[r].target \in Issue
    /\ KindOf[r] = "merge" => req[r].source # req[r].target
RequestsNamed == \A r \in Request : RequestNamed(r)

LEMMA SetsOfDeliveriesAreFinite ==
  ASSUME NEW S \in SUBSET Delivery
  PROVE  IsFiniteSet(S) /\ Cardinality(S) \in Nat
  BY IssueStoreAssumption, FS_Subset, FS_CardinalityType

LEMMA NoneIsNoIssue == None \notin Issue
  BY IssueStoreAssumption

LEMMA GroupsAreIssues == \A d \in Delivery : Group(d) \in Issue
  BY IssueStoreAssumption DEF Group

-----------------------------------------------------------------------------
(* Types.                                                                  *)

LEMMA BlankTypes ==
  /\ NoIssue \in IssueRow /\ NoEvent \in EventRow
  /\ Ended \in DeliveryState /\ Arriving \in DeliveryState
  /\ NotFlushing \in FlushState
  /\ NewRequest \in RequestState /\ Answered \in RequestState
<1>1. NoIssue \in IssueRow /\ NoEvent \in EventRow
  BY DEF NoIssue, NoEvent, IssueRow, IssueStatus, EventRow
<1>2. Ended \in DeliveryState /\ Arriving \in DeliveryState
  BY <1>1 DEF Ended, Arriving, DeliveryState, DeliveryPhase, Way, IssueStatus
<1>3. NotFlushing \in FlushState
  BY IssueStoreAssumption DEF NotFlushing, FlushState
<1>4. NewRequest \in RequestState /\ Answered \in RequestState
  BY <1>1 DEF NewRequest, Answered, RequestState, RequestPhase
<1>5. QED  BY <1>1, <1>2, <1>3, <1>4

LEMMA TypeInit == Init => TypeOK
<1> SUFFICES ASSUME Init
             PROVE  TypeOK
  OBVIOUS
<1> USE BlankTypes, GroupsAreIssues
<1>1. issue \in [Issue -> IssueRow]
  <2>1. ASSUME NEW i \in Issue
        PROVE  issue[i] \in IssueRow
    <3> DEFINE n == Cardinality({d \in Earlier : Group(d) = i})
    <3>1. n \in Nat
      <4>1. {d \in Earlier : Group(d) = i} \in SUBSET Delivery
        BY IssueStoreAssumption
      <4>2. QED  BY <4>1, SetsOfDeliveriesAreFinite
    <3>2. [status |-> "open", into |-> None, seen |-> n] \in IssueRow
      BY <3>1 DEF IssueRow, IssueStatus
    <3>3. QED  BY <3>2 DEF Init
  <2>2. QED  BY <2>1 DEF Init
<1>2. event \in [Delivery -> EventRow]
  BY DEF Init, EventRow
<1>3. pending \in [Delivery -> Issue \union {None}]
  BY DEF Init
<1>4. del \in [Delivery -> DeliveryState]
  BY DEF Init
<1>5. flush \in [Flusher -> FlushState]
  BY DEF Init
<1>6. req \in [Request -> RequestState]
  BY DEF Init
<1>7. QED  BY <1>1, <1>2, <1>3, <1>4, <1>5, <1>6 DEF TypeOK

\* The steps of a delivery before its commit change del alone.
Attempts(d) ==
  \/ Receive(d) \/ LockEvent(d) \/ CheckAgain(d) \/ FindIssue(d) \/ InsertIssue(d)
  \/ CountOnTarget(d) \/ CountLater(d) \/ (\E reopen \in BOOLEAN : UpdateIssue(d, reopen))
  \/ Rollback(d)

LEMMA AttemptKeepsType ==
  ASSUME TypeOK, NEW d \in Delivery, Attempts(d)
  PROVE  TypeOK'
<1>1. del' \in [Delivery -> DeliveryState]
  <2> USE BlankTypes, GroupsAreIssues
  <2>1. ASSUME NEW phase \in DeliveryPhase
        PROVE  [del[d] EXCEPT !.phase = phase] \in DeliveryState
    BY DEF TypeOK, DeliveryState
  <2>2. [del[d] EXCEPT !.phase = "found", !.saw = issue[Group(d)]] \in DeliveryState
    BY DEF TypeOK, DeliveryState, DeliveryPhase
  <2>3. ASSUME NEW way \in Way, NEW to \in Issue \union {None}, NEW status \in IssueStatus
        PROVE  [del[d] EXCEPT !.phase = "ready", !.way = way, !.to = to, !.status = status]
                 \in DeliveryState
    BY DEF TypeOK, DeliveryState, DeliveryPhase
  <2>4. del[d].saw \in IssueRow /\ del[d] \in DeliveryState
    BY DEF TypeOK, DeliveryState
  <2>5. del[d].saw.into \in Issue \union {None} /\ del[d].saw.status \in IssueStatus
    BY <2>4 DEF IssueRow
  <2>6. \E new \in DeliveryState : del' = [del EXCEPT ![d] = new]
    <3>1. CASE Receive(d) \/ LockEvent(d) \/ CheckAgain(d) \/ Rollback(d)
      BY <2>1, <3>1 DEF Receive, LockEvent, CheckAgain, Rollback, GoTo, DeliveryPhase
    <3>2. CASE FindIssue(d)
      BY <2>1, <2>2, <3>2 DEF FindIssue, Reads, GoTo, DeliveryPhase
    <3>3. CASE InsertIssue(d)
      BY <2>2, <2>3, <3>3 DEF InsertIssue, Reads, Writes, Way, IssueStatus
    <3>4. CASE CountOnTarget(d)
      BY <2>3, <2>5, <3>4 DEF CountOnTarget, Writes, Way
    <3>5. CASE CountLater(d)
      BY <2>3, <2>5, <3>5 DEF CountLater, Writes, Way
    <3>6. ASSUME NEW reopen \in BOOLEAN, UpdateIssue(d, reopen)
          PROVE  \E new \in DeliveryState : del' = [del EXCEPT ![d] = new]
      BY <2>3, <2>5, <3>6 DEF UpdateIssue, Writes, Way, IssueStatus
    <3>7. QED  BY <3>1, <3>2, <3>3, <3>4, <3>5, <3>6 DEF Attempts
  <2>7. QED  BY <2>6 DEF TypeOK
<1>2. UNCHANGED <<store, flush, req>>
  BY DEF Attempts, Receive, LockEvent, CheckAgain, FindIssue, InsertIssue, CountOnTarget,
     CountLater, UpdateIssue, Rollback
<1>3. QED  BY <1>1, <1>2 DEF TypeOK, store

LEMMA CommitKeepsType ==
  ASSUME TypeOK, TargetsNamed, NEW d \in Delivery, Commit(d)
  PROVE  TypeOK'
<1> DEFINE i == del[d].to
<1> USE BlankTypes, GroupsAreIssues
<1>1. i \in Issue /\ del[d] \in DeliveryState /\ issue[i] \in IssueRow
  BY DEF TypeOK, TargetsNamed, Commit
<1>2. issue' \in [Issue -> IssueRow]
  <2>1. del[d].status \in IssueStatus
    BY <1>1 DEF DeliveryState
  <2>2. Written(d) \in IssueRow
    <3>1. CASE del[d].way = "create"
      BY <3>1 DEF Written, IssueRow, IssueStatus
    <3>2. CASE del[d].way # "create"
      <4>1. /\ (IF del[d].way = "pending" THEN issue[i].seen ELSE issue[i].seen + 1) \in Nat
            /\ (IF del[d].way = "update" THEN del[d].status ELSE issue[i].status) \in IssueStatus
        BY <1>1, <2>1 DEF IssueRow
      <4>2. QED  BY <1>1, <3>2, <4>1 DEF Written, IssueRow
    <3>3. QED  BY <3>1, <3>2
  <2>3. QED  BY <2>2 DEF TypeOK, Commit
<1>3. event' \in [Delivery -> EventRow]
  <2>1. [issue |-> i, from |-> IF del[d].way = "merged" THEN Group(d) ELSE None] \in EventRow
    BY <1>1 DEF EventRow
  <2>2. QED  BY <2>1 DEF TypeOK, Commit
<1>4. pending' \in [Delivery -> Issue \union {None}]
  BY <1>1 DEF TypeOK, Commit
<1>5. del' \in [Delivery -> DeliveryState]
  BY DEF TypeOK, Commit
<1>6. flush' \in [Flusher -> FlushState]
  <2>1. [flush[d] EXCEPT !.todo = {i}] \in FlushState
    BY <1>1 DEF TypeOK, FlushState, Flusher
  <2>2. flush' = [flush EXCEPT ![d] = [flush[d] EXCEPT !.todo = {i}]]
    BY DEF Commit
  <2>3. QED  BY <2>1, <2>2 DEF TypeOK
<1>7. QED  BY <1>2, <1>3, <1>4, <1>5, <1>6 DEF TypeOK, Commit

LEMMA SkipTyped ==
  ASSUME TypeOK, NEW f \in Flusher, NEW i
  PROVE  Skip(f, i) \in FlushState
  BY BlankTypes DEF TypeOK, Skip, FlushState

LEMMA FlushTakeKeepsType ==
  ASSUME TypeOK, NEW f \in Flusher, NEW i \in Issue, FlushTake(f, i)
  PROVE  TypeOK'
<1>1. [flush[f] EXCEPT !.at = i, !.took = PendingOf(i)] \in FlushState
  BY DEF TypeOK, FlushState, PendingOf
<1>2. flush' \in [Flusher -> FlushState]
  BY <1>1, SkipTyped DEF TypeOK, FlushTake
<1>3. QED  BY <1>2 DEF TypeOK, FlushTake, store

LEMMA FlushCommitKeepsType ==
  ASSUME TypeOK, NEW f \in Flusher, FlushCommit(f)
  PROVE  TypeOK'
<1> DEFINE i == flush[f].at
<1>1. flush[f] \in FlushState /\ i \in Issue /\ flush[f].took \in SUBSET Delivery
  BY DEF TypeOK, FlushCommit, FlushState
<1>2. issue' \in [Issue -> IssueRow]
  <2>1. Cardinality(flush[f].took) \in Nat /\ issue[i] \in IssueRow
    BY <1>1, SetsOfDeliveriesAreFinite DEF TypeOK
  <2>2. [issue[i] EXCEPT !.seen = @ + Cardinality(flush[f].took)] \in IssueRow
    BY <2>1 DEF IssueRow
  <2>3. issue' = [issue EXCEPT ![i] = [issue[i] EXCEPT !.seen = @ + Cardinality(flush[f].took)]]
    BY DEF FlushCommit
  <2>4. QED  BY <2>2, <2>3 DEF TypeOK
<1>3. pending' \in [Delivery -> Issue \union {None}]
  BY DEF TypeOK, FlushCommit
<1>4. flush' \in [Flusher -> FlushState]
  <2>1. CASE flush[f].took = {} \/ LastRound(f)
    BY <2>1, SkipTyped DEF TypeOK, FlushCommit
  <2>2. CASE ~(flush[f].took = {} \/ LastRound(f))
    <3>1. flush[f].round + 1 \in 0..(MaxRounds - 1)
      <4>1. flush[f].round \in 0..(MaxRounds - 1) /\ flush[f].round + 1 # MaxRounds
        BY <1>1, <2>2 DEF FlushState, LastRound
      <4>2. QED  BY <4>1, IssueStoreAssumption
    <3>2. [flush[f] EXCEPT !.at = None, !.took = {}, !.round = flush[f].round + 1] \in FlushState
      BY <1>1, <3>1 DEF FlushState
    <3>3. QED  BY <2>2, <3>2 DEF TypeOK, FlushCommit
  <2>3. QED  BY <2>1, <2>2
<1>5. QED  BY <1>2, <1>3, <1>4 DEF TypeOK, FlushCommit

LEMMA FlushOtherKeepsType ==
  ASSUME TypeOK, SweepStart \/ \E f \in Flusher : FlushFails(f)
  PROVE  TypeOK'
<1>1. CASE SweepStart
  <2>1. Sweeper \in Flusher
    BY DEF Flusher
  <2>2. [flush[Sweeper] EXCEPT !.todo = {i \in Issue : PendingOf(i) # {}}] \in FlushState
    BY <2>1 DEF TypeOK, FlushState
  <2>3. flush' = [flush EXCEPT ![Sweeper] =
                   [flush[Sweeper] EXCEPT !.todo = {i \in Issue : PendingOf(i) # {}}]]
    BY <1>1 DEF SweepStart
  <2>4. QED  BY <1>1, <2>2, <2>3 DEF TypeOK, SweepStart, store
<1>2. ASSUME NEW f \in Flusher, FlushFails(f)
      PROVE  TypeOK'
  BY <1>2, BlankTypes DEF TypeOK, FlushFails, store
<1>3. QED  BY <1>1, <1>2

-----------------------------------------------------------------------------
(* Types: requests.                                                        *)

\* The steps of a request that change req alone.
Prepares(r) ==
  \/ (\E s, t \in Issue : MergeOpen(r, s, t))
  \/ (\E s \in Issue : UnmergeRead(r, s) \/ StatusRead(r, s))
  \/ MergeLock(r) \/ MergeRead(r) \/ FlushInStart(r) \/ FlushIn(r) \/ Restore(r)
  \/ RequestFails(r)

LEMMA PrepareKeepsType ==
  ASSUME TypeOK, RequestsNamed, NEW r \in Request, Prepares(r)
  PROVE  TypeOK'
<1> DEFINE s == req[r].source
           t == req[r].target
<1> USE BlankTypes
<1>1. req[r] \in RequestState
  BY DEF TypeOK
<1>2. UNCHANGED <<store, del, flush>>
  BY DEF Prepares, MergeOpen, UnmergeRead, StatusRead, MergeLock, MergeRead, FlushInStart,
     FlushIn, Restore, RequestFails
<1>3. ASSUME NEW new \in RequestState, req' = [req EXCEPT ![r] = new]
      PROVE  TypeOK'
  BY <1>2, <1>3 DEF TypeOK, store
<1>4. CASE Answer(r)
  BY <1>3, <1>4 DEF Answer
<1>5. ASSUME NEW i \in Issue, NEW j \in Issue, MergeOpen(r, i, j)
      PROVE  TypeOK'
  <2>1. [req[r] EXCEPT !.phase = "open", !.source = i, !.target = j] \in RequestState
    BY <1>1 DEF RequestState, RequestPhase
  <2>2. QED  BY <1>3, <1>5, <2>1 DEF MergeOpen
<1>6. ASSUME NEW i \in Issue, UnmergeRead(r, i)
      PROVE  TypeOK'
  <2>1. issue[i].into \in Issue \union {None}
    BY DEF TypeOK, IssueRow
  <2>2. [req[r] EXCEPT !.phase = "open", !.source = i, !.target = issue[i].into] \in RequestState
    BY <1>1, <2>1 DEF RequestState, RequestPhase
  <2>3. QED  BY <1>3, <1>6, <2>2 DEF UnmergeRead
<1>7. ASSUME NEW i \in Issue, StatusRead(r, i)
      PROVE  TypeOK'
  <2>1. [req[r] EXCEPT !.phase = "read", !.source = i] \in RequestState
    BY <1>1 DEF RequestState, RequestPhase
  <2>2. QED  BY <1>3, <1>7, <2>1 DEF StatusRead
<1>8. CASE MergeLock(r)
  <2>1. PICK i \in NextToLock(r) :
          req' = [req EXCEPT ![r] = [req[r] EXCEPT !.held = req[r].held \union {i}]]
    BY <1>8 DEF MergeLock
  <2>2. i \in Issue
    BY <1>8, <2>1 DEF MergeLock, NextToLock, Unheld, RequestsNamed, RequestNamed
  <2>3. [req[r] EXCEPT !.held = req[r].held \union {i}] \in RequestState
    BY <1>1, <2>2 DEF RequestState
  <2>4. QED  BY <1>3, <2>1, <2>3
<1>9. CASE MergeRead(r)
  <2>1. s \in Issue /\ t \in Issue
    BY <1>9 DEF MergeRead, RequestsNamed, RequestNamed
  <2>2. [req[r] EXCEPT !.phase = "ready", !.sawSource = issue[s], !.sawTarget = issue[t]]
          \in RequestState
    BY <1>1, <2>1 DEF TypeOK, RequestState, RequestPhase
  <2>3. QED  BY <1>3, <1>4, <1>9, <2>2 DEF MergeRead
<1>10. CASE FlushInStart(r)
  <2>1. [req[r] EXCEPT !.phase = "flush", !.took = PendingOf(t)] \in RequestState
    BY <1>1 DEF RequestState, RequestPhase, PendingOf
  <2>2. QED  BY <1>3, <1>10, <2>1 DEF FlushInStart
<1>11. CASE FlushIn(r)
  <2>1. t \in Issue
    BY <1>11 DEF FlushIn, RequestsNamed, RequestNamed
  <2>2. [req[r] EXCEPT !.phase = "flushed", !.held = {t}, !.took = req[r].took \intersect PendingOf(t)]
          \in RequestState
    BY <1>1, <2>1 DEF RequestState, RequestPhase
  <2>3. QED  BY <1>3, <1>11, <2>2 DEF FlushIn
<1>12. CASE Restore(r)
  <2>1. s \in Issue
    BY <1>12 DEF Restore, RequestsNamed, RequestNamed
  <2>2. [req[r] EXCEPT !.phase = "ready", !.held = req[r].held \union {s}] \in RequestState
    BY <1>1, <2>1 DEF RequestState, RequestPhase
  <2>3. QED  BY <1>3, <1>12, <2>2 DEF Restore
<1>13. QED  BY <1>4, <1>5, <1>6, <1>7, <1>8, <1>9, <1>10, <1>11, <1>12 DEF Prepares, RequestFails

LEMMA MergeKeepsType ==
  ASSUME TypeOK, RequestsNamed, NEW r \in Request, MergeCommit(r)
  PROVE  TypeOK'
<1> DEFINE s == req[r].source
           t == req[r].target
<1>1. s \in Issue /\ t \in Issue /\ req[r] \in RequestState
  BY DEF TypeOK, RequestsNamed, RequestNamed, MergeCommit
<1>2. issue' \in [Issue -> IssueRow]
  <2>1. req[r].sawTarget.seen + req[r].sawSource.seen \in Nat
    BY <1>1 DEF RequestState, IssueRow
  <2>2. ASSUME NEW i \in Issue
        PROVE  /\ [issue[i] EXCEPT !.status = "merged", !.into = t] \in IssueRow
               /\ [issue[i] EXCEPT !.seen = req[r].sawTarget.seen + req[r].sawSource.seen] \in IssueRow
               /\ [issue[i] EXCEPT !.into = t] \in IssueRow
               /\ issue[i] \in IssueRow
    BY <1>1, <2>1 DEF TypeOK, IssueRow, IssueStatus
  <2>3. QED  BY <2>2 DEF MergeCommit
<1>3. event' \in [Delivery -> EventRow]
  <2>1. ASSUME NEW d \in Delivery
        PROVE  [issue |-> t, from |-> IF event[d].from = None THEN s ELSE event[d].from] \in EventRow
    BY <1>1 DEF TypeOK, EventRow
  <2>2. QED  BY <2>1 DEF TypeOK, MergeCommit
<1>4. pending' \in [Delivery -> Issue \union {None}]
  BY <1>1 DEF TypeOK, MergeCommit, PendingMoved
<1>5. req' \in [Request -> RequestState]
  BY BlankTypes DEF TypeOK, MergeCommit, Answer
<1>6. QED  BY <1>2, <1>3, <1>4, <1>5 DEF TypeOK, MergeCommit

LEMMA UnmergeKeepsType ==
  ASSUME TypeOK, RequestsNamed, NEW r \in Request, UnmergeCommit(r)
  PROVE  TypeOK'
<1> DEFINE s == req[r].source
           t == req[r].target
           took == req[r].took
           moved == {d \in EventsOf(t) : event[d].from = s}
<1>1. s \in Issue /\ t \in Issue /\ req[r] \in RequestState
  BY DEF TypeOK, RequestsNamed, RequestNamed, UnmergeCommit
<1>2. issue' \in [Issue -> IssueRow]
  <2>1. /\ Cardinality(took) \in Nat /\ Cardinality(moved) \in Nat
        /\ Cardinality(EventsOf(s) \union moved) \in Nat
        /\ Cardinality(EventsOf(t) \ moved) \in Nat
    <3>1. took \in SUBSET Delivery
      BY <1>1 DEF RequestState
    <3>2. /\ moved \in SUBSET Delivery /\ EventsOf(s) \union moved \in SUBSET Delivery
          /\ EventsOf(t) \ moved \in SUBSET Delivery
      BY DEF EventsOf
    <3>3. QED  BY <3>1, <3>2, SetsOfDeliveriesAreFinite
  <2>2. issue[s].seen \in Nat /\ issue[t].seen \in Nat
    BY <1>1 DEF TypeOK, IssueRow
  <2>3. /\ AtLeast(issue[s].seen, Cardinality(EventsOf(s) \union moved)) \in Nat
        /\ AtLeast(issue[t].seen + Cardinality(took) - Cardinality(moved),
                   Cardinality(EventsOf(t) \ moved)) \in Nat
    BY <2>1, <2>2 DEF AtLeast
  <2>4. [status |-> "open", into |-> None,
         seen |-> AtLeast(issue[s].seen, Cardinality(EventsOf(s) \union moved))] \in IssueRow
    BY <2>3 DEF IssueRow, IssueStatus
  <2>5. [issue[t] EXCEPT !.seen =
           AtLeast(issue[t].seen + Cardinality(took) - Cardinality(moved),
                   Cardinality(EventsOf(t) \ moved))] \in IssueRow
    BY <1>1, <2>3 DEF TypeOK, IssueRow
  <2>6. QED  BY <2>4, <2>5 DEF TypeOK, UnmergeCommit
<1>3. event' \in [Delivery -> EventRow]
  <2>1. [issue |-> s, from |-> None] \in EventRow
    BY <1>1 DEF EventRow
  <2>2. QED  BY <2>1 DEF TypeOK, UnmergeCommit
<1>4. pending' \in [Delivery -> Issue \union {None}]
  BY <1>1 DEF TypeOK, UnmergeCommit
<1>5. req' \in [Request -> RequestState]
  BY BlankTypes DEF TypeOK, UnmergeCommit, Answer
<1>6. QED  BY <1>2, <1>3, <1>4, <1>5 DEF TypeOK, UnmergeCommit

LEMMA StatusKeepsType ==
  ASSUME TypeOK, NEW r \in Request, NEW status \in UserStatus,
         StatusWrite(r, status) \/ \E chosen \in SUBSET Issue : BulkStatus(r, chosen, status)
  PROVE  TypeOK'
<1>1. ASSUME NEW i \in Issue
      PROVE  [issue[i] EXCEPT !.status = status] \in IssueRow /\ issue[i] \in IssueRow
  BY DEF TypeOK, IssueRow, IssueStatus, UserStatus
<1>2. issue' \in [Issue -> IssueRow]
  <2>1. CASE StatusWrite(r, status)
    <3>1. issue' = [issue EXCEPT ![req[r].source] = [issue[req[r].source] EXCEPT !.status = status]]
      BY <2>1 DEF StatusWrite
    <3>2. QED  BY <1>1, <3>1 DEF TypeOK
  <2>2. ASSUME NEW chosen \in SUBSET Issue, BulkStatus(r, chosen, status)
        PROVE  issue' \in [Issue -> IssueRow]
    BY <1>1, <2>2 DEF BulkStatus
  <2>3. QED  BY <2>1, <2>2
<1>3. req' \in [Request -> RequestState]
  BY BlankTypes DEF TypeOK, StatusWrite, BulkStatus, Answer
<1>4. QED  BY <1>2, <1>3 DEF TypeOK, StatusWrite, BulkStatus

-----------------------------------------------------------------------------
(* An event is stored once: deliveries of it take turns, from the advisory *)
(* lock to the commit, and what the second look found stays true.          *)

OneHolder ==
  \A d, e \in Delivery : (HoldsEvent(d) /\ HoldsEvent(e) /\ IdOf[d] = IdOf[e]) => d = e

PastCheck(d) == del[d].phase \in {"unique", "insert", "found", "ready"}
CheckHolds == \A d \in Delivery : PastCheck(d) => ~Duplicate(d)

OnceInv == TargetsNamed /\ OneHolder /\ CheckHolds /\ EventStoredOnce

LEMMA OnceInit == Init => OnceInv
<1> SUFFICES ASSUME Init
             PROVE  OnceInv
  OBVIOUS
<1>1. \A d \in Delivery : del[d].phase \in {"new", "done"}
  BY DEF Init, Ended, Arriving
<1>2. \A d \in Delivery : Stored(d) => d \in Earlier
  BY DEF Init, Stored, NoEvent
<1>3. EventStoredOnce
  BY <1>2, IssueStoreAssumption DEF EventStoredOnce
<1>4. QED  BY <1>1, <1>3 DEF OnceInv, TargetsNamed, OneHolder, CheckHolds, HoldsEvent, PastCheck

\* A step that neither moves a delivery nor stores an event.
LEMMA OnceKept ==
  ASSUME OnceInv, UNCHANGED del, \A d \in Delivery : Stored(d)' = Stored(d)
  PROVE  OnceInv'
<1>1. TargetsNamed' /\ OneHolder'
  BY DEF OnceInv, TargetsNamed, OneHolder, HoldsEvent
<1>2. CheckHolds'
  BY DEF OnceInv, CheckHolds, PastCheck, Duplicate
<1>3. EventStoredOnce'
  BY DEF OnceInv, EventStoredOnce
<1>4. QED  BY <1>1, <1>2, <1>3 DEF OnceInv

\* One delivery moves on: to the lock when no other holds it, past the check
\* when the event is not stored.
LEMMA AttemptMoves ==
  ASSUME TypeOK, NEW d \in Delivery, Attempts(d)
  PROVE  \E new \in DeliveryState :
           /\ del' = [del EXCEPT ![d] = new]
           /\ new.phase = "ready" => new.to \in Issue
           /\ HoldsEvent(d)' => HoldsEvent(d) \/ \A e \in Delivery : HoldsEvent(e) => IdOf[e] # IdOf[d]
           /\ PastCheck(d)' => PastCheck(d) \/ ~Duplicate(d)
<1>1. del' \in [Delivery -> DeliveryState] /\ del \in [Delivery -> DeliveryState]
  BY AttemptKeepsType DEF TypeOK
<1>2. del' = [del EXCEPT ![d] = del'[d]]
  BY <1>1 DEF Attempts, Receive, LockEvent, CheckAgain, FindIssue, InsertIssue, CountOnTarget,
     CountLater, UpdateIssue, Rollback, GoTo, Reads, Writes
<1>3. ASSUME NEW new \in DeliveryState, del' = [del EXCEPT ![d] = new]
      PROVE  del'[d] = new
  BY <1>1, <1>3
<1>4. del[d] \in DeliveryState /\ del[d].saw.into \in Issue \union {None}
  BY DEF TypeOK, DeliveryState, IssueRow
<1>5. CASE Receive(d) \/ Rollback(d)
  <2>1. del'[d].phase \in {"open", "done"}
    BY <1>1, <1>4, <1>5 DEF Receive, Rollback, Ended, DeliveryState
  <2>2. QED  BY <1>1, <1>2, <2>1 DEF HoldsEvent, PastCheck
<1>6. CASE LockEvent(d)
  <2>1. del'[d].phase = "locked"
    BY <1>1, <1>4, <1>6 DEF LockEvent, GoTo, DeliveryState
  <2>2. QED  BY <1>1, <1>2, <1>6, <2>1 DEF PastCheck, LockEvent
<1>7. CASE CheckAgain(d)
  <2>1. del'[d].phase = "done" \/ (del'[d].phase = "unique" /\ ~Duplicate(d))
    BY <1>1, <1>4, <1>7 DEF CheckAgain, Ended, DeliveryState
  <2>2. HoldsEvent(d)
    BY <1>7 DEF CheckAgain, HoldsEvent
  <2>3. QED  BY <1>1, <1>2, <2>1, <2>2 DEF PastCheck
<1>8. CASE FindIssue(d) \/ InsertIssue(d) \/ CountOnTarget(d) \/ CountLater(d)
             \/ \E reopen \in BOOLEAN : UpdateIssue(d, reopen)
  <2>1. PastCheck(d) /\ HoldsEvent(d)
    BY <1>8 DEF FindIssue, InsertIssue, CountOnTarget, CountLater, UpdateIssue, PastCheck, HoldsEvent
  <2>2. del'[d].phase = "ready" => del'[d].to \in Issue
    <3>1. CASE FindIssue(d)
      BY <1>1, <1>4, <3>1 DEF FindIssue, Reads, GoTo, DeliveryState
    <3>2. CASE InsertIssue(d)
      <4>1. CASE Reads(d)
        BY <1>1, <1>4, <4>1 DEF Reads, DeliveryState
      <4>2. CASE Writes(d, "create", Group(d), "open")
        BY <1>1, <1>4, <4>2, GroupsAreIssues DEF Writes, DeliveryState
      <4>3. QED  BY <3>2, <4>1, <4>2 DEF InsertIssue
    <3>3. CASE CountOnTarget(d)
      BY <1>1, <1>4, <3>3 DEF CountOnTarget, Writes, DeliveryState
    <3>4. CASE CountLater(d)
      BY <1>1, <1>4, <3>4, GroupsAreIssues DEF CountLater, Writes, DeliveryState
    <3>5. ASSUME NEW reopen \in BOOLEAN, UpdateIssue(d, reopen)
          PROVE  del'[d].phase = "ready" => del'[d].to \in Issue
      BY <1>1, <1>4, <3>5, GroupsAreIssues DEF UpdateIssue, Writes, DeliveryState
    <3>6. QED  BY <1>8, <3>1, <3>2, <3>3, <3>4, <3>5
  <2>3. QED  BY <1>1, <1>2, <2>1, <2>2
<1>9. QED  BY <1>5, <1>6, <1>7, <1>8 DEF Attempts

LEMMA AttemptStoresNothing ==
  ASSUME NEW d \in Delivery, Attempts(d)
  PROVE  UNCHANGED <<store, flush, req>>
  BY DEF Attempts, Receive, LockEvent, CheckAgain, FindIssue, InsertIssue, CountOnTarget,
     CountLater, UpdateIssue, Rollback

LEMMA AttemptKeepsOnce ==
  ASSUME TypeOK, OnceInv, NEW d \in Delivery, Attempts(d)
  PROVE  OnceInv'
<1>1. PICK new \in DeliveryState :
        /\ del' = [del EXCEPT ![d] = new]
        /\ new.phase = "ready" => new.to \in Issue
        /\ HoldsEvent(d)' => HoldsEvent(d) \/ \A e \in Delivery : HoldsEvent(e) => IdOf[e] # IdOf[d]
        /\ PastCheck(d)' => PastCheck(d) \/ ~Duplicate(d)
  BY AttemptMoves
<1>2. \A e \in Delivery : e # d => (HoldsEvent(e)' <=> HoldsEvent(e)) /\ (PastCheck(e)' <=> PastCheck(e))
  BY <1>1 DEF TypeOK, HoldsEvent, PastCheck
<1>3. \A e \in Delivery : (Stored(e)' <=> Stored(e)) /\ (Duplicate(e)' <=> Duplicate(e))
  BY AttemptStoresNothing DEF store, Stored, Duplicate
<1>4. TargetsNamed'
  BY <1>1 DEF TypeOK, OnceInv, TargetsNamed
<1>5. OneHolder'
  BY <1>1, <1>2 DEF OnceInv, OneHolder
<1>6. CheckHolds'
  BY <1>1, <1>2, <1>3 DEF OnceInv, CheckHolds
<1>7. EventStoredOnce'
  BY <1>3 DEF OnceInv, EventStoredOnce
<1>8. QED  BY <1>4, <1>5, <1>6, <1>7 DEF OnceInv

LEMMA CommitKeepsOnce ==
  ASSUME TypeOK, OnceInv, NEW d \in Delivery, Commit(d)
  PROVE  OnceInv'
<1>1. del' = [del EXCEPT ![d] = Ended] /\ del[d].phase = "ready"
  BY DEF Commit
<1>2. ~HoldsEvent(d)' /\ ~PastCheck(d)' /\ HoldsEvent(d) /\ PastCheck(d)
  BY <1>1 DEF TypeOK, HoldsEvent, PastCheck, Ended
<1>3. \A e \in Delivery : e # d =>
        /\ (HoldsEvent(e)' <=> HoldsEvent(e)) /\ (PastCheck(e)' <=> PastCheck(e))
        /\ (Stored(e)' <=> Stored(e))
  BY <1>1 DEF TypeOK, HoldsEvent, PastCheck, Stored, Commit
<1>4. ~Duplicate(d)
  BY <1>2 DEF OnceInv, CheckHolds
<1>5. TargetsNamed'
  BY <1>1 DEF TypeOK, OnceInv, TargetsNamed, Ended
<1>6. OneHolder'
  BY <1>2, <1>3 DEF OnceInv, OneHolder
<1>7. CheckHolds'
  <2>1. SUFFICES ASSUME NEW e \in Delivery, PastCheck(e)', NEW c \in Delivery, Stored(c)',
                        IdOf[c] = IdOf[e]
                 PROVE  FALSE
    BY DEF CheckHolds, Duplicate
  <2>2. e # d /\ PastCheck(e)
    BY <1>2, <1>3, <2>1
  <2>3. CASE c = d
    <3>1. HoldsEvent(e)
      BY <2>2 DEF PastCheck, HoldsEvent
    <3>2. QED  BY <1>2, <2>1, <2>2, <2>3, <3>1 DEF OnceInv, OneHolder
  <2>4. CASE c # d
    BY <1>3, <2>1, <2>2, <2>4 DEF OnceInv, CheckHolds, Duplicate
  <2>5. QED  BY <2>3, <2>4
<1>8. EventStoredOnce'
  BY <1>3, <1>4 DEF OnceInv, EventStoredOnce, Duplicate
<1>9. QED  BY <1>5, <1>6, <1>7, <1>8 DEF OnceInv

\* Merges and unmerges move events, and neither store nor remove one.
LEMMA MovesKeepStored ==
  ASSUME TypeOK, RequestsNamed, NEW r \in Request, MergeCommit(r) \/ UnmergeCommit(r)
  PROVE  \A d \in Delivery : Stored(d)' = Stored(d)
<1>1. CASE MergeCommit(r)
  <2>1. req[r].source \in Issue /\ req[r].target \in Issue
    BY <1>1 DEF RequestsNamed, RequestNamed, MergeCommit
  <2>2. QED  BY <1>1, <2>1, NoneIsNoIssue DEF TypeOK, MergeCommit, Stored
<1>2. CASE UnmergeCommit(r)
  <2>1. req[r].source \in Issue /\ req[r].target \in Issue
    BY <1>2 DEF RequestsNamed, RequestNamed, UnmergeCommit
  <2>2. QED  BY <1>2, <2>1, NoneIsNoIssue DEF TypeOK, UnmergeCommit, Stored, EventsOf
<1>3. QED  BY <1>1, <1>2

-----------------------------------------------------------------------------
(* Merges: what a merge holds no other merge holds, and what it read is    *)
(* still so when it commits.                                               *)

\* A merge locks its two issues in order, and has both when it reads them.
RequestLocks(r) ==
  /\ req[r].phase \in {"new", "done"} => req[r].held = {}
  /\ (KindOf[r] = "merge" /\ req[r].phase = "open") =>
       \A h \in req[r].held : h \notin Unheld(r) /\ \A u \in Unheld(r) : h <= u
  /\ (KindOf[r] = "merge" /\ req[r].phase = "ready") =>
       Unheld(r) = {}
RequestsLock == \A r \in Request : RequestLocks(r)

LocksDisjoint ==
  \A r, q \in Request :
    (KindOf[r] = "merge" /\ KindOf[q] = "merge" /\ r # q) => req[r].held \intersect req[q].held = {}

ReadUnderLock(r) ==
  (KindOf[r] = "merge" /\ req[r].phase = "ready") =>
    issue[req[r].source].into = None /\ issue[req[r].target].into = None
ReadsUnderLock == \A r \in Request : ReadUnderLock(r)

MergeInv == RequestsNamed /\ RequestsLock /\ LocksDisjoint /\ ReadsUnderLock /\ ChainFlat

LEMMA MergeInit == Init => MergeInv
<1> SUFFICES ASSUME Init
             PROVE  MergeInv
  OBVIOUS
<1>1. \A r \in Request : req[r].phase = "new" /\ req[r].held = {}
  BY DEF Init, NewRequest
<1>2. \A i \in Issue : issue[i].into = None
  BY DEF Init, NoIssue
<1>3. QED  BY <1>1, <1>2 DEF MergeInv, RequestsNamed, RequestNamed, RequestsLock, RequestLocks,
     LocksDisjoint, ReadsUnderLock, ReadUnderLock, ChainFlat

\* One request moves on: what it locks, no other merge holds.
Moves(r) ==
  /\ \E new \in RequestState : req' = [req EXCEPT ![r] = new]
  /\ RequestNamed(r)' /\ RequestLocks(r)' /\ ReadUnderLock(r)'
  /\ \A i \in req'[r].held :
       i \in req[r].held \/ (KindOf[r] = "merge" => \A q \in Request : KindOf[q] = "merge" => i \notin req[q].held)

LEMMA AnswerMoves ==
  ASSUME TypeOK, NEW r \in Request, Answer(r)
  PROVE  Moves(r)
<1>1. req'[r] = Answered
  BY DEF TypeOK, Answer
<1>2. req'[r].phase = "done" /\ req'[r].held = {}
  BY <1>1 DEF Answered, NewRequest
<1>3. \E new \in RequestState : req' = [req EXCEPT ![r] = new]
  BY BlankTypes DEF Answer
<1>4. QED  BY <1>2, <1>3 DEF Moves, RequestNamed, RequestLocks, ReadUnderLock

LEMMA PrepareMoves ==
  ASSUME TypeOK, MergeInv, NEW r \in Request, Prepares(r)
  PROVE  Moves(r)
<1> DEFINE s == req[r].source
           t == req[r].target
<1> USE DEF Moves
<1>1. req' \in [Request -> RequestState] /\ req \in [Request -> RequestState]
  BY PrepareKeepsType DEF TypeOK, MergeInv
<1>2. RequestNamed(r) /\ RequestLocks(r)
  BY DEF MergeInv, RequestsNamed, RequestsLock
<1>3. UNCHANGED <<store, del, flush>> /\ UNCHANGED issue
  BY DEF Prepares, MergeOpen, UnmergeRead, StatusRead, MergeLock, MergeRead, FlushInStart,
     FlushIn, Restore, RequestFails, store
<1>4. \E new \in RequestState : req' = [req EXCEPT ![r] = new]
  <2>1. req' = [req EXCEPT ![r] = req'[r]]
    BY <1>1 DEF Prepares, MergeOpen, UnmergeRead, StatusRead, MergeLock, MergeRead, FlushInStart,
       FlushIn, Restore, RequestFails, Answer
  <2>2. QED  BY <1>1, <2>1
<1>5. CASE Answer(r)
  BY <1>5, AnswerMoves
<1>6. ASSUME NEW i \in Issue, NEW j \in Issue, MergeOpen(r, i, j)
      PROVE  Moves(r)
  <2>1. req'[r].phase = "open" /\ req'[r].source = i /\ req'[r].target = j /\ req'[r].held = {}
    BY <1>1, <1>2, <1>6 DEF MergeOpen, RequestLocks, RequestState
  <2>2. QED  BY <1>4, <1>6, <2>1 DEF MergeOpen, RequestNamed, RequestLocks, ReadUnderLock
<1>7. ASSUME NEW i \in Issue, UnmergeRead(r, i) \/ StatusRead(r, i)
      PROVE  Moves(r)
  <2>1. req'[r].source = i /\ req'[r].held = {} /\ req'[r].phase \notin {"new", "done"}
    <3>1. CASE UnmergeRead(r, i)
      BY <1>1, <1>2, <3>1 DEF UnmergeRead, RequestLocks, RequestState
    <3>2. CASE StatusRead(r, i)
      BY <1>1, <1>2, <3>2 DEF StatusRead, RequestLocks, RequestState
    <3>3. QED  BY <1>7, <3>1, <3>2
  <2>2. KindOf[r] # "merge"
    BY <1>7 DEF UnmergeRead, StatusRead
  <2>3. KindOf[r] # "status" => req'[r].target \in Issue
    <3>1. SUFFICES ASSUME KindOf[r] # "status"
                   PROVE  req'[r].target \in Issue
      OBVIOUS
    <3>2. UnmergeRead(r, i)
      BY <1>7, <3>1 DEF StatusRead
    <3>3. req'[r].target = issue[i].into /\ issue[i].into # None
      BY <1>1, <3>2 DEF UnmergeRead, RequestState
    <3>4. issue[i].into \in Issue \union {None}
      BY DEF TypeOK, IssueRow
    <3>5. QED  BY <3>3, <3>4
  <2>4. QED  BY <1>4, <2>1, <2>2, <2>3 DEF RequestNamed, RequestLocks, ReadUnderLock
<1>8. CASE MergeLock(r)
  <2>1. PICK i \in NextToLock(r) :
          /\ CanLockForUpdate(i)
          /\ req' = [req EXCEPT ![r] = [req[r] EXCEPT !.held = req[r].held \union {i}]]
    BY <1>8 DEF MergeLock
  <2>2. /\ req'[r].source = s /\ req'[r].target = t /\ req'[r].phase = "open"
        /\ req'[r].held = req[r].held \union {i}
    BY <1>1, <1>8, <2>1 DEF MergeLock, RequestState
  <2>3. KindOf[r] = "merge" /\ req[r].phase = "open" /\ s \in Issue /\ t \in Issue /\ s # t
    BY <1>2, <1>8 DEF MergeLock, RequestNamed
  <2>4. i \in Unheld(r) /\ \A u \in Unheld(r) : i <= u
    BY <2>1 DEF NextToLock
  <2>5. Unheld(r)' = Unheld(r) \ {i}
    BY <2>2 DEF Unheld
  <2>6. RequestLocks(r)'
    BY <1>2, <2>2, <2>3, <2>4, <2>5 DEF RequestLocks
  <2>7. \A q \in Request : KindOf[q] = "merge" => i \notin req[q].held
    BY <2>1 DEF CanLockForUpdate, CanUpdate, ForUpdate
  <2>8. QED  BY <1>4, <2>2, <2>3, <2>6, <2>7 DEF RequestNamed, ReadUnderLock
<1>9. CASE MergeRead(r) /\ ~Answer(r)
  <2>1. /\ KindOf[r] = "merge" /\ req[r].phase = "open" /\ Unheld(r) = {}
        /\ issue[s].into = None /\ issue[t].into = None
    BY <1>9 DEF MergeRead
  <2>2. /\ req'[r].source = s /\ req'[r].target = t /\ req'[r].phase = "ready"
        /\ req'[r].held = req[r].held
    <3>1. req' = [req EXCEPT ![r] = [req[r] EXCEPT !.phase = "ready", !.sawSource = issue[s],
                                                   !.sawTarget = issue[t]]]
      BY <1>9 DEF MergeRead
    <3>2. req[r] \in RequestState
      BY <1>1
    <3>3. QED  BY <1>1, <3>1, <3>2 DEF RequestState
  <2>3. Unheld(r)' = Unheld(r)
    BY <2>2 DEF Unheld
  <2>4. QED  BY <1>2, <1>3, <1>4, <2>1, <2>2, <2>3 DEF RequestNamed, RequestLocks, ReadUnderLock
<1>10. CASE FlushInStart(r) \/ FlushIn(r) \/ Restore(r)
  <2>1. /\ KindOf[r] = "unmerge" /\ req[r].phase \notin {"new", "done"}
        /\ req'[r].source = s /\ req'[r].target = t /\ req'[r].phase \notin {"new", "done"}
    <3>1. CASE FlushInStart(r)
      BY <1>1, <3>1 DEF FlushInStart, RequestState
    <3>2. CASE FlushIn(r)
      BY <1>1, <3>2 DEF FlushIn, RequestState
    <3>3. CASE Restore(r)
      BY <1>1, <3>3 DEF Restore, RequestState
    <3>4. QED  BY <1>10, <3>1, <3>2, <3>3
  <2>2. QED  BY <1>2, <1>4, <2>1 DEF RequestNamed, RequestLocks, ReadUnderLock
<1>11. QED  BY <1>5, <1>6, <1>7, <1>8, <1>9, <1>10 DEF Prepares, RequestFails

\* A step that sets no mergedIntoIssueId, though it may clear one.
OnlyClears == \A i \in Issue : issue'[i].into \in {issue[i].into, None}

LEMMA ClearKeepsFlat ==
  ASSUME TypeOK, ChainFlat, OnlyClears
  PROVE  ChainFlat'
<1>1. ASSUME NEW i \in Issue, issue'[i].into # None
      PROVE  issue'[issue'[i].into].into = None
  <2>1. issue'[i].into = issue[i].into /\ issue[i].into \in Issue
    BY <1>1 DEF OnlyClears, TypeOK, IssueRow
  <2>2. issue[issue[i].into].into = None
    BY <1>1, <2>1 DEF ChainFlat
  <2>3. QED  BY <2>1, <2>2 DEF OnlyClears
<1>2. QED  BY <1>1 DEF ChainFlat

LEMMA ClearKeepsMergeInv ==
  ASSUME TypeOK, MergeInv, OnlyClears, UNCHANGED req
  PROVE  MergeInv'
<1>1. ChainFlat'
  BY ClearKeepsFlat DEF MergeInv
<1>2. RequestsNamed' /\ RequestsLock' /\ LocksDisjoint'
  BY DEF MergeInv, RequestsNamed, RequestNamed, RequestsLock, RequestLocks, LocksDisjoint, Unheld
<1>3. ReadsUnderLock'
  BY DEF MergeInv, ReadsUnderLock, ReadUnderLock, OnlyClears, RequestsNamed, RequestNamed
<1>4. QED  BY <1>1, <1>2, <1>3 DEF MergeInv

LEMMA MoveKeepsLocks ==
  ASSUME TypeOK, MergeInv, NEW r \in Request, Moves(r)
  PROVE  RequestsNamed' /\ RequestsLock' /\ LocksDisjoint'
<1>1. PICK new \in RequestState : req' = [req EXCEPT ![r] = new]
  BY DEF Moves
<1>2. \A q \in Request : q # r => req'[q] = req[q]
  BY <1>1 DEF TypeOK
<1>3. RequestsNamed'
  BY <1>2 DEF MergeInv, RequestsNamed, RequestNamed, Moves
<1>4. RequestsLock'
  BY <1>2 DEF MergeInv, RequestsLock, RequestLocks, Unheld, Moves
<1>5. LocksDisjoint'
  BY <1>2 DEF MergeInv, LocksDisjoint, Moves
<1>6. QED  BY <1>3, <1>4, <1>5

LEMMA MoveKeepsMergeInv ==
  ASSUME TypeOK, MergeInv, NEW r \in Request, Moves(r), OnlyClears
  PROVE  MergeInv'
<1>1. PICK new \in RequestState : req' = [req EXCEPT ![r] = new]
  BY DEF Moves
<1>2. \A q \in Request : q # r => req'[q] = req[q]
  BY <1>1 DEF TypeOK
<1>3. ASSUME NEW q \in Request
      PROVE  ReadUnderLock(q)'
  <2>1. CASE q = r
    BY <2>1 DEF Moves
  <2>2. CASE q # r
    BY <1>2, <2>2 DEF MergeInv, ReadsUnderLock, ReadUnderLock, OnlyClears, RequestsNamed, RequestNamed
  <2>3. QED  BY <2>1, <2>2
<1>4. QED  BY <1>3, MoveKeepsLocks, ClearKeepsFlat DEF MergeInv, ReadsUnderLock

LEMMA MergeKeepsMergeInv ==
  ASSUME TypeOK, MergeInv, NEW r \in Request, MergeCommit(r)
  PROVE  MergeInv'
<1> DEFINE s == req[r].source
           t == req[r].target
<1>1. s \in Issue /\ t \in Issue /\ s # t /\ None \notin Issue
  BY NoneIsNoIssue DEF MergeInv, RequestsNamed, RequestNamed, MergeCommit
<1>2. issue[s].into = None /\ issue[t].into = None
  BY DEF MergeInv, ReadsUnderLock, ReadUnderLock, MergeCommit
<1>3. \A i \in Issue : issue'[i].into = IF i = s \/ issue[i].into = s THEN t ELSE issue[i].into
  BY <1>1, <1>2 DEF TypeOK, MergeCommit, MergedInto, IssueRow
<1>4. Moves(r)
  BY AnswerMoves DEF MergeCommit
<1>5. ChainFlat'
  <2>1. ASSUME NEW i \in Issue, issue'[i].into # None
        PROVE  issue'[issue'[i].into].into = None
    <3>1. CASE i = s \/ issue[i].into = s
      BY <1>1, <1>2, <1>3, <3>1
    <3>2. CASE ~(i = s \/ issue[i].into = s)
      <4>1. issue'[i].into = issue[i].into /\ issue[i].into \in Issue
        BY <1>3, <2>1, <3>2 DEF TypeOK, IssueRow
      <4>2. issue[issue[i].into].into = None
        BY <2>1, <4>1 DEF MergeInv, ChainFlat
      <4>3. QED  BY <1>1, <1>3, <3>2, <4>1, <4>2
    <3>3. QED  BY <3>1, <3>2
  <2>2. QED  BY <2>1 DEF ChainFlat
<1>6. ReadsUnderLock'
  <2>1. ASSUME NEW q \in Request
        PROVE  ReadUnderLock(q)'
    <3>1. CASE q = r
      BY <1>4, <3>1 DEF Moves
    <3>2. CASE q # r
      <4>1. req'[q] = req[q]
        BY <3>2 DEF TypeOK, MergeCommit, Answer
      <4>2. ASSUME KindOf[q] = "merge", req[q].phase = "ready"
            PROVE  issue'[req[q].source].into = None /\ issue'[req[q].target].into = None
        <5>1. {req[q].source, req[q].target} \subseteq req[q].held /\ s \in req[r].held
          BY <4>2 DEF MergeInv, RequestsLock, RequestLocks, Unheld, MergeCommit
        <5>2. req[r].held \intersect req[q].held = {}
          BY <3>2, <4>2 DEF MergeInv, LocksDisjoint, MergeCommit
        <5>3. /\ req[q].source \in Issue /\ req[q].target \in Issue
              /\ issue[req[q].source].into = None /\ issue[req[q].target].into = None
          BY <4>2 DEF MergeInv, RequestsNamed, RequestNamed, ReadsUnderLock, ReadUnderLock
        <5>4. QED  BY <1>1, <1>3, <5>1, <5>2, <5>3
      <4>3. QED  BY <4>1, <4>2 DEF ReadUnderLock
    <3>3. QED  BY <3>1, <3>2
  <2>2. QED  BY <2>1 DEF ReadsUnderLock
<1>7. QED  BY <1>4, <1>5, <1>6, MoveKeepsLocks DEF MergeInv

\* The merges that wait for each other would each hold the smaller issue.
LEMMA OrderPreventsDeadlock ==
  ASSUME TypeOK, MergeInv
  PROVE  MergesNeverDeadlock
<1>1. SUFFICES ASSUME NEW r \in Request, NEW q \in Request, WaitsFor(r, q), WaitsFor(q, r)
               PROVE  FALSE
  BY DEF MergesNeverDeadlock
<1>2. PICK u \in NextToLock(r) : u \in req[q].held
  BY <1>1 DEF WaitsFor
<1>3. PICK v \in NextToLock(q) : v \in req[r].held
  BY <1>1 DEF WaitsFor
<1>4. RequestLocks(r) /\ RequestLocks(q) /\ KindOf[r] = "merge" /\ KindOf[q] = "merge"
        /\ req[r].phase = "open" /\ req[q].phase = "open"
  BY <1>1 DEF MergeInv, RequestsLock, WaitsFor
<1>5. u \in Unheld(r) /\ v \in Unheld(q) /\ u \in Nat /\ v \in Nat
  BY <1>2, <1>3, IssueStoreAssumption DEF NextToLock, TypeOK, RequestState, Unheld
<1>6. v <= u /\ u <= v /\ v \notin Unheld(r)
  BY <1>2, <1>3, <1>4, <1>5 DEF RequestLocks
<1>7. QED  BY <1>5, <1>6
-----------------------------------------------------------------------------
(* An event is counted on the issue that holds it: whoever moves the event *)
(* moves its pending row in the same transaction.                          *)

LEMMA CommitKeepsFollow ==
  ASSUME TypeOK, CountFollowsEvent, NEW d \in Delivery, Commit(d)
  PROVE  CountFollowsEvent'
<1>1. \A e \in Delivery : e # d => event'[e] = event[e] /\ pending'[e] = pending[e]
  BY DEF TypeOK, Commit
<1>2. event'[d].issue = del[d].to /\ pending'[d] \in {del[d].to, None}
  BY DEF TypeOK, Commit
<1>3. QED  BY <1>1, <1>2 DEF CountFollowsEvent

LEMMA FlushCommitKeepsFollow ==
  ASSUME TypeOK, CountFollowsEvent, NEW f \in Flusher, FlushCommit(f)
  PROVE  CountFollowsEvent'
<1>1. \A d \in Delivery : event'[d] = event[d] /\ pending'[d] \in {pending[d], None}
  BY DEF FlushCommit
<1>2. QED  BY <1>1 DEF CountFollowsEvent

LEMMA MoveKeepsFollow ==
  ASSUME TypeOK, RequestsNamed, CountFollowsEvent, NEW r \in Request,
         MergeCommit(r) \/ UnmergeCommit(r)
  PROVE  CountFollowsEvent'
<1> DEFINE s == req[r].source
           t == req[r].target
<1>1. s # None /\ t # None
  BY NoneIsNoIssue DEF RequestsNamed, RequestNamed, MergeCommit, UnmergeCommit
<1>2. CASE MergeCommit(r)
  <2>1. ASSUME NEW d \in Delivery
        PROVE  /\ event'[d].issue = IF event[d].issue = s THEN t ELSE event[d].issue
               /\ pending'[d] = IF pending[d] = s THEN t ELSE pending[d]
    BY <1>2 DEF MergeCommit, PendingMoved
  <2>2. QED  BY <1>1, <2>1 DEF CountFollowsEvent
<1>3. CASE UnmergeCommit(r)
  <2> DEFINE moved == {d \in EventsOf(t) : event[d].from = s}
  <2>1. ASSUME NEW d \in Delivery
        PROVE  /\ event'[d].issue = IF d \in moved THEN s ELSE event[d].issue
               /\ pending'[d] \in {None, IF pending[d] = t /\ d \in moved THEN s ELSE pending[d]}
    BY <1>3 DEF UnmergeCommit
  <2>2. \A d \in moved : event[d].issue = t
    BY DEF EventsOf
  <2>3. QED  BY <1>1, <2>1, <2>2 DEF CountFollowsEvent
<1>4. QED  BY <1>2, <1>3

LEMMA FollowInit == Init => CountFollowsEvent
  BY DEF Init, CountFollowsEvent

-----------------------------------------------------------------------------
(* The inductive invariant.                                                *)

IInv == TypeOK /\ OnceInv /\ MergeInv /\ CountFollowsEvent

LEMMA UnchangedStoreKeeps ==
  ASSUME UNCHANGED store
  PROVE  /\ OnlyClears
         /\ CountFollowsEvent => CountFollowsEvent'
         /\ \A d \in Delivery : Stored(d)' = Stored(d)
  BY DEF store, OnlyClears, CountFollowsEvent, Stored

LEMMA DeliveryKeepsIInv ==
  ASSUME IInv, NEW d \in Delivery, Receive(d) \/ DeliveryStep(d) \/ Rollback(d)
  PROVE  IInv'
<1>1. CASE Attempts(d)
  <2>1. UNCHANGED <<store, flush, req>>
    BY <1>1, AttemptStoresNothing
  <2>2. TypeOK' /\ OnceInv'
    BY <1>1, AttemptKeepsType, AttemptKeepsOnce DEF IInv
  <2>3. QED  BY <2>1, <2>2, UnchangedStoreKeeps, ClearKeepsMergeInv DEF IInv
<1>2. CASE Commit(d)
  <2>1. TypeOK' /\ OnceInv' /\ CountFollowsEvent'
    BY <1>2, CommitKeepsType, CommitKeepsOnce, CommitKeepsFollow DEF IInv, OnceInv
  <2>2. OnlyClears
    <3>1. Written(d).into \in {issue[del[d].to].into, None}
      <4>1. CASE del[d].way = "create"
        BY <4>1 DEF Written
      <4>2. CASE del[d].way # "create"
        <5>1. issue[del[d].to] \in IssueRow
          BY <1>2 DEF IInv, TypeOK, OnceInv, TargetsNamed, Commit
        <5>2. QED  BY <4>2, <5>1 DEF Written, IssueRow
      <4>3. QED  BY <4>1, <4>2
    <3>2. issue' = [issue EXCEPT ![del[d].to] = Written(d)]
      BY <1>2 DEF Commit
    <3>3. QED  BY <3>1, <3>2 DEF IInv, TypeOK, OnlyClears
  <2>3. UNCHANGED req
    BY <1>2 DEF Commit
  <2>4. QED  BY <2>1, <2>2, <2>3, ClearKeepsMergeInv DEF IInv
<1>3. QED  BY <1>1, <1>2 DEF DeliveryStep, Attempts

LEMMA FlushKeepsIInv ==
  ASSUME IInv, SweepStart \/ \E f \in Flusher : FlushStep(f) \/ FlushFails(f)
  PROVE  IInv'
<1>1. CASE SweepStart \/ (\E f \in Flusher : FlushFails(f))
             \/ \E f \in Flusher, i \in Issue : FlushTake(f, i)
  <2>1. UNCHANGED <<store, del, req>>
    BY <1>1 DEF SweepStart, FlushFails, FlushTake
  <2>2. TypeOK'
    BY <1>1, FlushOtherKeepsType, FlushTakeKeepsType DEF IInv
  <2>3. OnceInv' /\ MergeInv' /\ CountFollowsEvent'
    BY <2>1, UnchangedStoreKeeps, OnceKept, ClearKeepsMergeInv DEF IInv
  <2>4. QED  BY <2>2, <2>3 DEF IInv
<1>2. ASSUME NEW f \in Flusher, FlushCommit(f)
      PROVE  IInv'
  <2>1. TypeOK' /\ CountFollowsEvent'
    BY <1>2, FlushCommitKeepsType, FlushCommitKeepsFollow DEF IInv
  <2>2. UNCHANGED <<event, del, req>>
    BY <1>2 DEF FlushCommit
  <2>3. OnceInv'
    BY <2>2, OnceKept DEF IInv, Stored
  <2>4. OnlyClears
    <3>1. issue' = [issue EXCEPT ![flush[f].at] =
                      [issue[flush[f].at] EXCEPT !.seen = @ + Cardinality(flush[f].took)]]
      BY <1>2 DEF FlushCommit
    <3>2. QED  BY <3>1 DEF IInv, TypeOK, OnlyClears, IssueRow
  <2>5. QED  BY <2>1, <2>2, <2>3, <2>4, ClearKeepsMergeInv DEF IInv
<1>3. QED  BY <1>1, <1>2 DEF FlushStep

LEMMA StatusKeepsIInv ==
  ASSUME IInv, NEW r \in Request, NEW status \in UserStatus,
         StatusWrite(r, status) \/ \E chosen \in SUBSET Issue : BulkStatus(r, chosen, status)
  PROVE  IInv'
<1>1. UNCHANGED <<event, pending, del, flush>> /\ Answer(r)
  BY DEF StatusWrite, BulkStatus
<1>2. TypeOK'
  BY StatusKeepsType DEF IInv
<1>3. OnceInv'
  BY <1>1, OnceKept DEF IInv, Stored
<1>4. OnlyClears
  <2>1. CASE StatusWrite(r, status)
    <3>1. issue' = [issue EXCEPT ![req[r].source] = [issue[req[r].source] EXCEPT !.status = status]]
      BY <2>1 DEF StatusWrite
    <3>2. QED  BY <3>1 DEF IInv, TypeOK, OnlyClears, IssueRow
  <2>2. ASSUME NEW chosen \in SUBSET Issue, BulkStatus(r, chosen, status)
        PROVE  OnlyClears
    BY <2>2 DEF BulkStatus, IInv, TypeOK, OnlyClears, IssueRow
  <2>3. QED  BY <2>1, <2>2
<1>5. MergeInv'
  BY <1>1, <1>4, AnswerMoves, MoveKeepsMergeInv DEF IInv
<1>6. CountFollowsEvent'
  BY <1>1 DEF IInv, CountFollowsEvent
<1>7. QED  BY <1>2, <1>3, <1>5, <1>6 DEF IInv

LEMMA MoveKeepsIInv ==
  ASSUME IInv, NEW r \in Request, MergeCommit(r) \/ UnmergeCommit(r)
  PROVE  IInv'
<1>1. RequestsNamed
  BY DEF IInv, MergeInv
<1>2. TypeOK' /\ CountFollowsEvent'
  BY <1>1, MergeKeepsType, UnmergeKeepsType, MoveKeepsFollow DEF IInv
<1>3. OnceInv'
  <2>1. UNCHANGED del
    BY DEF MergeCommit, UnmergeCommit
  <2>2. QED  BY <1>1, <2>1, MovesKeepStored, OnceKept DEF IInv
<1>4. MergeInv'
  <2>1. CASE MergeCommit(r)
    BY <2>1, MergeKeepsMergeInv DEF IInv
  <2>2. CASE UnmergeCommit(r)
    <3>1. OnlyClears
      BY <2>2 DEF UnmergeCommit, IInv, TypeOK, OnlyClears, IssueRow
    <3>2. Moves(r)
      BY <2>2, AnswerMoves DEF UnmergeCommit, IInv
    <3>3. QED  BY <3>1, <3>2, MoveKeepsMergeInv DEF IInv
  <2>3. QED  BY <2>1, <2>2
<1>5. QED  BY <1>2, <1>3, <1>4 DEF IInv

LEMMA PrepareKeepsIInv ==
  ASSUME IInv, NEW r \in Request, Prepares(r)
  PROVE  IInv'
<1>1. UNCHANGED <<store, del, flush>>
  BY DEF Prepares, MergeOpen, UnmergeRead, StatusRead, MergeLock, MergeRead, FlushInStart,
     FlushIn, Restore, RequestFails
<1>2. TypeOK'
  BY PrepareKeepsType DEF IInv, MergeInv
<1>3. MergeInv'
  BY <1>1, UnchangedStoreKeeps, PrepareMoves, MoveKeepsMergeInv DEF IInv
<1>4. OnceInv' /\ CountFollowsEvent'
  BY <1>1, UnchangedStoreKeeps, OnceKept DEF IInv
<1>5. QED  BY <1>2, <1>3, <1>4 DEF IInv

LEMMA StepKeepsIInv == IInv /\ [Next]_vars => IInv'
<1> SUFFICES ASSUME IInv, [Next]_vars
             PROVE  IInv'
  OBVIOUS
<1>1. ASSUME NEW d \in Delivery, Receive(d) \/ DeliveryStep(d) \/ Rollback(d)
      PROVE  IInv'
  BY <1>1, DeliveryKeepsIInv
<1>2. CASE SweepStart \/ \E f \in Flusher : FlushStep(f) \/ FlushFails(f)
  BY <1>2, FlushKeepsIInv
<1>3. ASSUME NEW r \in Request, Ask(r) \/ RequestStep(r) \/ RequestFails(r)
      PROVE  IInv'
  <2>1. CASE Prepares(r)
    BY <2>1, PrepareKeepsIInv
  <2>2. CASE MergeCommit(r) \/ UnmergeCommit(r)
    BY <2>2, MoveKeepsIInv
  <2>3. ASSUME NEW status \in UserStatus,
               StatusWrite(r, status) \/ \E chosen \in SUBSET Issue : BulkStatus(r, chosen, status)
        PROVE  IInv'
    BY <2>3, StatusKeepsIInv
  <2>4. QED  BY <1>3, <2>1, <2>2, <2>3 DEF Ask, RequestStep, Prepares
<1>4. CASE UNCHANGED vars
  <2>1. TypeOK'
    BY <1>4 DEF IInv, TypeOK, vars
  <2>2. UNCHANGED <<store, del, req>>
    BY <1>4 DEF vars, store
  <2>3. OnceInv' /\ MergeInv' /\ CountFollowsEvent'
    BY <2>2, UnchangedStoreKeeps, OnceKept, ClearKeepsMergeInv DEF IInv
  <2>4. QED  BY <2>1, <2>3 DEF IInv
<1>5. QED  BY <1>1, <1>2, <1>3, <1>4 DEF Next

LEMMA InvariantHolds == Spec => []IInv
<1>1. Init => IInv
  BY TypeInit, OnceInit, MergeInit, FollowInit DEF IInv
<1>2. QED  BY <1>1, StepKeepsIInv, PTL DEF Spec

-----------------------------------------------------------------------------

\* The rows of the three tables, and the state of every delivery, flush and
\* request, have the columns and values the code gives them.
THEOREM TypeCorrect == Spec => []TypeOK
<1>1. IInv => TypeOK
  BY DEF IInv
<1>2. QED  BY <1>1, InvariantHolds, PTL

\* persistEvent stores an event once, whatever number of deliveries of it
\* arrive and however they, crashes and rollbacks interleave.
THEOREM EventsAreStoredOnce == Spec => []EventStoredOnce
<1>1. IInv => EventStoredOnce
  BY DEF IInv, OnceInv
<1>2. QED  BY <1>1, InvariantHolds, PTL

\* mergeIssue keeps mergedIntoIssueId one step long: whatever merges and
\* unmerges run together, no issue is merged into a merged one.
THEOREM MergesStayFlat == Spec => []ChainFlat
<1>1. IInv => ChainFlat
  BY DEF IInv, MergeInv
<1>2. QED  BY <1>1, InvariantHolds, PTL

\* The order in which mergeIssue locks its two rows keeps any two merges from
\* waiting for each other.
THEOREM MergesDoNotDeadlock == Spec => []MergesNeverDeadlock
<1>1. IInv => MergesNeverDeadlock
  BY OrderPreventsDeadlock DEF IInv
<1>2. QED  BY <1>1, InvariantHolds, PTL

\* A pending count follows its event through every merge and unmerge, so that
\* a flush counts the event on the issue that holds it.
THEOREM CountsFollowEvents == Spec => []CountFollowsEvent
<1>1. IInv => CountFollowsEvent
  BY DEF IInv
<1>2. QED  BY <1>1, InvariantHolds, PTL
=============================================================================
