--------------------------- MODULE IssueWorkflow ---------------------------
(***************************************************************************)
(* IssuesService: what a user changes of an issue while events of it       *)
(* arrive.  A merge and an unmerge are transactions of several statements; *)
(* updateStatus reads and writes in two statements with no transaction;    *)
(* bulkUpdateStatus is one statement.  Each request is made once.          *)
(***************************************************************************)
EXTENDS EventIngest

RequestPhase == {"new", "open", "flush", "flushed", "read", "ready", "done"}
RequestState == [phase : RequestPhase, source : Issue \union {None}, target : Issue \union {None},
                 held : SUBSET Issue, took : SUBSET Delivery, sawSource : IssueRow, sawTarget : IssueRow]

NewRequest == [phase |-> "new", source |-> None, target |-> None, held |-> {}, took |-> {},
               sawSource |-> NoIssue, sawTarget |-> NoIssue]
Answered == [NewRequest EXCEPT !.phase = "done"]

UserStatus == {"open", "resolved", "ignored"}
AtLeast(n, floor) == IF n < floor THEN floor ELSE n

NoneFollows(i) == {}  \* mutant
MergedInto(i) == {j \in Issue : issue[j].into = i}

PendingStays(s, t) == pending  \* mutant
PendingMoved(s, t) == [d \in Delivery |-> IF pending[d] = s THEN t ELSE pending[d]]

Answer(r) == req' = [req EXCEPT ![r] = Answered]

-----------------------------------------------------------------------------
(* mergeIssue                                                              *)

MergeOpen(r, s, t) ==
  /\ KindOf[r] = "merge" /\ req[r].phase = "new"
  /\ s # t /\ Exists(s) /\ Exists(t)
  /\ req' = [req EXCEPT ![r] = [@ EXCEPT !.phase = "open", !.source = s, !.target = t]]
  /\ UNCHANGED <<store, del, flush>>

\* The row a merge locks next: "select ... order by id for update".
Unheld(r) == {req[r].source, req[r].target} \ req[r].held
NextAsGiven(r) == IF req[r].source \in Unheld(r) THEN {req[r].source} ELSE Unheld(r)  \* mutant
NextToLock(r) == {i \in Unheld(r) : \A j \in Unheld(r) : i <= j}

MergeLock(r) ==
  /\ KindOf[r] = "merge" /\ req[r].phase = "open"
  /\ \E i \in NextToLock(r) :
       /\ CanLockForUpdate(i)
       /\ req' = [req EXCEPT ![r] = [@ EXCEPT !.held = req[r].held \union {i}]]
  /\ UNCHANGED <<store, del, flush>>

\* The rows as they are under the locks; a merged one is refused.
MergeRead(r) ==
  /\ KindOf[r] = "merge" /\ req[r].phase = "open"
  /\ Unheld(r) = {}
  /\ IF issue[req[r].source].into # None \/ issue[req[r].target].into # None
     THEN Answer(r)
     ELSE req' = [req EXCEPT ![r] =
                    [@ EXCEPT !.phase = "ready", !.sawSource = issue[req[r].source],
                              !.sawTarget = issue[req[r].target]]]
  /\ UNCHANGED <<store, del, flush>>

\* Events, followers and pending rows of the source move to the target.
MergeCommit(r) ==
  LET s == req[r].source
      t == req[r].target
      Origin(d) == IF event[d].from = None THEN s ELSE event[d].from
  IN
  /\ KindOf[r] = "merge" /\ req[r].phase = "ready"
  /\ \A i \in MergedInto(s) : CanUpdate(i)
  /\ event' = [d \in Delivery |->
                 IF event[d].issue = s THEN [issue |-> t, from |-> Origin(d)] ELSE event[d]]
  /\ pending' = PendingMoved(s, t)
  /\ issue' = [i \in Issue |->
                 IF i = s THEN [issue[i] EXCEPT !.status = "merged", !.into = t]
                 ELSE IF i = t THEN [issue[i] EXCEPT !.seen = req[r].sawTarget.seen + req[r].sawSource.seen]
                 ELSE IF i \in MergedInto(s) THEN [issue[i] EXCEPT !.into = t]
                 ELSE issue[i]]
  /\ Answer(r)
  /\ UNCHANGED <<del, flush>>

-----------------------------------------------------------------------------
(* unmergeIssue                                                            *)

\* The target is read before the transaction.
UnmergeRead(r, s) ==
  /\ KindOf[r] = "unmerge" /\ req[r].phase = "new"
  /\ Exists(s) /\ issue[s].into # None
  /\ req' = [req EXCEPT ![r] = [@ EXCEPT !.phase = "open", !.source = s, !.target = issue[s].into]]
  /\ UNCHANGED <<store, del, flush>>

\* flushIn starts: its snapshot is older than the lock it waits for.
FlushInStart(r) ==
  /\ KindOf[r] = "unmerge" /\ req[r].phase = "open"
  /\ req' = [req EXCEPT ![r] = [@ EXCEPT !.phase = "flush", !.took = PendingOf(req[r].target)]]
  /\ UNCHANGED <<store, del, flush>>

\* flushIn has the row of the target; rows that another flush took are gone.
FlushIn(r) ==
  LET t == req[r].target IN
  /\ KindOf[r] = "unmerge" /\ req[r].phase = "flush"
  /\ CanUpdate(t)
  /\ req' = [req EXCEPT ![r] = [@ EXCEPT !.phase = "flushed", !.held = {t},
                                         !.took = req[r].took \intersect PendingOf(t)]]
  /\ UNCHANGED <<store, del, flush>>

\* The source is opened again: its row is locked.
Restore(r) ==
  /\ KindOf[r] = "unmerge" /\ req[r].phase = "flushed"
  /\ CanUpdate(req[r].source)
  /\ req' = [req EXCEPT ![r] = [@ EXCEPT !.phase = "ready", !.held = req[r].held \union {req[r].source}]]
  /\ UNCHANGED <<store, del, flush>>

\* recomputeIssueStats counts what the two issues hold now, pending or not.
UnmergeCommit(r) ==
  LET s == req[r].source
      t == req[r].target
      took == req[r].took
      moved == {d \in EventsOf(t) : event[d].from = s}
      back == Cardinality(moved)
  IN
  /\ KindOf[r] = "unmerge" /\ req[r].phase = "ready"
  /\ event' = [d \in Delivery |-> IF d \in moved THEN [issue |-> s, from |-> None] ELSE event[d]]
  /\ pending' = [d \in Delivery |->
                   IF d \in took THEN None
                   ELSE IF pending[d] = t /\ d \in moved THEN s
                   ELSE pending[d]]
  /\ issue' = [i \in Issue |->
                 IF i = s THEN [status |-> "open", into |-> None,
                                seen |-> AtLeast(issue[s].seen, Cardinality(EventsOf(s) \union moved))]
                 ELSE IF i = t THEN [issue[t] EXCEPT !.seen =
                                       AtLeast(issue[t].seen + Cardinality(took) - back,
                                               Cardinality(EventsOf(t) \ moved))]
                 ELSE issue[i]]
  /\ Answer(r)
  /\ UNCHANGED <<del, flush>>

-----------------------------------------------------------------------------
(* updateStatus and bulkUpdateStatus                                       *)

StatusRead(r, i) ==
  /\ KindOf[r] = "status" /\ req[r].phase = "new"
  /\ Exists(i) /\ issue[i].into = None
  /\ req' = [req EXCEPT ![r] = [@ EXCEPT !.phase = "read", !.source = i]]
  /\ UNCHANGED <<store, del, flush>>

\* The update asks for the issue by its id alone.
StatusWrite(r, status) ==
  /\ KindOf[r] = "status" /\ req[r].phase = "read"
  /\ CanUpdate(req[r].source)
  /\ issue' = [issue EXCEPT ![req[r].source].status = status]
  /\ Answer(r)
  /\ UNCHANGED <<event, pending, del, flush>>

\* The update leaves merged issues out.
BulkStatus(r, chosen, status) ==
  /\ KindOf[r] = "status" /\ req[r].phase = "new"
  /\ \A i \in chosen : Exists(i) /\ CanUpdate(i)
  /\ issue' = [i \in Issue |->
                 IF i \in chosen /\ issue[i].into = None THEN [issue[i] EXCEPT !.status = status]
                 ELSE issue[i]]
  /\ Answer(r)
  /\ UNCHANGED <<event, pending, del, flush>>

-----------------------------------------------------------------------------
\* A statement fails, a deadlock is broken or the process dies.
RequestFails(r) ==
  /\ req[r].phase \notin {"new", "done"}
  /\ Answer(r)
  /\ UNCHANGED <<store, del, flush>>

Ask(r) ==
  \/ \E s, t \in Issue : MergeOpen(r, s, t)
  \/ \E s \in Issue : UnmergeRead(r, s) \/ StatusRead(r, s)
  \/ \E chosen \in SUBSET Issue \ {{}} : \E status \in UserStatus : BulkStatus(r, chosen, status)

RequestStep(r) ==
  \/ MergeLock(r) \/ MergeRead(r) \/ MergeCommit(r)
  \/ FlushInStart(r) \/ FlushIn(r) \/ Restore(r) \/ UnmergeCommit(r)
  \/ \E status \in UserStatus : StatusWrite(r, status)
=============================================================================
