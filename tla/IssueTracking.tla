---------------------------- MODULE IssueTracking ----------------------------
(***************************************************************************)
(* Events arrive, counts are flushed and users merge, unmerge and close    *)
(* issues, over the tables of IssueStore.                                  *)
(***************************************************************************)
EXTENDS IssueWorkflow

Init ==
  /\ issue = [i \in Issue |->
                LET n == Cardinality({d \in Earlier : Group(d) = i}) IN
                IF n = 0 THEN NoIssue ELSE [status |-> "open", into |-> None, seen |-> n]]
  /\ event = [d \in Delivery |->
                IF d \in Earlier THEN [issue |-> Group(d), from |-> None] ELSE NoEvent]
  /\ pending = [d \in Delivery |-> None]
  /\ del = [d \in Delivery |-> IF d \in Earlier THEN Ended ELSE Arriving]
  /\ flush = [f \in Flusher |-> NotFlushing]
  /\ req = [r \in Request |-> NewRequest]

Next ==
  \/ \E d \in Delivery : Receive(d) \/ DeliveryStep(d) \/ Rollback(d)
  \/ \E f \in Flusher : FlushStep(f) \/ FlushFails(f)
  \/ SweepStart
  \/ \E r \in Request : Ask(r) \/ RequestStep(r) \/ RequestFails(r)

Spec == Init /\ [][Next]_vars

(***************************************************************************)
(* A statement that can run runs, or its transaction is rolled back: no    *)
(* transaction keeps its locks.  The sweep is a recurring job: it starts   *)
(* again as long as rows are pending, and does not fail for ever.          *)
(***************************************************************************)
Fairness ==
  /\ \A d \in Delivery : WF_vars(DeliveryStep(d) \/ Rollback(d))
  /\ \A d \in Delivery : WF_vars(FlushStep(d) \/ FlushFails(d))
  /\ \A r \in Request : WF_vars(RequestStep(r) \/ RequestFails(r))
  /\ WF_vars(SweepStart)
  /\ \A i \in Issue : SF_vars(FlushTake(Sweeper, i))
  /\ SF_vars(FlushCommit(Sweeper))

FairSpec == Spec /\ Fairness

-----------------------------------------------------------------------------
TypeOK ==
  /\ issue \in [Issue -> IssueRow]
  /\ event \in [Delivery -> EventRow]
  /\ pending \in [Delivery -> Issue \union {None}]
  /\ del \in [Delivery -> DeliveryState]
  /\ flush \in [Flusher -> FlushState]
  /\ req \in [Request -> RequestState]

\* However the deliveries of one event interleave, with retries of the SDK
\* among them, the event is stored once: no unique index guards event_id, the
\* advisory lock and the second look do.
EventStoredOnce ==
  \A d, e \in Delivery : Stored(d) /\ Stored(e) /\ IdOf[d] = IdOf[e] => d = e

\* An issue is merged into one that is not itself merged, which is what lets
\* ingest follow mergedIntoIssueId one step only.
ChainFlat == \A i \in Issue : issue[i].into # None => issue[issue[i].into].into = None

\* Merges of the same issues, in either direction, lock them in one order: the
\* locks they take first never make two of them wait for each other.
WaitsFor(r, q) ==
  /\ KindOf[r] = "merge" /\ KindOf[q] = "merge"
  /\ req[r].phase = "open" /\ req[r].held # {}
  /\ NextToLock(r) \intersect req[q].held # {}
MergesNeverDeadlock == \A r, q \in Request : ~(WaitsFor(r, q) /\ WaitsFor(q, r))

\* Whatever merges and unmerges do between an event and its flush, the event
\* is counted on the issue that holds it.
CountFollowsEvent == \A d \in Delivery : pending[d] # None => pending[d] = event[d].issue

\* No event is lost to the counts, by any interleaving of flushes, merges and
\* unmerges: what an issue has counted and what is still to be counted on it
\* make up at least its events.
NeverUndercounted ==
  \A i \in Issue : issue[i].seen + Cardinality(PendingOf(i)) >= Cardinality(EventsOf(i))

\* While no unmerge has run, nothing is counted twice either.
CountsExact ==
  (\A r \in Request : KindOf[r] = "unmerge" => req[r].phase # "done")
    => \A i \in Issue : issue[i].into = None =>
         issue[i].seen + Cardinality(PendingOf(i)) = Cardinality(EventsOf(i))

\* A count that a flush skipped, or that a crashed process left, is swept.
EventuallyCounted == \A d \in Delivery : (pending[d] # None) ~> (pending[d] = None)

-----------------------------------------------------------------------------
(* What the comments and messages of the code say, and the races break.    *)

\* "A flush then folds every pending row of the issue": an event is counted
\* once, on an issue that is not merged.
CountedOnce ==
  \A i \in Issue : issue[i].into = None =>
    issue[i].seen + Cardinality(PendingOf(i)) <= Cardinality(EventsOf(i))

\* "So new events never land on an issue in merged status."
NeverLandsOnMerged ==
  [][\A d \in Delivery : (~Stored(d) /\ Stored(d)') => issue[event'[d].issue].into = None]_vars

\* "Unmerge this issue before changing its status."
MergedStatusKept == \A i \in Issue : issue[i].into # None => issue[i].status = "merged"
=============================================================================
