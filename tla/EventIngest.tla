---------------------------- MODULE EventIngest ----------------------------
(***************************************************************************)
(* IngestService.persistEvent: one delivery of an event, from the check    *)
(* outside the transaction to the commit, and the flush that follows it.   *)
(* Parsing, policies and quotas come before and are left out; the          *)
(* post-ingest job comes after and is left out.                            *)
(***************************************************************************)
EXTENDS IssueCounts

DeliveryPhase == {"new", "open", "locked", "unique", "insert", "found", "ready", "done"}
Way == {"none", "create", "update", "merged", "pending"}
DeliveryState == [phase : DeliveryPhase, saw : IssueRow, way : Way,
                  to : Issue \union {None}, status : IssueStatus]

Ended == [phase |-> "done", saw |-> NoIssue, way |-> "none", to |-> None, status |-> "absent"]
Arriving == [Ended EXCEPT !.phase = "new"]

InTransaction(d) == del[d].phase \notin {"new", "done"}
Duplicate(d) == \E e \in Delivery : Stored(e) /\ IdOf[e] = IdOf[d]

\* The holder of the advisory lock on the event id.
HoldsEvent(d) == del[d].phase \in {"locked", "unique", "insert", "found", "ready"}

GoTo(d, phase) == del' = [del EXCEPT ![d].phase = phase]
Reads(d) == del' = [del EXCEPT ![d] = [@ EXCEPT !.phase = "found", !.saw = issue[Group(d)]]]
Writes(d, way, to, status) ==
  del' = [del EXCEPT ![d] =
            [@ EXCEPT !.phase = "ready", !.way = way, !.to = to, !.status = status]]

\* findExistingEvent outside the transaction.
Receive(d) ==
  /\ del[d].phase = "new"
  /\ del' = [del EXCEPT ![d] = IF Duplicate(d) THEN Ended ELSE [@ EXCEPT !.phase = "open"]]
  /\ UNCHANGED <<store, flush, req>>

\* Mutant: the advisory lock is not taken.
TakeNoLock(d) ==
  /\ del[d].phase = "open"
  /\ GoTo(d, "locked")
  /\ UNCHANGED <<store, flush, req>>

\* pg_advisory_xact_lock.
LockEvent(d) ==
  /\ del[d].phase = "open"
  /\ \A e \in Delivery : HoldsEvent(e) => IdOf[e] # IdOf[d]
  /\ GoTo(d, "locked")
  /\ UNCHANGED <<store, flush, req>>

\* findExistingEvent again, under the lock.
CheckAgain(d) ==
  /\ del[d].phase = "locked"
  /\ del' = [del EXCEPT ![d] = IF Duplicate(d) THEN Ended ELSE [@ EXCEPT !.phase = "unique"]]
  /\ UNCHANGED <<store, flush, req>>

\* upsertIssue looks the issue up by its key.
FindIssue(d) ==
  /\ del[d].phase = "unique"
  /\ IF Exists(Group(d)) THEN Reads(d) ELSE GoTo(d, "insert")
  /\ UNCHANGED <<store, flush, req>>

\* The insert waits for another transaction that inserted the key; when that
\* one commits, nothing is inserted and the issue is looked up again.
InsertIssue(d) ==
  /\ del[d].phase = "insert"
  /\ \A e \in Delivery :
       (del[e].phase = "ready" /\ del[e].way = "create") => Group(e) # Group(d)
  /\ IF Exists(Group(d)) THEN Reads(d) ELSE Writes(d, "create", Group(d), "open")
  /\ UNCHANGED <<store, flush, req>>

\* updateExistingIssue, the issue having been merged: the target is counted.
CountOnTarget(d) ==
  /\ del[d].phase = "found" /\ del[d].saw.into # None
  /\ CanUpdate(del[d].saw.into)
  /\ Writes(d, "merged", del[d].saw.into, del[d].saw.status)
  /\ UNCHANGED <<store, flush, req>>

\* The event changes nothing but the counters: a pending row.
CountLater(d) ==
  /\ del[d].phase = "found" /\ del[d].saw.into = None
  /\ CanReference(Group(d))
  /\ Writes(d, "pending", Group(d), del[d].saw.status)
  /\ UNCHANGED <<store, flush, req>>

\* The event reopens the issue, or brings a new release, environment or
\* assignee: the row is written with what was read of the other columns.
UpdateIssue(d, reopen) ==
  /\ del[d].phase = "found" /\ del[d].saw.into = None
  /\ reopen => del[d].saw.status \in {"resolved", "ignored"}
  /\ CanUpdate(Group(d))
  /\ Writes(d, "update", Group(d), IF reopen THEN "open" ELSE del[d].saw.status)
  /\ UNCHANGED <<store, flush, req>>

\* The row the transaction leaves behind.
Written(d) ==
  LET i == del[d].to
      way == del[d].way
  IN
  IF way = "create" THEN [status |-> "open", into |-> None, seen |-> 1]
  ELSE [issue[i] EXCEPT !.seen = IF way = "pending" THEN @ ELSE @ + 1,
                        !.status = IF way = "update" THEN del[d].status ELSE @]

Commit(d) ==
  LET i == del[d].to IN
  /\ del[d].phase = "ready"
  /\ issue' = [issue EXCEPT ![i] = Written(d)]
  /\ event' = [event EXCEPT ![d] =
                 [issue |-> i, from |-> IF del[d].way = "merged" THEN Group(d) ELSE None]]
  /\ pending' = [pending EXCEPT ![d] = IF del[d].way = "pending" THEN i ELSE None]
  /\ del' = [del EXCEPT ![d] = Ended]
  /\ flush' = [flush EXCEPT ![d].todo = {i}]
  /\ UNCHANGED req

\* A statement fails, a deadlock is broken or the process dies: rollback.
Rollback(d) ==
  /\ InTransaction(d)
  /\ del' = [del EXCEPT ![d] = Ended]
  /\ UNCHANGED <<store, flush, req>>

DeliveryStep(d) ==
  \/ LockEvent(d) \/ CheckAgain(d) \/ FindIssue(d) \/ InsertIssue(d)
  \/ CountOnTarget(d) \/ CountLater(d)
  \/ \E reopen \in BOOLEAN : UpdateIssue(d, reopen)
  \/ Commit(d)
=============================================================================
