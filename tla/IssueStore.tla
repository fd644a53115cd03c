----------------------------- MODULE IssueStore -----------------------------
(***************************************************************************)
(* The tables that ingest, the batched counts and the issue workflow       *)
(* share: issues, events and issue_pending_counts, with the locks that     *)
(* PostgreSQL takes on the rows of issues at READ COMMITTED.               *)
(*                                                                         *)
(* The variables hold committed rows.  What an open transaction has        *)
(* written is in the state of its process until it commits, together with  *)
(* the locks it holds from the statement that took them to the commit.     *)
(* Each statement of a transaction reads what is committed when it starts. *)
(*                                                                         *)
(* issues has a unique index on the grouping key, so that an issue is      *)
(* named by its key here.  No issue or event is deleted: retention, which  *)
(* does, is not part of this model.                                        *)
(***************************************************************************)
EXTENDS Integers, FiniteSets

CONSTANTS
  Issue,      \* grouping keys, as numbers: row ids are ordered
  EventId,    \* the event_id an SDK gives an event
  Delivery,   \* requests that carry an event; an SDK may send one twice
  IdOf,       \* the event each delivery carries
  GroupOf,    \* the grouping key of each event
  Earlier,    \* deliveries committed and counted before the behaviour starts
  Request,    \* requests of users that change issues
  KindOf,     \* what each request asks for
  Sweeper,    \* the issue_counts_sweep job
  None,
  MaxRounds   \* MAX_FLUSH_ROUNDS

ASSUME IssueStoreAssumption ==
  /\ Issue \subseteq Nat
  /\ IdOf \in [Delivery -> EventId]
  /\ GroupOf \in [EventId -> Issue]
  /\ Earlier \subseteq Delivery
  /\ \A d, e \in Earlier : IdOf[d] = IdOf[e] => d = e
  /\ KindOf \in [Request -> {"merge", "unmerge", "status"}]
  /\ None \notin Issue
  /\ Sweeper \notin Delivery
  /\ Delivery \intersect Request = {}
  /\ IsFiniteSet(Delivery)
  /\ MaxRounds \in Nat \ {0}

VARIABLES
  issue,    \* issues: status, mergedIntoIssueId, timesSeen
  event,    \* events: the row of each delivery, its issue and mergedFromIssueId
  pending,  \* issue_pending_counts: the issue each event is still to be counted on
  del,      \* the transaction of each delivery
  flush,    \* the flushes of a delivery after its commit, and of the sweep
  req       \* the transaction of each request

store == <<issue, event, pending>>
vars == <<issue, event, pending, del, flush, req>>

Flusher == Delivery \union {Sweeper}
Group(d) == GroupOf[IdOf[d]]

IssueStatus == {"absent", "open", "resolved", "ignored", "merged"}
IssueRow == [status : IssueStatus, into : Issue \union {None}, seen : Nat]
EventRow == [issue : Issue \union {None}, from : Issue \union {None}]

NoIssue == [status |-> "absent", into |-> None, seen |-> 0]
NoEvent == [issue |-> None, from |-> None]

Exists(i) == issue[i].status # "absent"
Stored(d) == event[d].issue # None
EventsOf(i) == {d \in Delivery : event[d].issue = i}
PendingOf(i) == {d \in Delivery : pending[d] = i}

-----------------------------------------------------------------------------
(* Row locks on issues.  A pending row takes a key share lock on its issue *)
(* through the foreign key; an update takes "no key update", as a flush    *)
(* asks for; a merge takes "for update".                                   *)

KeyShare(i) == {d \in Delivery : del[d].phase = "ready" /\ del[d].way = "pending" /\ del[d].to = i}
NoKeyUpdate(i) ==
  {d \in Delivery : del[d].phase = "ready" /\ del[d].way \in {"update", "merged"} /\ del[d].to = i}
    \union {f \in Flusher : flush[f].at = i}
    \union {r \in Request : KindOf[r] = "unmerge" /\ i \in req[r].held}
ForUpdate(i) == {r \in Request : KindOf[r] = "merge" /\ i \in req[r].held}

CanReference(i) == ForUpdate(i) = {}
CanUpdate(i) == NoKeyUpdate(i) = {} /\ ForUpdate(i) = {}
CanLockForUpdate(i) == CanUpdate(i) /\ KeyShare(i) = {}
=============================================================================
