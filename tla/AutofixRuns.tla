----------------------------- MODULE AutofixRuns -----------------------------
(***************************************************************************)
(* Autofix: a run analyses an issue, then writes a fix, pushes it, waits   *)
(* for the CI of the repository and opens a pull request.                  *)
(*                                                                         *)
(* A run is a row that requests create and two kinds of jobs move on: one  *)
(* executes the analysis or the fix, the other polls CI.  Every strand of  *)
(* this works on the row it has read and writes by id, with two exceptions *)
(* (the claim of a queued run and the start of a fix).  An execution that  *)
(* timed out is not stopped: it goes on as a ghost beside its worker.      *)
(***************************************************************************)
EXTENDS ServiceJobs, FiniteSets

CONSTANTS
  AutofixRun,   \* rows
  Issue,
  Request,      \* requests and automatic triggers under way
  Branch        \* pushed branches, each with its one commit

ASSUME AutofixAssumption ==
  None \notin AutofixRun \union Issue \union Branch

VARIABLES
  arun,      \* autofix_runs
  task,      \* the payload of each job
  request,   \* each request
  strand,    \* what the handler at each place is doing
  ghost,     \* an execution that timed out there and goes on
  ci,        \* what CI says of each branch
  expired,   \* branches whose checks deadline has passed
  opened,    \* branches with a pull request
  merged,    \* branches that were merged automatically
  cut,       \* history: runs whose handling a fault cut off
  overran    \* history: runs with an execution that timed out

repository == <<ci, expired, opened, merged>>
vars == <<queue, arun, task, request, strand, ghost, repository, cut, overran>>

InFlightStatus == {"queued", "running", "checking"}
Status == {"none", "analyzed", "succeeded", "failed"} \union InFlightStatus
RunRow == [status : Status, phase : {"analysis", "fix"}, analysis : BOOLEAN,
           issue : Issue \union {None}, branch : Branch \union {None},
           pr : Branch \union {None}]
Task == [kind : {"none", "autofix", "checks"}, run : AutofixRun \union {None}]
RequestState == [pc : {"idle", "restart", "enqueue"},
                 run : AutofixRun \union {None}, seen : Status]
Executing == {"work", "after", "restart", "requeue", "schedule"}
Checking == {"poll", "open", "merge", "opened", "note"}
Strand == [pc : {"start", "fail", "end"} \union Executing \union Checking,
           run : AutofixRun \union {None}, phase : {"analysis", "fix"},
           branch : Branch \union {None}, verified : BOOLEAN, seen : Status]

NoRunRow == [status |-> "none", phase |-> "analysis", analysis |-> FALSE,
             issue |-> None, branch |-> None, pr |-> None]
NoTask == [kind |-> "none", run |-> None]
Idle == [pc |-> "idle", run |-> None, seen |-> "none"]
Start == [pc |-> "start", run |-> None, phase |-> "analysis", branch |-> None,
          verified |-> FALSE, seen |-> "none"]
Ended == [Start EXCEPT !.pc = "end"]
Of(pc, r) == [Start EXCEPT !.pc = pc, !.run = r]

TypeOK ==
  /\ QueueTypeOK
  /\ arun \in [AutofixRun -> RunRow]
  /\ task \in [Job -> Task]
  /\ request \in [Request -> RequestState]
  /\ strand \in [Worker -> Strand] /\ ghost \in [Worker -> Strand]
  /\ ci \in [Branch -> {"unpushed", "none", "pending", "success", "failure"}]
  /\ expired \subseteq Branch /\ opened \subseteq Branch /\ merged \subseteq Branch
  /\ cut \subseteq AutofixRun /\ overran \subseteq AutofixRun

Init ==
  /\ QueueInit
  /\ arun = [r \in AutofixRun |-> NoRunRow]
  /\ task = [j \in Job |-> NoTask]
  /\ request = [q \in Request |-> Idle]
  /\ strand = [w \in Worker |-> Start] /\ ghost = [w \in Worker |-> Start]
  /\ ci = [b \in Branch |-> "unpushed"]
  /\ expired = {} /\ opened = {} /\ merged = {}
  /\ cut = {} /\ overran = {}

-----------------------------------------------------------------------------
(* The tables.                                                             *)

InFlight(r) == arun[r].status \in InFlightStatus

\* The partial unique index on the issue of runs in flight.
IndexRefuses(r, issue) ==
  \E s \in AutofixRun \ {r} : InFlight(s) /\ arun[s].issue = issue

\* Mutant: a dedupe key per run, which a poll that schedules the next one
\* still holds itself.
EnqueueOnce(kind, r) ==
  IF \E j \in Job : Live(j) /\ task[j] = [kind |-> kind, run |-> r]
  THEN UNCHANGED <<job, task>>
  ELSE \E j \in Job :
         /\ job[j].state = "absent"
         /\ job' = Enqueued({j})
         /\ task' = [task EXCEPT ![j] = [kind |-> kind, run |-> r]]

\* An insert into jobs without a dedupe key: a row of its own.
Enqueue(kind, r) ==
  \E j \in Job :
    /\ job[j].state = "absent"
    /\ job' = Enqueued({j})
    /\ task' = [task EXCEPT ![j] = [kind |-> kind, run |-> r]]

\* The conditions of startFix on the row it has read.
FixAllowed(row) ==
  /\ row.analysis
  /\ row.status = "analyzed" \/ (row.phase = "fix" /\ row.status = "failed")

\* Mutant: the update of startFix selects by id alone.
RestartsById(r, seen) == arun[r].status # "none" /\ ~IndexRefuses(r, arun[r].issue)

\* The update of startFix finds the row as it was read, and the index agrees.
Restarts(r, seen) == arun[r].status = seen /\ ~IndexRefuses(r, arun[r].issue)

Restart(r) ==
  arun' = [arun EXCEPT ![r] = [NoRunRow EXCEPT !.status = "queued", !.phase = "fix",
                                               !.analysis = arun[r].analysis,
                                               !.issue = arun[r].issue]]

-----------------------------------------------------------------------------
(* Requests: trigger and startFix, whose job is enqueued by a statement of *)
(* its own after the row is written.                                       *)

RequestBecomes(q, new) == request' = [request EXCEPT ![q] = new]
KeepWork == UNCHANGED <<run, faults, strand, ghost, repository, cut, overran>>

\* trigger: the index refuses a second run in flight of the issue.  The caps
\* of a day, the budget and the settings only add reasons to refuse.
Trigger(q, r, i) ==
  /\ request[q] = Idle
  /\ arun[r].status = "none" /\ ~IndexRefuses(r, i)
  /\ arun' = [arun EXCEPT ![r] = [NoRunRow EXCEPT !.status = "queued", !.issue = i]]
  /\ RequestBecomes(q, [Idle EXCEPT !.pc = "enqueue", !.run = r])
  /\ UNCHANGED <<job, task>> /\ KeepWork

AskForFix(q, r) ==
  /\ request[q] = Idle
  /\ FixAllowed(arun[r])
  /\ RequestBecomes(q, [pc |-> "restart", run |-> r, seen |-> arun[r].status])
  /\ UNCHANGED <<job, arun, task>> /\ KeepWork

RequestRestarts(q) ==
  /\ request[q].pc = "restart"
  /\ LET r == request[q].run
     IN IF Restarts(r, request[q].seen)
        THEN Restart(r) /\ RequestBecomes(q, [Idle EXCEPT !.pc = "enqueue", !.run = r])
        ELSE RequestBecomes(q, Idle) /\ UNCHANGED arun
  /\ UNCHANGED <<job, task>> /\ KeepWork

RequestEnqueues(q) ==
  /\ request[q].pc = "enqueue"
  /\ Enqueue("autofix", request[q].run)
  /\ RequestBecomes(q, Idle)
  /\ UNCHANGED arun /\ KeepWork

\* The request fails, or its process dies, before it has enqueued the job.
RequestDies(q) ==
  /\ request[q].pc = "enqueue"
  /\ Fault
  /\ cut' = cut \union {request[q].run}
  /\ RequestBecomes(q, Idle)
  /\ UNCHANGED <<job, run, arun, task, strand, ghost, repository, overran>>

-----------------------------------------------------------------------------
(* The job that executes a run.                                            *)

KeepRepository == UNCHANGED repository
KeepRest == UNCHANGED <<run, faults, request, cut, overran>>

Handles(w, kind) ==
  strand[w].pc = "start" /\ run[w].job # None /\ task[run[w].job].kind = kind

\* Mutant: a second run of the job takes over a run that is running.
ClaimRunAgain(w) ==
  /\ Handles(w, "autofix")
  /\ LET r == task[run[w].job].run
     IN /\ arun[r].status \in {"queued", "running"}
        /\ arun' = [arun EXCEPT ![r].status = "running"]
        /\ strand' = [strand EXCEPT ![w] = [Of("work", r) EXCEPT !.phase = arun[r].phase]]
  /\ UNCHANGED <<job, task, ghost>> /\ KeepRepository /\ KeepRest

\* Claiming the queued row makes a second run of the same job a no-op.
ClaimRun(w) ==
  /\ Handles(w, "autofix")
  /\ LET r == task[run[w].job].run
     IN IF arun[r].status = "queued"
        THEN /\ arun' = [arun EXCEPT ![r].status = "running"]
             /\ strand' = [strand EXCEPT ![w] = [Of("work", r) EXCEPT !.phase = arun[r].phase]]
        ELSE strand' = [strand EXCEPT ![w] = Ended] /\ UNCHANGED arun
  /\ UNCHANGED <<job, task, ghost>> /\ KeepRepository /\ KeepRest

\* execute is stepped by the handler itself or, once it timed out, alone.
At(ghostly, w) == IF ghostly THEN ghost[w] ELSE strand[w]
Becomes(ghostly, w, new) ==
  IF ghostly THEN ghost' = [ghost EXCEPT ![w] = new] /\ UNCHANGED strand
             ELSE strand' = [strand EXCEPT ![w] = new] /\ UNCHANGED ghost
Completes(ghostly, w) == Becomes(ghostly, w, IF ghostly THEN Start ELSE Ended)

\* What a ghost throws nobody catches; the handler fails the run.
Rejects(ghostly, w) ==
  Becomes(ghostly, w, IF ghostly THEN Start ELSE Of("fail", strand[w].run))

\* Anything up to the first write may throw: a missing issue, connection, key
\* or budget, the agent, no changes.
WorkThrows(g, w) ==
  /\ At(g, w).pc = "work"
  /\ Rejects(g, w)
  /\ UNCHANGED <<job, arun, task>> /\ KeepRepository /\ KeepRest

WorkAnalyses(g, w) ==
  /\ At(g, w).pc = "work" /\ At(g, w).phase = "analysis"
  /\ arun' = [arun EXCEPT ![At(g, w).run].status = "analyzed",
                          ![At(g, w).run].analysis = TRUE]
  /\ Becomes(g, w, Of("after", At(g, w).run))
  /\ UNCHANGED <<job, task>> /\ KeepRepository /\ KeepRest

\* autoFixAfterAnalysis goes on with startFix, which may refuse.
AfterAnalysis(g, w) ==
  /\ At(g, w).pc = "after"
  /\ LET r == At(g, w).run
     IN \/ Completes(g, w)
        \/ /\ FixAllowed(arun[r])
           /\ Becomes(g, w, [Of("restart", r) EXCEPT !.seen = arun[r].status])
  /\ UNCHANGED <<job, arun, task>> /\ KeepRepository /\ KeepRest

AutoRestarts(g, w) ==
  /\ At(g, w).pc = "restart"
  /\ LET r == At(g, w).run
     IN IF Restarts(r, At(g, w).seen)
        THEN Restart(r) /\ Becomes(g, w, Of("requeue", r))
        ELSE Completes(g, w) /\ UNCHANGED arun
  /\ UNCHANGED <<job, task>> /\ KeepRepository /\ KeepRest

AutoEnqueues(g, w) ==
  /\ At(g, w).pc = "requeue"
  /\ Enqueue("autofix", At(g, w).run)
  /\ Completes(g, w)
  /\ UNCHANGED arun /\ KeepRepository /\ KeepRest

\* The push and the update to "checking", by id, that follows it: a branch
\* without its row is seen by nobody.  The branch is new for each attempt.
\* Only the index can refuse the update.
WorkPushes(g, w, b) ==
  /\ At(g, w).pc = "work" /\ At(g, w).phase = "fix"
  /\ ci[b] = "unpushed"
  /\ LET r == At(g, w).run
     IN IF IndexRefuses(r, arun[r].issue)
        THEN Rejects(g, w) /\ UNCHANGED <<arun, ci>>
        ELSE /\ ci' = [ci EXCEPT ![b] = "none"]
             /\ arun' = [arun EXCEPT ![r].status = "checking", ![r].branch = b]
             /\ Becomes(g, w, Of("schedule", r))
  /\ UNCHANGED <<job, task, expired, opened, merged>> /\ KeepRest

ScheduleFirst(g, w) ==
  /\ At(g, w).pc = "schedule"
  /\ Enqueue("checks", At(g, w).run)
  /\ Completes(g, w)
  /\ UNCHANGED arun /\ KeepRepository /\ KeepRest

\* withTimeout rejects: the handler fails the run, the execution goes on.
TimesOut(w) ==
  /\ strand[w].pc \in Executing /\ ghost[w] = Start
  /\ Fault
  /\ ghost' = [ghost EXCEPT ![w] = strand[w]]
  /\ strand' = [strand EXCEPT ![w] = Of("fail", strand[w].run)]
  /\ overran' = overran \union {strand[w].run}
  /\ UNCHANGED <<job, run, arun, task, request, cut>> /\ KeepRepository

\* fail writes by id alone.
FailRun(w) ==
  /\ strand[w].pc = "fail"
  /\ arun' = [arun EXCEPT ![strand[w].run].status = "failed"]
  /\ strand' = [strand EXCEPT ![w] = Ended]
  /\ UNCHANGED <<job, task, ghost>> /\ KeepRepository /\ KeepRest

-----------------------------------------------------------------------------
(* The job that polls CI.                                                  *)

ReadRun(w) ==
  /\ Handles(w, "checks")
  /\ LET r == task[run[w].job].run
     IN strand' = [strand EXCEPT ![w] =
          IF arun[r].status = "checking"
          THEN [Of("poll", r) EXCEPT !.branch = arun[r].branch]
          ELSE Ended]
  /\ UNCHANGED <<job, arun, task, ghost>> /\ KeepRepository /\ KeepRest

\* Mutant: checks that have not failed are as good as passed.
DecisionHasty(checks, late) ==
  IF checks = "failure" THEN {"fail"} ELSE {"open verified"}

\* checksDecision.  When nothing was reported and the grace for that is over,
\* it depends on requirePassingChecks.
Decision(checks, late) ==
  IF checks = "success" THEN {"open verified"}
  ELSE IF checks = "failure" THEN {"fail"}
  ELSE {IF late THEN "fail" ELSE "again"}
         \union (IF checks = "none" THEN {"open", "fail"} ELSE {})

\* The connection was removed or CI cannot be read, for good or for now.
Unreadable(late) == {"fail"} \union (IF late THEN {} ELSE {"again"})

Poll(w) ==
  /\ strand[w].pc = "poll"
  /\ LET b == strand[w].branch
         late == b \in expired
     IN \E decision \in Decision(ci[b], late) \union Unreadable(late) :
          \/ /\ decision \in {"open", "open verified"}
             /\ strand' = [strand EXCEPT ![w].pc = "open",
                                         ![w].verified = (decision = "open verified")]
             /\ UNCHANGED <<job, task>>
          \/ /\ decision = "fail"
             /\ strand' = [strand EXCEPT ![w] = Of("fail", strand[w].run)]
             /\ UNCHANGED <<job, task>>
          \/ /\ decision = "again"
             /\ Enqueue("checks", strand[w].run)
             /\ strand' = [strand EXCEPT ![w] = Ended]
  /\ UNCHANGED <<arun, ghost>> /\ KeepRepository /\ KeepRest

\* The repository refuses a second pull request for a branch, among others.
OpenPullRequest(w) ==
  /\ strand[w].pc = "open"
  /\ LET b == strand[w].branch
     IN \/ /\ b \notin opened
           /\ opened' = opened \union {b}
           /\ \E pc \in {"opened"} \union (IF strand[w].verified THEN {"merge"} ELSE {}) :
                strand' = [strand EXCEPT ![w].pc = pc, ![w].verified = FALSE]
        \/ strand' = [strand EXCEPT ![w] = Of("fail", strand[w].run)] /\ UNCHANGED opened
  /\ UNCHANGED <<job, arun, task, ghost, ci, expired, merged>> /\ KeepRest

\* Mutant: the branch to merge is read from the row again.
MergeCurrent(w) ==
  /\ strand[w].pc = "merge"
  /\ merged' = merged \union {arun[strand[w].run].branch}
  /\ strand' = [strand EXCEPT ![w].pc = "opened"]
  /\ UNCHANGED <<job, arun, task, ghost, ci, expired, opened>> /\ KeepRest

\* A refused merge leaves the pull request open.
Merge(w) ==
  /\ strand[w].pc = "merge"
  /\ merged' \in {merged, merged \union {strand[w].branch}}
  /\ strand' = [strand EXCEPT ![w].pc = "opened"]
  /\ UNCHANGED <<job, arun, task, ghost, ci, expired, opened>> /\ KeepRest

\* What is left after the update, activity and audit, may fail but not branch.
WriteSucceeded(w) ==
  /\ strand[w].pc = "opened"
  /\ arun' = [arun EXCEPT ![strand[w].run].status = "succeeded",
                          ![strand[w].run].pr = strand[w].branch]
  /\ strand' = [strand EXCEPT ![w] = Of("note", strand[w].run)]
  /\ UNCHANGED <<job, task, ghost>> /\ KeepRepository /\ KeepRest

-----------------------------------------------------------------------------
(* CI, as the code uses it: it may report, and the deadline passes.        *)

\* What becomes of a branch is left out once nobody asks for it any more.
Awaited(b) ==
  \/ \E r \in AutofixRun : arun[r].status = "checking" /\ arun[r].branch = b
  \/ \E w \in Worker : strand[w].branch = b

CiReports(b) ==
  /\ Awaited(b) /\ ci[b] \in {"none", "pending"}
  /\ ci' \in {[ci EXCEPT ![b] = state] : state \in {"pending", "success", "failure"} \ {ci[b]}}
  /\ UNCHANGED <<queue, arun, task, request, strand, ghost, expired, opened, merged,
                 cut, overran>>

DeadlinePasses(b) ==
  /\ Awaited(b) /\ b \notin expired
  /\ expired' = expired \union {b}
  /\ UNCHANGED <<queue, arun, task, request, strand, ghost, ci, opened, merged,
                 cut, overran>>

-----------------------------------------------------------------------------
(* How handlers begin and end.                                             *)

KeepTables == UNCHANGED <<arun, task, request, repository>>
KeepHandlers == UNCHANGED <<strand, ghost, cut, overran>>

Begin(w, j) == Claim(w, j) /\ KeepHandlers /\ KeepTables

\* The row of a job that is done matters to nobody, and serves again.
End(w) ==
  /\ strand[w].pc \in {"end", "note"}
  /\ Leaves(w)
  /\ job' = [job EXCEPT ![run[w].job] = NoRow]
  /\ task' = [task EXCEPT ![run[w].job] = NoTask]
  /\ strand' = [strand EXCEPT ![w] = Start]
  /\ UNCHANGED <<faults, ghost, cut, overran, arun, request, repository>>

\* A statement fails inside the try of run or around openPullRequest: the
\* handler fails the run.  While it starts a fix the error is only logged.
StartingFix == {"restart", "requeue"}
StatementCaught(w) ==
  /\ strand[w].pc \in (Executing \union Checking) \ {"poll"}
  /\ Fault
  /\ cut' = cut \union {strand[w].run}
  /\ strand' = [strand EXCEPT ![w] =
       IF strand[w].pc \in StartingFix THEN Ended ELSE Of("fail", strand[w].run)]
  /\ UNCHANGED <<job, run, ghost, overran>> /\ KeepTables

\* The run whose handling ends with w: the one at hand or, as its job is
\* retried beside its successor, the one whose CI was polled.
CutOff(w) ==
  {strand[w].run, ghost[w].run}
    \union {task[j].run : j \in {i \in {run[w].job} : task[i].kind = "checks"}}

\* Elsewhere the handler throws and the job is retried.
StatementThrows(w) ==
  /\ strand[w].pc \in {"start", "poll", "fail", "end"}
  /\ Breaks(w)
  /\ cut' = cut \union (CutOff(w) \ {None})
  /\ strand' = [strand EXCEPT ![w] = Start]
  /\ UNCHANGED <<ghost, overran>> /\ KeepTables

\* The process dies, and with it what goes on beside the handler.
Die(w) ==
  /\ Dies(w)
  /\ cut' = cut \union (CutOff(w) \ {None})
  /\ strand' = [strand EXCEPT ![w] = Start]
  /\ ghost' = [ghost EXCEPT ![w] = Start]
  /\ UNCHANGED overran /\ KeepTables

Sweep(j) == Swept(j) /\ KeepHandlers /\ KeepTables

RequestStep(q) ==
  \/ \E r \in AutofixRun, i \in Issue : Trigger(q, r, i)
  \/ \E r \in AutofixRun : AskForFix(q, r)
  \/ RequestRestarts(q) \/ RequestEnqueues(q) \/ RequestDies(q)

ExecuteStep(g, w) ==
  \/ WorkThrows(g, w) \/ WorkAnalyses(g, w)
  \/ \E b \in Branch : WorkPushes(g, w, b)
  \/ AfterAnalysis(g, w) \/ AutoRestarts(g, w) \/ AutoEnqueues(g, w) \/ ScheduleFirst(g, w)

HandlerStep(w) ==
  \/ ClaimRun(w) \/ ExecuteStep(FALSE, w) \/ FailRun(w)
  \/ ReadRun(w) \/ Poll(w) \/ OpenPullRequest(w) \/ Merge(w) \/ WriteSucceeded(w)
  \/ End(w)

QueueStep ==
  \/ \E w \in Worker : StatementCaught(w) \/ StatementThrows(w) \/ Die(w)
  \/ \E w \in Worker, j \in Job : Begin(w, j)
  \/ \E j \in Job : Sweep(j)

Next ==
  \/ \E q \in Request : RequestStep(q)
  \/ \E w \in Worker : HandlerStep(w) \/ ExecuteStep(TRUE, w) \/ TimesOut(w)
  \/ \E b \in Branch : CiReports(b) \/ DeadlinePasses(b)
  \/ QueueStep

Spec == Init /\ [][Next]_vars

-----------------------------------------------------------------------------
(* Fairness: requests and workers go on, and deadlines pass.               *)

Fairness ==
  /\ \A q \in Request : WF_vars(RequestRestarts(q) \/ RequestEnqueues(q))
  /\ \A w \in Worker : WF_vars(HandlerStep(w)) /\ WF_vars(ExecuteStep(TRUE, w))
  /\ \A b \in Branch : WF_vars(DeadlinePasses(b))
  /\ \A j \in Job : WF_vars(\E w \in Worker : Begin(w, j)) /\ WF_vars(Sweep(j))

FairSpec == Spec /\ Fairness

-----------------------------------------------------------------------------
(* What autofix promises.                                                  *)

\* Merging is only ever automatic on a commit whose CI passed, whichever
\* branch a retry or a ghost has meanwhile written to the row.
MergedPassedCI == \A b \in merged : ci[b] = "success"

\* A late failure of a handler that a fault cut off, or of an execution that
\* timed out, lands on whatever the run is by then: fail writes by id.
Disturbed == cut \union overran

\* No two handlers execute the same run at once, although jobs are retried
\* and every phase has a job of its own, unless the run was disturbed.
Writing == {"work", "schedule"}
OneExecutionPerRun ==
  \A v, w \in Worker :
    (v # w /\ strand[v].pc \in Writing /\ strand[w].pc \in Writing
       /\ strand[v].run = strand[w].run) => strand[v].run \in Disturbed

\* A run that succeeded shows the pull request of the branch it last pushed,
\* unless it was disturbed.
SucceededShowsItsBranch ==
  \A r \in AutofixRun \ Disturbed :
    arun[r].status = "succeeded" => arun[r].pr = arun[r].branch /\ arun[r].pr \in opened

\* A run in flight blocks its issue, so something must be there to move it on:
\* its job, its handler or the request about to enqueue it, unless the run was
\* disturbed.
HasJob(r, kind) ==
  \E j \in Job : /\ task[j] = [kind |-> kind, run |-> r]
                 /\ job[j].state # "absent"
Handled(r, pcs) == \E w \in Worker : strand[w].run = r /\ strand[w].pc \in pcs
InFlightIsWorkedOn ==
  \A r \in AutofixRun \ Disturbed :
    /\ arun[r].status = "queued" =>
         \/ HasJob(r, "autofix")
         \/ \E q \in Request : request[q].run = r /\ request[q].pc = "enqueue"
         \/ Handled(r, {"requeue"})
    /\ arun[r].status = "running" => Handled(r, {"work", "fail"})
    /\ arun[r].status = "checking" => HasJob(r, "checks") \/ Handled(r, {"schedule"})

\* Every run leaves its issue free again in the end, unless a fault cut its
\* handling off.  Timeouts do not prevent it.
EveryRunSettles ==
  \A r \in AutofixRun : InFlight(r) ~> (~InFlight(r) \/ r \in cut)
=============================================================================
