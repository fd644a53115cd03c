------------------------------ MODULE JobQueue ------------------------------
(***************************************************************************)
(* The durable job queue: the "jobs" table of PostgreSQL, the statements   *)
(* of JobsService on it, and the worker processes of JobsRunnerService     *)
(* that poll it, run the handlers and recover what a dead worker left      *)
(* behind.                                                                 *)
(*                                                                         *)
(* One step is one statement (or one transaction) on the table, or one     *)
(* step of a worker's own state.  Workers crash at any step, statements    *)
(* fail at any step, and both draw on the budget MaxFaults.                *)
(*                                                                         *)
(* Time is abstracted to what the statements compare:                      *)
(*   - a pending row is "due" once now >= run_at; among due rows only the  *)
(*     order of run_at matters, and "earlier" holds it;                    *)
(*   - a running row is "stale" once started_at is older than the job's    *)
(*     timeout plus the grace period of the stalled sweep.                 *)
(***************************************************************************)
EXTENDS Naturals, FiniteSets

CONSTANTS
  Job,               \* identifiers of rows; a purged identifier is reused
  Type,              \* job types with a registered handler
  Recurring,         \* the types of RECURRING_JOB_INTERVALS_MS
  Slow,              \* the types registered with registerSlowHandler
  Key,               \* dedupe keys; a recurring type is its own key
  None,              \* no dedupe key, no job
  Worker,            \* worker processes
  Slot,              \* places for the concurrent drainLane loops of a worker
  SlowSlot,          \* the place of the one slow job of a worker
  Concurrency,       \* JOBS_CONCURRENCY: loops a tick starts
  MaxAttempts,       \* resolveMaxAttempts(type), per type
  SweepMaxAttempts,  \* JOBS_MAX_ATTEMPTS as recoverStalledJobs reads it
  MaxFaults          \* bound: crashes and failed statements in a behaviour

ASSUME JobQueueAssumption ==
  /\ Recurring \subseteq Type /\ Slow \subseteq Type
  /\ Recurring \intersect Slow = {}
  /\ Recurring \subseteq Key
  /\ None \notin Job \union Type \union Key
  /\ SlowSlot \notin Slot
  /\ Concurrency \in Nat \ {0}
  /\ MaxAttempts \in [Type -> Nat \ {0}]
  /\ SweepMaxAttempts \in Nat \ {0}
  /\ MaxFaults \in Nat

VARIABLES
  row,      \* the jobs table
  earlier,  \* <<i, j>>: both rows are due and i's run_at comes first
  worker,   \* life of each process: down, boot (onModuleInit) or up
  todo,     \* recurring types a booting worker has still to enqueue
  lane,     \* each place of each worker: what its loop is doing
  drain,    \* the loops the current tick of a worker waits for
  faults    \* faults so far

vars == <<row, earlier, worker, todo, lane, drain, faults>>
local == <<worker, todo, lane, drain>>

Place == Slot \union {SlowSlot}
Lane == Worker \X Place

RowStatus == {"free", "pending", "running", "succeeded", "failed"}
Row == [status : RowStatus, type : Type \union {None}, key : Key \union {None},
        due : BOOLEAN, stale : BOOLEAN, attempts : Nat]
Phase == {"idle", "claim", "run", "ok", "fail", "next"}
LaneState == [phase : Phase, job : Job \union {None},
              type : Type \union {None}, attempt : Nat]

FreeRow == [status |-> "free", type |-> None, key |-> None,
            due |-> FALSE, stale |-> FALSE, attempts |-> 0]
NewRow(t, k, due) == [status |-> "pending", type |-> t, key |-> k,
                      due |-> due, stale |-> FALSE, attempts |-> 0]
IdleLane == [phase |-> "idle", job |-> None, type |-> None, attempt |-> 0]
ClaimingLane == [IdleLane EXCEPT !.phase = "claim"]

TypeOK ==
  /\ row \in [Job -> Row]
  /\ earlier \subseteq Job \X Job
  /\ worker \in [Worker -> {"down", "boot", "up"}]
  /\ todo \in [Worker -> SUBSET Recurring]
  /\ lane \in [Lane -> LaneState]
  /\ drain \in [Worker -> SUBSET Slot]
  /\ faults \in 0..MaxFaults

Init ==
  /\ row = [j \in Job |-> FreeRow]
  /\ earlier = {}
  /\ worker = [w \in Worker |-> "down"]
  /\ todo = [w \in Worker |-> {}]
  /\ lane = [l \in Lane |-> IdleLane]
  /\ drain = [w \in Worker |-> {}]
  /\ faults = 0

-----------------------------------------------------------------------------
(* The table.                                                              *)

Live(j) == row[j].status \in {"pending", "running"}
Due(j) == row[j].status = "pending" /\ row[j].due
DueRows == {j \in Job : Due(j)}

\* Mutants: a partial index that forgot the running rows, a cutoff without
\* the timeout and its grace, a sweep that finds nothing.
HasTwinPendingOnly(t, k) ==
  k # None /\ \E i \in Job : row[i].status = "pending" /\ row[i].type = t /\ row[i].key = k
StalledWithoutGrace(j) == row[j].status = "running"
StalledNever(j) == FALSE

\* The partial unique index on (type, dedupe_key) of pending and running rows.
HasTwin(t, k) ==
  k # None /\ \E i \in Job : Live(i) /\ row[i].type = t /\ row[i].key = k

\* What the WHERE of both statements of recoverStalled selects.
Stalled(j) == row[j].status = "running" /\ row[j].stale

BecomeDue(J) == earlier' = earlier \union (DueRows \X J)
LeaveDue(j) == earlier' = {p \in earlier : p[1] # j /\ p[2] # j}

\* enqueue: an insert that does nothing when a live row has the same key.
Insert(t, k, due) ==
  IF HasTwin(t, k)
  THEN UNCHANGED <<row, earlier>>
  ELSE \E j \in Job :
         /\ row[j].status = "free"
         /\ row' = [row EXCEPT ![j] = NewRow(t, k, due)]
         /\ IF due THEN BecomeDue({j}) ELSE UNCHANGED earlier

-----------------------------------------------------------------------------
(* The rest of the application and the passing of time.                    *)

\* Bound: of the finitely many identifiers, the jobs of the application leave
\* one for each recurring type.
Room ==
  Cardinality({j \in Job : row[j].type \in Type \ Recurring})
    < Cardinality(Job) - Cardinality(Recurring)

\* A service enqueues one job, at once or for later.
Enqueue(t, k, due) ==
  /\ t \notin Recurring
  /\ Room
  /\ Insert(t, k, due)
  /\ UNCHANGED <<local, faults>>

RunAtPasses(j) ==
  /\ row[j].status = "pending" /\ ~row[j].due
  /\ row' = [row EXCEPT ![j].due = TRUE]
  /\ BecomeDue({j})
  /\ UNCHANGED <<local, faults>>

Executes(l, j) == lane[l].phase \in {"run", "ok", "fail"} /\ lane[l].job = j

\* The timing assumption of STALLED_GRACE_MS: a living worker stops waiting
\* for a handler at its timeout and writes the outcome within the grace.
GracePasses(j) ==
  /\ row[j].status = "running" /\ ~row[j].stale
  /\ \A l \in Lane : ~Executes(l, j)
  /\ row' = [row EXCEPT ![j].stale = TRUE]
  /\ UNCHANGED <<earlier, local, faults>>

\* An operator puts a failed job back.  Recurring jobs have no organisation,
\* so the statement never selects them; a live twin makes the index refuse.
Requeue(j) ==
  /\ row[j].status = "failed" /\ row[j].type \notin Recurring
  /\ ~HasTwin(row[j].type, row[j].key)
  /\ row' = [row EXCEPT ![j].status = "pending", ![j].due = TRUE,
                        ![j].attempts = 0, ![j].stale = FALSE]
  /\ BecomeDue({j})
  /\ UNCHANGED <<local, faults>>

\* Mutant: a retention that forgot to select by status.
PurgeByAge(j) ==
  /\ row[j].status # "free"
  /\ row' = [row EXCEPT ![j] = FreeRow]
  /\ UNCHANGED <<earlier, local, faults>>

\* The retention job deletes finished rows past their retention.
Purge(j) ==
  /\ row[j].status \in {"succeeded", "failed"}
  /\ row' = [row EXCEPT ![j] = FreeRow]
  /\ UNCHANGED <<earlier, local, faults>>

-----------------------------------------------------------------------------
(* A worker starts and dies.                                               *)

\* onModuleInit: every recurring type is enqueued before the timers are set.
Start(w) ==
  /\ worker[w] = "down"
  /\ worker' = [worker EXCEPT ![w] = "boot"]
  /\ todo' = [todo EXCEPT ![w] = Recurring]
  /\ UNCHANGED <<row, earlier, lane, drain, faults>>

BootEnqueue(w, t) ==
  /\ worker[w] = "boot" /\ t \in todo[w]
  /\ Insert(t, t, TRUE)
  /\ todo' = [todo EXCEPT ![w] = @ \ {t}]
  /\ UNCHANGED <<worker, lane, drain, faults>>

BootDone(w) ==
  /\ worker[w] = "boot" /\ todo[w] = {}
  /\ worker' = [worker EXCEPT ![w] = "up"]
  /\ UNCHANGED <<row, earlier, todo, lane, drain, faults>>

Fault == faults < MaxFaults /\ faults' = faults + 1

\* The process ends, killed or shut down, with its handlers; its rows stay.
Crash(w) ==
  /\ worker[w] # "down"
  /\ Fault
  /\ worker' = [worker EXCEPT ![w] = "down"]
  /\ todo' = [todo EXCEPT ![w] = {}]
  /\ lane' = [l \in Lane |-> IF l[1] = w THEN IdleLane ELSE lane[l]]
  /\ drain' = [drain EXCEPT ![w] = {}]
  /\ UNCHANGED <<row, earlier>>

-----------------------------------------------------------------------------
(* A tick: the stalled sweep when a minute has passed, then Concurrency    *)
(* drainLane loops.  The next tick waits until every loop returned.        *)

\* Starts the loops of this tick in places no loop of the worker holds.
StartLoops(w, S) ==
  /\ worker[w] = "up" /\ drain[w] = {}
  /\ S \subseteq {s \in Slot : lane[<<w, s>>].phase = "idle"}
  /\ Cardinality(S) = Concurrency
  /\ lane' = [l \in Lane |-> IF l[1] = w /\ l[2] \in S THEN ClaimingLane ELSE lane[l]]
  /\ drain' = [drain EXCEPT ![w] = S]

Tick(w, S) ==
  /\ StartLoops(w, S)
  /\ UNCHANGED <<row, earlier, worker, todo, faults>>

UsedUp(j) == row[j].attempts >= SweepMaxAttempts
Spent == {j \in Job : Stalled(j) /\ UsedUp(j)}
Retried == {j \in Job : Stalled(j) /\ ~UsedUp(j)}

\* recoverStalled, its first statement failing the rows F and its second
\* putting back the rows R.
Recover(F, R) ==
  /\ row' = [j \in Job |->
               IF j \in R
               THEN [row[j] EXCEPT !.status = "pending", !.due = TRUE, !.stale = FALSE]
               ELSE IF j \in F
               THEN [row[j] EXCEPT !.status = "failed", !.stale = FALSE]
               ELSE row[j]]
  /\ BecomeDue(R)

SweepTick(w, S) ==
  /\ StartLoops(w, S)
  /\ Recover(Spent, Retried)
  /\ UNCHANGED <<worker, todo, faults>>

\* One of the four statements of the sweep fails, two for the regular types
\* and then two for the slow ones: those after it are not run and no loop
\* starts.
Regular(J) == {j \in J : row[j].type \notin Slow}
SweepFails(w) ==
  /\ worker[w] = "up" /\ drain[w] = {}
  /\ Fault
  /\ \/ Recover({}, {})
     \/ Recover(Regular(Spent), {})
     \/ Recover(Regular(Spent), Regular(Retried))
     \/ Recover(Spent, Regular(Retried))
  /\ UNCHANGED local

SlowTick(w) ==
  /\ worker[w] = "up" /\ Slow # {}
  /\ lane[<<w, SlowSlot>>].phase = "idle"
  /\ lane' = [lane EXCEPT ![<<w, SlowSlot>>] = ClaimingLane]
  /\ UNCHANGED <<row, earlier, worker, todo, drain, faults>>

-----------------------------------------------------------------------------
(* One loop: claim, run the handler, write the outcome, queue the next run.*)

Handles(l) == IF l[2] = SlowSlot THEN Slow ELSE Type \ Slow
Claimable(l) == {j \in DueRows : row[j].type \in Handles(l)}
First(l) == {j \in Claimable(l) : \A i \in Claimable(l) : <<i, j>> \notin earlier}

\* claimNext: the due row with the earliest run_at, locked and marked running.
Claim(l, j) ==
  /\ lane[l].phase = "claim" /\ j \in First(l)
  /\ row' = [row EXCEPT ![j].status = "running", ![j].due = FALSE,
                        ![j].stale = FALSE, ![j].attempts = @ + 1]
  /\ LeaveDue(j)
  /\ lane' = [lane EXCEPT ![l] = [phase |-> "run", job |-> j, type |-> row[j].type,
                                  attempt |-> row[j].attempts + 1]]
  /\ UNCHANGED <<worker, todo, drain, faults>>

\* A loop that returns no longer holds up the tick that started it.
LoopEnds(l) ==
  /\ lane' = [lane EXCEPT ![l] = IdleLane]
  /\ drain' = [drain EXCEPT ![l[1]] = @ \ {l[2]}]

ClaimNone(l) ==
  /\ lane[l].phase = "claim" /\ Claimable(l) = {}
  /\ LoopEnds(l)
  /\ UNCHANGED <<row, earlier, worker, todo, faults>>

\* The handler returns, or throws or outlives its timeout: Promise.race
\* settles once, and what a timed out handler does later is not seen here.
HandlerSettles(l, outcome) ==
  /\ lane[l].phase = "run"
  /\ lane' = [lane EXCEPT ![l].phase = outcome]
  /\ UNCHANGED <<row, earlier, worker, todo, drain, faults>>

\* Mutants: the loop forgets to queue the next run; an attempt too many.
AfterExecuteNoNext(l) == IF l[2] = SlowSlot THEN IdleLane ELSE ClaimingLane
RetryableOneMore(l) == lane[l].attempt <= MaxAttempts[lane[l].type]

\* Where the loop goes once execute returned.
AfterExecute(l) ==
  IF l[2] = SlowSlot THEN IdleLane
  ELSE IF lane[l].type \in Recurring THEN [lane[l] EXCEPT !.phase = "next"]
  ELSE ClaimingLane

\* Updates by id alone find no row when it was purged meanwhile.
Write(l, status) ==
  LET j == lane[l].job IN
  IF row[j].status = "free" THEN UNCHANGED row
  ELSE row' = [row EXCEPT ![j].status = status, ![j].due = FALSE, ![j].stale = FALSE]

MarkSucceeded(l) ==
  /\ lane[l].phase = "ok"
  /\ Write(l, "succeeded")
  /\ lane' = [lane EXCEPT ![l] = AfterExecute(l)]
  /\ UNCHANGED <<earlier, worker, todo, drain, faults>>

\* The update throws inside the try: the catch treats it as a failed run.
MarkSucceededFails(l) ==
  /\ lane[l].phase = "ok"
  /\ Fault
  /\ lane' = [lane EXCEPT ![l].phase = "fail"]
  /\ UNCHANGED <<row, earlier, worker, todo, drain>>

Retryable(l) == lane[l].attempt < MaxAttempts[lane[l].type]

\* handleFailure: the attempt count is the one read when the job was claimed.
HandleFailure(l) ==
  /\ lane[l].phase = "fail"
  /\ Write(l, IF Retryable(l) THEN "pending" ELSE "failed")
  /\ lane' = [lane EXCEPT ![l] = AfterExecute(l)]
  /\ UNCHANGED <<earlier, worker, todo, drain, faults>>

EnqueueNext(l) ==
  /\ lane[l].phase = "next"
  /\ Insert(lane[l].type, lane[l].type, FALSE)
  /\ lane' = [lane EXCEPT ![l] = ClaimingLane]
  /\ UNCHANGED <<worker, todo, drain, faults>>

\* A statement outside the try throws: the loop rejects, Promise.all rejects
\* with it and "draining" is cleared while the sibling loops still run.
LoopThrows(l) ==
  /\ lane[l].phase \in {"claim", "fail", "next"}
  /\ Fault
  /\ lane' = [lane EXCEPT ![l] = IdleLane]
  /\ drain' = [drain EXCEPT ![l[1]] = IF l[2] \in @ THEN {} ELSE @]
  /\ UNCHANGED <<row, earlier, worker, todo>>

LoopStep(l) ==
  \/ \E j \in Job : Claim(l, j)
  \/ ClaimNone(l)
  \/ \E outcome \in {"ok", "fail"} : HandlerSettles(l, outcome)
  \/ MarkSucceeded(l)
  \/ MarkSucceededFails(l)
  \/ HandleFailure(l)
  \/ EnqueueNext(l)
  \/ LoopThrows(l)

WorkerStep(w) ==
  \/ Start(w)
  \/ \E t \in Recurring : BootEnqueue(w, t)
  \/ BootDone(w)
  \/ \E S \in SUBSET Slot : Tick(w, S) \/ SweepTick(w, S)
  \/ SweepFails(w)
  \/ SlowTick(w)
  \/ Crash(w)

Application ==
  \/ \E t \in Type, k \in Key \union {None}, due \in BOOLEAN : Enqueue(t, k, due)
  \/ \E j \in Job : RunAtPasses(j) \/ GracePasses(j) \/ Requeue(j) \/ Purge(j)

Next ==
  \/ Application
  \/ \E w \in Worker : WorkerStep(w)
  \/ \E l \in Lane : LoopStep(l)

Spec == Init /\ [][Next]_vars

-----------------------------------------------------------------------------
(* Fairness.  A deployment restarts its workers; a worker keeps polling    *)
(* (WF on the slow tick, SF on the sweep, which takes its turn between two *)
(* drains); its loops keep going; run times and graces pass; the retention *)
(* job purges what is finished.                                            *)

LoopGoes(l) ==
  \/ \E j \in Job : Claim(l, j)
  \/ ClaimNone(l)
  \/ \E outcome \in {"ok", "fail"} : HandlerSettles(l, outcome)
  \/ MarkSucceeded(l) \/ HandleFailure(l) \/ EnqueueNext(l)

Fairness ==
  /\ \A w \in Worker :
       /\ WF_vars(Start(w))
       /\ WF_vars((\E t \in Recurring : BootEnqueue(w, t)) \/ BootDone(w))
       /\ SF_vars(\E S \in SUBSET Slot : SweepTick(w, S))
       /\ WF_vars(SlowTick(w))
  /\ \A l \in Lane : WF_vars(LoopGoes(l))
  /\ \A j \in Job :
       WF_vars(RunAtPasses(j)) /\ WF_vars(GracePasses(j)) /\ WF_vars(Purge(j))

\* The load leaves a worker idle from time to time: a drain, which lasts
\* until every loop has found the queue empty, comes to its end.
DrainsEnd == \A w \in Worker : []<>(drain[w] = {})

LightLoadSpec == Spec /\ Fairness /\ DrainsEnd

-----------------------------------------------------------------------------
(* What the queue promises.                                                *)

Executing(l) == lane[l].phase \in {"run", "ok", "fail"}

\* A worker that still waits for a handler, or has not yet written how it
\* ended, owns the row: the row is running and counts the attempt the worker
\* claimed.  The updates of markSucceeded, markFailed and reschedule select
\* by id alone, so this is what keeps an outcome from landing on a later
\* attempt, or on a job that is already settled.
OutcomeFindsItsAttempt ==
  \A l \in Lane : Executing(l) =>
    /\ row[lane[l].job].status = "running"
    /\ row[lane[l].job].attempts = lane[l].attempt
    /\ row[lane[l].job].type = lane[l].type

\* No two loops, of one worker or of several, run the same job, nor two jobs
\* of the same type and dedupe key, however the sweeps, the restarts and the
\* requeues interleave with them.
NoConcurrentTwins ==
  \A l, m \in Lane :
    (Executing(l) /\ Executing(m) /\ l # m) =>
      LET i == lane[l].job
          j == lane[m].job
      IN i # j /\ ~(row[i].type = row[j].type /\ row[i].key = row[j].key /\ row[i].key # None)

\* No row is claimed more often than the larger of the two limits the code
\* consults: the one of its type and the one of the sweep.
AttemptLimit(t) ==
  IF MaxAttempts[t] > SweepMaxAttempts THEN MaxAttempts[t] ELSE SweepMaxAttempts
AttemptsBounded ==
  \A j \in Job : row[j].status # "free" =>
    /\ row[j].attempts <= AttemptLimit(row[j].type)
    /\ row[j].status = "pending" => row[j].attempts < AttemptLimit(row[j].type)

\* The queue implements the lifecycle a service relies on: an outcome is only
\* ever recorded for a job that is running, a success is final, a row is not
\* deleted before it settled, and a job goes back to waiting only while it
\* has attempts left.
StageOf == [free |-> "absent", pending |-> "waiting", running |-> "active",
            succeeded |-> "done", failed |-> "dead"]
Limit(r) == IF r.status = "free" THEN 0 ELSE AttemptLimit(r.type)

Contract ==
  INSTANCE JobLifecycle WITH
    state <- [j \in Job |-> StageOf[row[j].status]],
    tries <- [j \in Job |-> row[j].attempts],
    limit <- [j \in Job |-> Limit(row[j])]

ImplementsLifecycle == Contract!Spec

\* Every job that was accepted settles: it ends succeeded or failed, whatever
\* the handlers do and whichever workers die and restart, provided the load
\* lets drains end (LightLoadSpec): the sweep waits for the end of a drain.
EveryJobSettles == \A j \in Job : Live(j) ~> ~Live(j)

\* While no worker dies and no statement fails, a recurring job runs again
\* and again, whether its runs succeed, fail or time out.
RecurringKeepsRunning ==
  <>(faults > 0) \/ \A t \in Recurring :
    []<>(\E j \in Job : row[j].type = t /\ row[j].status = "running")

-----------------------------------------------------------------------------
(* What comments of the code say and the code does not do.                 *)

\* "retry them, or fail them once they used all their attempts".
UsedUpIsNotRetried ==
  \A j \in Job : row[j].status = "pending" => row[j].attempts < MaxAttempts[row[j].type]
=============================================================================
