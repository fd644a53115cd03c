----------------------------- MODULE ServiceJobs -----------------------------
(***************************************************************************)
(* The job queue as the handlers of one service see it: the rows of their  *)
(* jobs and the runs of the handlers, several at once.  JobQueue has the   *)
(* table, the loops and the sweeps; here they are reduced to what a        *)
(* handler can tell apart.  A handler may be cut off by a crash, started   *)
(* again after it has already done its work, or go on beside a retry of    *)
(* its job because nothing stops it once its timeout has passed.           *)
(***************************************************************************)
EXTENDS Naturals

CONSTANTS
  Job,          \* jobs of the service; a dedupe key is one job
  Worker,       \* places where a handler runs, of one or several processes
  None,         \* no job
  MaxAttempts,  \* resolveMaxAttempts, the same for all jobs here
  MaxFaults     \* bound: crashes, failed statements and overruns

ASSUME ServiceJobsAssumption ==
  /\ None \notin Job
  /\ MaxAttempts \in Nat \ {0}
  /\ MaxFaults \in Nat

VARIABLES
  job,    \* the row of each job
  run,    \* what each place is running
  faults  \* faults so far

queue == <<job, run, faults>>

JobState == {"absent", "waiting", "active", "done", "dead"}
JobRow == [state : JobState, tries : 0..MaxAttempts]
Run == [job : Job \union {None}, attempt : 0..MaxAttempts, late : BOOLEAN]

NoRun == [job |-> None, attempt |-> 0, late |-> FALSE]
NoRow == [state |-> "absent", tries |-> 0]
NewRow == [state |-> "waiting", tries |-> 0]

QueueTypeOK ==
  /\ job \in [Job -> JobRow]
  /\ run \in [Worker -> Run]
  /\ faults \in 0..MaxFaults

QueueInit ==
  /\ job = [j \in Job |-> NoRow]
  /\ run = [w \in Worker |-> NoRun]
  /\ faults = 0

Live(j) == job[j].state \in {"waiting", "active"}

\* The live run of a job is the one the worker still waits for.
Runs(w, j) == run[w].job = j /\ ~run[w].late

\* enqueue does nothing while a job with the same dedupe key is live.
Enqueued(J) == [j \in Job |-> IF j \in J /\ ~Live(j) THEN NewRow ELSE job[j]]

Fault == faults < MaxFaults /\ faults' = faults + 1

Settled(j, state) == job' = [job EXCEPT ![j].state = state]

\* Mutant: one attempt more than the limit.
FailedLate(j) == Settled(j, IF job[j].tries <= MaxAttempts THEN "waiting" ELSE "dead")

Failed(j) == Settled(j, IF job[j].tries < MaxAttempts THEN "waiting" ELSE "dead")

Claim(w, j) ==
  /\ run[w] = NoRun /\ job[j].state = "waiting"
  /\ job' = [job EXCEPT ![j] = [state |-> "active", tries |-> job[j].tries + 1]]
  /\ run' = [run EXCEPT ![w] = [job |-> j, attempt |-> job[j].tries + 1, late |-> FALSE]]
  /\ UNCHANGED faults

Leaves(w) == run' = [run EXCEPT ![w] = NoRun]

\* The handler returns.  Nobody waits for a late one.
Returns(w) ==
  /\ Leaves(w)
  /\ IF run[w].late THEN UNCHANGED job ELSE Settled(run[w].job, "done")
  /\ UNCHANGED faults

\* The handler throws of its own accord, which is no fault of the system.
Throws(w) ==
  /\ Leaves(w)
  /\ IF run[w].late THEN UNCHANGED job ELSE Failed(run[w].job)
  /\ UNCHANGED faults

\* A statement of the handler fails, or markSucceeded does, or its answer is
\* lost: the catch of execute counts the run as failed in each case.
Breaks(w) ==
  /\ run[w].job # None
  /\ Fault
  /\ Leaves(w)
  /\ IF run[w].late THEN UNCHANGED job ELSE Failed(run[w].job)

\* Promise.race rejects with the timeout, and the handler goes on.
Overruns(w) ==
  /\ run[w].job # None /\ ~run[w].late
  /\ Fault
  /\ run' = [run EXCEPT ![w].late = TRUE]
  /\ Failed(run[w].job)

\* The process dies with the handler and the row stays as it is.
Dies(w) ==
  /\ run[w].job # None
  /\ Fault
  /\ Leaves(w)
  /\ UNCHANGED job

\* Mutant: a sweep that looks at rows of other types only.
SweptNever(j) == job[j].state = "active" /\ FALSE /\ UNCHANGED queue

\* The stalled sweep finds a running row nobody works on.
Swept(j) ==
  /\ job[j].state = "active" /\ \A w \in Worker : ~Runs(w, j)
  /\ Failed(j)
  /\ UNCHANGED <<run, faults>>

\* An operator puts back a job that failed for good.
Requeued(j) ==
  /\ job[j].state = "dead"
  /\ job' = [job EXCEPT ![j] = NewRow]
  /\ UNCHANGED <<run, faults>>

\* These jobs follow the lifecycle that JobQueue implements.
Lifecycle ==
  INSTANCE JobLifecycle WITH
    state <- [j \in Job |-> job[j].state],
    tries <- [j \in Job |-> job[j].tries],
    limit <- [j \in Job |-> IF job[j].state = "absent" THEN 0 ELSE MaxAttempts]
=============================================================================
