--------------------------- MODULE AutofixRunsProofs ---------------------------
(***************************************************************************)
(* Proofs about AutofixRuns, for every set of runs, issues, requests,      *)
(* branches, jobs and places for handlers, every limit of attempts and     *)
(* every number of faults.                                                 *)
(*                                                                         *)
(* The argument is that a run in flight which no fault disturbed has one   *)
(* holder: the handler that works on it or the job that polls its CI.      *)
(* Nothing in the code says so.  It comes from the claim of the queued     *)
(* row, and from handlers that pass the run on as the last thing they do.  *)
(***************************************************************************)
EXTENDS AutofixRuns, TLAPS

\* What a row, a job, a request and a strand say of the run they are about.
\* Jobs that wait have attempts left.
RowFits(x) == x.status = "checking" => x.branch \in Branch
JobFits(x, t) ==
  /\ x.state = "waiting" => x.tries < MaxAttempts
  /\ x.state = "absent" => t = NoTask
  /\ t.kind # "none" => t.run \in AutofixRun
RequestFits(x) ==
  /\ x.pc # "idle" => x.run \in AutofixRun
  /\ x.pc = "restart" => x.seen \in {"analyzed", "failed"}
OnBranch == {"poll", "open", "merge", "opened"}
StrandFits(x) ==
  /\ x.pc \notin {"start", "end"} => x.run \in AutofixRun
  /\ x.pc \in OnBranch => x.branch \in Branch
  /\ x.pc = "restart" => x.seen \in {"analyzed", "failed"}

RowsForm == arun \in [AutofixRun -> RunRow] /\ \A r \in AutofixRun : RowFits(arun[r])
JobsForm ==
  /\ job \in [Job -> JobRow] /\ task \in [Job -> Task]
  /\ \A j \in Job : JobFits(job[j], task[j])
PlacesForm == run \in [Worker -> Run] /\ faults \in 0..MaxFaults
RequestsForm ==
  request \in [Request -> RequestState] /\ \A q \in Request : RequestFits(request[q])
StrandsForm ==
  /\ strand \in [Worker -> Strand] /\ \A w \in Worker : StrandFits(strand[w])
  /\ ghost \in [Worker -> Strand] /\ \A w \in Worker : StrandFits(ghost[w])
RepositoryForm ==
  /\ ci \in [Branch -> {"unpushed", "none", "pending", "success", "failure"}]
  /\ expired \subseteq Branch /\ opened \subseteq Branch /\ merged \subseteq Branch
HistoryForm == cut \subseteq AutofixRun /\ overran \subseteq AutofixRun

FormInv ==
  /\ RowsForm /\ JobsForm /\ PlacesForm /\ RequestsForm /\ StrandsForm
  /\ RepositoryForm /\ HistoryForm

\* What a strand says suits the job j that it handles, with the task t.
Suits(x, j, t) ==
  /\ x.pc # "start" => j # None
  /\ x.pc \notin {"start", "end"} => t.run = x.run
  /\ x.pc \in Executing => t.kind = "autofix"
  /\ x.pc \in Checking => t.kind = "checks"

\* A handler runs an active job of its own, which is about its run.
RunInv ==
  /\ \A w \in Worker : ~run[w].late /\ (run[w].job # None => job[run[w].job].state = "active")
  /\ \A v, w \in Worker : v # w /\ run[v].job = run[w].job => run[v].job = None
  /\ \A w \in Worker : Suits(strand[w], run[w].job, task[run[w].job])
  /\ \A w \in Worker : ghost[w].pc # "start" => ghost[w].run \in overran

\* What is about to be merged has passed.
PassInv ==
  /\ \A w \in Worker :
       strand[w].pc = "merge" \/ (strand[w].pc = "open" /\ strand[w].verified) =>
         ci[strand[w].branch] = "success"
  /\ MergedPassedCI

\* A job no handler has looked into yet.
Fresh(j) == \A w \in Worker : run[w].job = j => strand[w].pc = "start"
About(j, kind, r) == task[j] = [kind |-> kind, run |-> r]

\* The holders of a run: a job that is about to poll its CI, or a handler.
Due(j, r) == About(j, "checks", r) /\ Fresh(j)
Holding == {"work", "schedule", "fail"} \union OnBranch
Holds(w, r) == strand[w].run = r /\ strand[w].pc \in Holding

OneHolder(r) ==
  /\ \A i, j \in Job : Due(i, r) /\ Due(j, r) => i = j
  /\ \A v, w \in Worker : Holds(v, r) /\ Holds(w, r) => v = w
  /\ \A j \in Job, w \in Worker : ~(Due(j, r) /\ Holds(w, r))

\* The status agrees with what the holder is about to do, and there is one.
Agrees(w, r) ==
  /\ strand[w].pc = "work" => arun[r].status = "running"
  /\ strand[w].pc \in {"schedule"} \union OnBranch => arun[r].status = "checking"
  /\ strand[w].pc = "fail" =>
       arun[r].status = IF task[run[w].job].kind = "checks" THEN "checking" ELSE "running"
  /\ strand[w].pc \in OnBranch => strand[w].branch = arun[r].branch
  /\ strand[w].pc \in {"merge", "opened"} => strand[w].branch \in opened

Held(r) ==
  /\ \A j \in Job : Due(j, r) => arun[r].status = "checking"
  /\ \A w \in Worker : Holds(w, r) => Agrees(w, r)
  /\ arun[r].status = "running" => \E w \in Worker : Holds(w, r)
  /\ arun[r].status = "checking" =>
       (\E j \in Job : Due(j, r)) \/ (\E w \in Worker : Holds(w, r))

\* A queued run has a job nobody has looked into, or is about to get one.
Ready(j, r) == About(j, "autofix", r) /\ Fresh(j)
Asks(q, r) == request[q].run = r /\ request[q].pc = "enqueue"
Requeues(w, r) == strand[w].run = r /\ strand[w].pc = "requeue"
Queued(r) ==
  (\E j \in Job : Ready(j, r)) \/ (\E q \in Request : Asks(q, r))
    \/ (\E w \in Worker : Requeues(w, r))

Sound(r) ==
  /\ OneHolder(r) /\ Held(r)
  /\ arun[r].status = "queued" => Queued(r)
  /\ arun[r].status = "succeeded" => arun[r].pr = arun[r].branch /\ arun[r].pr \in opened

HolderInv == \A r \in AutofixRun \ Disturbed : Sound(r)

IInv == FormInv /\ RunInv /\ PassInv /\ HolderInv

-----------------------------------------------------------------------------
(* The forms of rows and strands.                                          *)

LEMMA FormFrame ==
  ASSUME FormInv
  PROVE  /\ UNCHANGED arun => RowsForm'
         /\ UNCHANGED <<job, task>> => JobsForm'
         /\ UNCHANGED <<run, faults>> => PlacesForm'
         /\ UNCHANGED request => RequestsForm'
         /\ UNCHANGED <<strand, ghost>> => StrandsForm'
         /\ UNCHANGED repository => RepositoryForm'
         /\ UNCHANGED <<cut, overran>> => HistoryForm'
<1>1. UNCHANGED arun => RowsForm'
  BY DEF FormInv, RowsForm
<1>2. UNCHANGED <<job, task>> => JobsForm'
  BY DEF FormInv, JobsForm
<1>3. UNCHANGED <<run, faults>> => PlacesForm'
  BY DEF FormInv, PlacesForm
<1>4. UNCHANGED request => RequestsForm'
  BY DEF FormInv, RequestsForm
<1>5. UNCHANGED <<strand, ghost>> => StrandsForm'
  BY DEF FormInv, StrandsForm
<1>6. UNCHANGED repository => RepositoryForm'
  BY DEF FormInv, RepositoryForm, repository
<1>7. UNCHANGED <<cut, overran>> => HistoryForm'
  BY DEF FormInv, HistoryForm
<1>8. QED  BY <1>1, <1>2, <1>3, <1>4, <1>5, <1>6, <1>7

LEMMA StartFits ==
  /\ Start \in Strand /\ StrandFits(Start) /\ Start.pc = "start" /\ Start.run = None
  /\ Ended \in Strand /\ StrandFits(Ended) /\ Ended.pc = "end" /\ Ended.run = None
  BY DEF Start, Ended, Strand, StrandFits, OnBranch, Executing, Checking, Status,
       InFlightStatus

LEMMA OfFits ==
  ASSUME NEW r \in AutofixRun,
         NEW pc \in {"work", "after", "requeue", "schedule", "fail", "note"}
  PROVE  /\ Of(pc, r) \in Strand /\ StrandFits(Of(pc, r))
         /\ Of(pc, r).pc = pc /\ Of(pc, r).run = r
  BY DEF Of, Start, Strand, StrandFits, OnBranch, Executing, Checking, Status,
       InFlightStatus

LEMMA StrandMoves ==
  ASSUME FormInv, NEW w \in Worker, NEW new \in Strand, StrandFits(new),
         strand' = [strand EXCEPT ![w] = new], UNCHANGED ghost
  PROVE  StrandsForm'
  BY DEF FormInv, StrandsForm

LEMMA StepBecomes ==
  ASSUME FormInv, NEW g \in BOOLEAN, NEW w \in Worker, NEW new \in Strand, StrandFits(new),
         Becomes(g, w, new)
  PROVE  StrandsForm'
  BY DEF FormInv, StrandsForm, Becomes

LEMMA StepCompletes ==
  ASSUME FormInv, NEW g \in BOOLEAN, NEW w \in Worker, Completes(g, w)
  PROVE  StrandsForm'
  BY StepBecomes, StartFits DEF Completes

LEMMA StepRejects ==
  ASSUME FormInv, NEW g \in BOOLEAN, NEW w \in Worker,
         At(g, w).pc \notin {"start", "end"}, Rejects(g, w)
  PROVE  StrandsForm'
<1>1. CASE g
  BY <1>1, StepBecomes, StartFits DEF Rejects
<1>2. CASE ~g
  <2>1. strand[w].run \in AutofixRun
    BY <1>2 DEF At, FormInv, StrandsForm, StrandFits
  <2>2. QED  BY <1>2, <2>1, StepBecomes, OfFits DEF Rejects
<1>3. QED  BY <1>1, <1>2

LEMMA StepRun ==
  ASSUME FormInv, NEW g \in BOOLEAN, NEW w \in Worker
  PROVE  /\ At(g, w) \in Strand
         /\ At(g, w).pc \notin {"start", "end"} => At(g, w).run \in AutofixRun
         /\ At(g, w).pc = "restart" => At(g, w).seen \in {"analyzed", "failed"}
  BY DEF FormInv, StrandsForm, StrandFits, At

LEMMA RowMoves ==
  ASSUME FormInv, NEW r, NEW new \in RunRow, RowFits(new), arun' = [arun EXCEPT ![r] = new]
  PROVE  RowsForm'
  BY DEF FormInv, RowsForm

LEMMA StatusMoves ==
  ASSUME FormInv, NEW r \in AutofixRun, NEW status \in Status \ {"checking"}
  PROVE  /\ [arun[r] EXCEPT !.status = status] \in RunRow
         /\ RowFits([arun[r] EXCEPT !.status = status])
         /\ [arun EXCEPT ![r].status = status]
              = [arun EXCEPT ![r] = [arun[r] EXCEPT !.status = status]]
<1>1. arun[r] \in RunRow
  BY DEF FormInv, RowsForm
<1>2. QED  BY <1>1 DEF FormInv, RowsForm, RunRow, RowFits

LEMMA RestartForm ==
  ASSUME FormInv, NEW r \in AutofixRun, Restart(r)
  PROVE  RowsForm'
<1> DEFINE new == [NoRunRow EXCEPT !.status = "queued", !.phase = "fix",
                                   !.analysis = arun[r].analysis, !.issue = arun[r].issue]
<1>1. arun[r] \in RunRow
  BY DEF FormInv, RowsForm
<1>2. new \in RunRow /\ RowFits(new)
  BY <1>1 DEF NoRunRow, RunRow, Status, InFlightStatus, RowFits
<1>3. QED  BY <1>2, RowMoves DEF Restart

LEMMA EnqueueForm ==
  ASSUME FormInv, NEW kind \in {"autofix", "checks"}, NEW r \in AutofixRun, Enqueue(kind, r)
  PROVE  JobsForm'
<1>1. PICK j \in Job : /\ job[j].state = "absent"
                       /\ job' = Enqueued({j})
                       /\ task' = [task EXCEPT ![j] = [kind |-> kind, run |-> r]]
  BY DEF Enqueue
<1>2. job' = [job EXCEPT ![j] = NewRow]
  BY <1>1 DEF Enqueued, Live, FormInv, JobsForm
<1>3. NewRow \in JobRow /\ [kind |-> kind, run |-> r] \in Task
  BY ServiceJobsAssumption DEF NewRow, JobRow, JobState, Task
<1>4. JobFits(NewRow, [kind |-> kind, run |-> r])
  BY ServiceJobsAssumption DEF NewRow, JobFits
<1>5. QED  BY <1>1, <1>2, <1>3, <1>4 DEF FormInv, JobsForm

LEMMA FailedForm ==
  ASSUME FormInv, NEW j, Failed(j), j \in Job => job[j].state # "absent", UNCHANGED task
  PROVE  JobsForm'
<1> DEFINE state == IF job[j].tries < MaxAttempts THEN "waiting" ELSE "dead"
<1>1. job' = [job EXCEPT ![j].state = state] /\ state \in {"waiting", "dead"}
  BY DEF Failed, Settled
<1>2. state = "waiting" => job[j].tries < MaxAttempts
  OBVIOUS
<1> HIDE DEF state
<1>3. job' \in [Job -> JobRow]
  BY <1>1 DEF FormInv, JobsForm, JobRow, JobState
<1>4. \A i \in Job : JobFits(job'[i], task[i])
  BY <1>1, <1>2 DEF FormInv, JobsForm, JobRow, JobFits
<1>5. QED  BY <1>3, <1>4 DEF FormInv, JobsForm

LEMMA FaultForm ==
  ASSUME FormInv, Fault
  PROVE  faults' \in 0..MaxFaults
  BY ServiceJobsAssumption DEF FormInv, PlacesForm, Fault

LEMMA LeavesForm ==
  ASSUME FormInv, NEW w, Leaves(w)
  PROVE  run' \in [Worker -> Run]
<1>1. NoRun \in Run
  BY ServiceJobsAssumption DEF NoRun, Run
<1>2. QED  BY <1>1 DEF FormInv, PlacesForm, Leaves

LEMMA CutOffForm ==
  ASSUME FormInv, NEW w \in Worker, run[w].job # None
  PROVE  CutOff(w) \ {None} \subseteq AutofixRun
<1>1. strand[w].run \in AutofixRun \union {None} /\ ghost[w].run \in AutofixRun \union {None}
  BY DEF FormInv, StrandsForm, Strand
<1>2. task[run[w].job].kind = "checks" => task[run[w].job].run \in AutofixRun
  BY DEF FormInv, PlacesForm, Run, JobsForm, JobFits
<1>3. QED  BY <1>1, <1>2 DEF CutOff

LEMMA FormKept ==
  ASSUME FormInv, RunInv, [Next]_vars
  PROVE  FormInv'
<1>1. ASSUME NEW q \in Request, NEW r \in AutofixRun, NEW i \in Issue, Trigger(q, r, i)
      PROVE  FormInv'
  <2> DEFINE row == [NoRunRow EXCEPT !.status = "queued", !.issue = i]
             new == [Idle EXCEPT !.pc = "enqueue", !.run = r]
  <2>1. row \in RunRow /\ RowFits(row)
    BY DEF NoRunRow, RunRow, Status, InFlightStatus, RowFits
  <2>2. RowsForm'
    BY <1>1, <2>1, RowMoves DEF Trigger
  <2>3. new \in RequestState /\ RequestFits(new)
    BY DEF Idle, RequestState, RequestFits, Status
  <2>4. RequestsForm'
    BY <1>1, <2>3 DEF Trigger, RequestBecomes, FormInv, RequestsForm
  <2>5. QED  BY <1>1, <2>2, <2>4, FormFrame DEF Trigger, KeepWork, FormInv
<1>2. ASSUME NEW q \in Request, NEW r \in AutofixRun, AskForFix(q, r)
      PROVE  FormInv'
  <2> DEFINE new == [pc |-> "restart", run |-> r, seen |-> arun[r].status]
  <2>1. new \in RequestState /\ RequestFits(new)
    BY <1>2 DEF AskForFix, FixAllowed, RequestState, RequestFits, Status
  <2>2. RequestsForm'
    BY <1>2, <2>1 DEF AskForFix, RequestBecomes, FormInv, RequestsForm
  <2>3. QED  BY <1>2, <2>2, FormFrame DEF AskForFix, KeepWork, FormInv
<1>3. ASSUME NEW q \in Request, RequestRestarts(q)
      PROVE  FormInv'
  <2> DEFINE r == request[q].run
  <2>1. r \in AutofixRun
    BY <1>3 DEF RequestRestarts, FormInv, RequestsForm, RequestFits
  <2>2. /\ Idle \in RequestState /\ RequestFits(Idle)
        /\ [Idle EXCEPT !.pc = "enqueue", !.run = r] \in RequestState
        /\ RequestFits([Idle EXCEPT !.pc = "enqueue", !.run = r])
    BY <2>1 DEF Idle, RequestState, RequestFits, Status
  <2>3. RequestsForm'
    BY <1>3, <2>2 DEF RequestRestarts, RequestBecomes, FormInv, RequestsForm
  <2>4. RowsForm'
    BY <1>3, <2>1, RestartForm, FormFrame DEF RequestRestarts
  <2>5. QED  BY <1>3, <2>3, <2>4, FormFrame DEF RequestRestarts, KeepWork, FormInv
<1>4. ASSUME NEW q \in Request, RequestEnqueues(q)
      PROVE  FormInv'
  <2>1. request[q].run \in AutofixRun
    BY <1>4 DEF RequestEnqueues, FormInv, RequestsForm, RequestFits
  <2>2. JobsForm'
    BY <1>4, <2>1, EnqueueForm DEF RequestEnqueues
  <2>3. Idle \in RequestState /\ RequestFits(Idle)
    BY DEF Idle, RequestState, RequestFits, Status
  <2>4. RequestsForm'
    BY <1>4, <2>3 DEF RequestEnqueues, RequestBecomes, FormInv, RequestsForm
  <2>5. QED  BY <1>4, <2>2, <2>4, FormFrame DEF RequestEnqueues, KeepWork, FormInv
<1>5. ASSUME NEW q \in Request, RequestDies(q)
      PROVE  FormInv'
  <2>1. request[q].run \in AutofixRun
    BY <1>5 DEF RequestDies, FormInv, RequestsForm, RequestFits
  <2>2. HistoryForm'
    BY <1>5, <2>1 DEF RequestDies, FormInv, HistoryForm
  <2>3. Idle \in RequestState /\ RequestFits(Idle)
    BY DEF Idle, RequestState, RequestFits, Status
  <2>4. RequestsForm'
    BY <1>5, <2>3 DEF RequestDies, RequestBecomes, FormInv, RequestsForm
  <2>5. PlacesForm'
    BY <1>5, FaultForm DEF RequestDies, FormInv, PlacesForm
  <2>6. QED  BY <1>5, <2>2, <2>4, <2>5, FormFrame DEF RequestDies, FormInv
<1>6. ASSUME NEW w \in Worker, ClaimRun(w)
      PROVE  FormInv'
  <2> DEFINE r == task[run[w].job].run
             new == [Of("work", r) EXCEPT !.phase = arun[r].phase]
  <2>1. r \in AutofixRun
    BY <1>6 DEF ClaimRun, Handles, FormInv, PlacesForm, Run, JobsForm, JobFits
  <2>2. new \in Strand /\ StrandFits(new)
    <3>1. arun[r].phase \in {"analysis", "fix"}
      BY <2>1 DEF FormInv, RowsForm, RunRow
    <3>2. QED  BY <2>1, <3>1
                  DEF Of, Start, Strand, StrandFits, OnBranch, Executing, Checking,
                      Status,
       InFlightStatus
  <2>3. StrandsForm'
    BY <1>6, <2>2, StartFits, StrandMoves DEF ClaimRun
  <2>4. RowsForm'
    BY <1>6, <2>1, StatusMoves, RowMoves, FormFrame DEF ClaimRun, Status, InFlightStatus
  <2>5. QED  BY <1>6, <2>3, <2>4, FormFrame
                DEF ClaimRun, FormInv, KeepRest, KeepRepository
<1>7. ASSUME NEW g \in BOOLEAN, NEW w \in Worker, WorkThrows(g, w)
      PROVE  FormInv'
  <2>1. StrandsForm'
    BY <1>7, StepRejects DEF WorkThrows
  <2>2. QED  BY <1>7, <2>1, FormFrame DEF WorkThrows, FormInv, KeepRest, KeepRepository
<1>8. ASSUME NEW g \in BOOLEAN, NEW w \in Worker, WorkAnalyses(g, w)
      PROVE  FormInv'
  <2> DEFINE r == At(g, w).run
             new == [arun[r] EXCEPT !.status = "analyzed", !.analysis = TRUE]
  <2>1. r \in AutofixRun /\ arun[r] \in RunRow
    BY <1>8, StepRun DEF WorkAnalyses, FormInv, RowsForm
  <2>2. new \in RunRow /\ RowFits(new)
    BY <2>1 DEF RunRow, RowFits, Status
  <2>3. arun' = [arun EXCEPT ![r] = new]
    BY <1>8, <2>1 DEF WorkAnalyses, FormInv, RowsForm, RunRow
  <2>4. RowsForm'
    BY <2>2, <2>3, RowMoves
  <2>5. StrandsForm'
    BY <1>8, <2>1, OfFits, StepBecomes DEF WorkAnalyses
  <2>6. QED  BY <1>8, <2>4, <2>5, FormFrame
                DEF WorkAnalyses, FormInv, KeepRest, KeepRepository
<1>9. ASSUME NEW g \in BOOLEAN, NEW w \in Worker, NEW b \in Branch, WorkPushes(g, w, b)
      PROVE  FormInv'
  <2> DEFINE r == At(g, w).run
             new == [arun[r] EXCEPT !.status = "checking", !.branch = b]
  <2>1. r \in AutofixRun /\ arun[r] \in RunRow
    BY <1>9, StepRun DEF WorkPushes, FormInv, RowsForm
  <2>2. CASE IndexRefuses(r, arun[r].issue)
    <3>1. StrandsForm'
      BY <1>9, <2>2, StepRejects DEF WorkPushes
    <3>2. QED  BY <1>9, <2>2, <3>1, FormFrame
                  DEF WorkPushes, FormInv, KeepRest, repository
  <2>3. CASE ~IndexRefuses(r, arun[r].issue)
    <3>1. new \in RunRow /\ RowFits(new)
      BY <2>1 DEF RunRow, RowFits, Status, InFlightStatus
    <3>2. arun' = [arun EXCEPT ![r] = new]
      BY <1>9, <2>1, <2>3 DEF WorkPushes, FormInv, RowsForm, RunRow
    <3>3. RowsForm'
      BY <3>1, <3>2, RowMoves
    <3>4. StrandsForm'
      BY <1>9, <2>1, <2>3, OfFits, StepBecomes DEF WorkPushes
    <3>5. RepositoryForm'
      BY <1>9, <2>3 DEF WorkPushes, FormInv, RepositoryForm
    <3>6. QED  BY <1>9, <3>3, <3>4, <3>5, FormFrame DEF WorkPushes, FormInv, KeepRest
  <2>4. QED  BY <2>2, <2>3
<1>10. ASSUME NEW g \in BOOLEAN, NEW w \in Worker, AfterAnalysis(g, w)
      PROVE  FormInv'
  <2> DEFINE r == At(g, w).run
             new == [Of("restart", r) EXCEPT !.seen = arun[r].status]
  <2>1. r \in AutofixRun
    BY <1>10, StepRun DEF AfterAnalysis
  <2>2. FixAllowed(arun[r]) => new \in Strand /\ StrandFits(new)
    BY <2>1
       DEF FixAllowed, Of, Start, Strand, StrandFits, OnBranch, Executing, Checking,
           Status
  <2>3. StrandsForm'
    BY <1>10, <2>2, StepCompletes, StepBecomes DEF AfterAnalysis
  <2>4. QED  BY <1>10, <2>3, FormFrame
                DEF AfterAnalysis, FormInv, KeepRest, KeepRepository
<1>11. ASSUME NEW g \in BOOLEAN, NEW w \in Worker, AutoRestarts(g, w)
      PROVE  FormInv'
  <2>1. At(g, w).run \in AutofixRun
    BY <1>11, StepRun DEF AutoRestarts
  <2>2. StrandsForm'
    BY <1>11, <2>1, OfFits, StepBecomes, StepCompletes DEF AutoRestarts
  <2>3. RowsForm'
    BY <1>11, <2>1, RestartForm, FormFrame DEF AutoRestarts
  <2>4. QED  BY <1>11, <2>2, <2>3, FormFrame
                DEF AutoRestarts, FormInv, KeepRest, KeepRepository
<1>12. ASSUME NEW g \in BOOLEAN, NEW w \in Worker, AutoEnqueues(g, w)
      PROVE  FormInv'
  <2>1. At(g, w).run \in AutofixRun
    BY <1>12, StepRun DEF AutoEnqueues
  <2>2. StrandsForm' /\ JobsForm'
    BY <1>12, <2>1, StepCompletes, EnqueueForm DEF AutoEnqueues
  <2>3. QED  BY <1>12, <2>2, FormFrame
                DEF AutoEnqueues, FormInv, KeepRest, KeepRepository
<1>13. ASSUME NEW g \in BOOLEAN, NEW w \in Worker, ScheduleFirst(g, w)
      PROVE  FormInv'
  <2>1. At(g, w).run \in AutofixRun
    BY <1>13, StepRun DEF ScheduleFirst
  <2>2. StrandsForm' /\ JobsForm'
    BY <1>13, <2>1, StepCompletes, EnqueueForm DEF ScheduleFirst
  <2>3. QED  BY <1>13, <2>2, FormFrame
                DEF ScheduleFirst, FormInv, KeepRest, KeepRepository
<1>14. ASSUME NEW w \in Worker, TimesOut(w)
      PROVE  FormInv'
  <2>1. strand[w].run \in AutofixRun /\ strand[w] \in Strand /\ StrandFits(strand[w])
    BY <1>14 DEF TimesOut, Executing, FormInv, StrandsForm, StrandFits
  <2>2. StrandsForm'
    BY <1>14, <2>1, OfFits DEF TimesOut, FormInv, StrandsForm
  <2>3. HistoryForm' /\ PlacesForm'
    BY <1>14, <2>1, FaultForm DEF TimesOut, FormInv, HistoryForm, PlacesForm
  <2>4. QED  BY <1>14, <2>2, <2>3, FormFrame DEF TimesOut, FormInv, KeepRepository
<1>15. ASSUME NEW w \in Worker, FailRun(w)
      PROVE  FormInv'
  <2>1. strand[w].run \in AutofixRun
    BY <1>15 DEF FailRun, FormInv, StrandsForm, StrandFits
  <2>2. RowsForm'
    BY <1>15, <2>1, StatusMoves, RowMoves DEF FailRun, Status
  <2>3. StrandsForm'
    BY <1>15, StartFits, StrandMoves DEF FailRun
  <2>4. QED  BY <1>15, <2>2, <2>3, FormFrame
                DEF FailRun, FormInv, KeepRest, KeepRepository
<1>16. ASSUME NEW w \in Worker, ReadRun(w)
      PROVE  FormInv'
  <2> DEFINE r == task[run[w].job].run
             new == [Of("poll", r) EXCEPT !.branch = arun[r].branch]
  <2>1. r \in AutofixRun
    BY <1>16 DEF ReadRun, Handles, FormInv, PlacesForm, Run, JobsForm, JobFits
  <2>2. arun[r].status = "checking" => new \in Strand /\ StrandFits(new)
    <3>1. arun[r].status = "checking" => arun[r].branch \in Branch
      BY <2>1 DEF FormInv, RowsForm, RowFits
    <3>2. QED  BY <2>1, <3>1
                  DEF Of, Start, Strand, StrandFits, OnBranch, Executing, Checking,
                      Status,
       InFlightStatus
  <2>3. StrandsForm'
    BY <1>16, <2>2, StartFits, StrandMoves DEF ReadRun
  <2>4. QED  BY <1>16, <2>3, FormFrame DEF ReadRun, FormInv, KeepRest, KeepRepository
<1>17. ASSUME NEW w \in Worker, Poll(w)
      PROVE  FormInv'
  <2>1. strand[w] \in Strand /\ strand[w].run \in AutofixRun /\ strand[w].branch \in Branch
    BY <1>17 DEF Poll, FormInv, StrandsForm, StrandFits, OnBranch
  <2>2. CASE UNCHANGED <<job, task>> /\ strand' = [strand EXCEPT ![w] = Of("fail", strand[w].run)]
    BY <1>17, <2>1, <2>2, OfFits, StrandMoves, FormFrame
       DEF Poll, FormInv, KeepRest, KeepRepository
  <2>3. CASE Enqueue("checks", strand[w].run) /\ strand' = [strand EXCEPT ![w] = Ended]
    BY <1>17, <2>1, <2>3, EnqueueForm, StartFits, StrandMoves, FormFrame
       DEF Poll, FormInv, KeepRest, KeepRepository
  <2>4. ASSUME NEW verified \in BOOLEAN, UNCHANGED <<job, task>>,
               strand' = [strand EXCEPT ![w].pc = "open", ![w].verified = verified]
        PROVE  FormInv'
    <3> DEFINE new == [strand[w] EXCEPT !.pc = "open", !.verified = verified]
    <3>1. new \in Strand /\ StrandFits(new)
      BY <2>1 DEF Strand, StrandFits, OnBranch, Checking
    <3>2. strand' = [strand EXCEPT ![w] = new]
      BY <2>1, <2>4 DEF FormInv, StrandsForm, Strand
    <3>3. StrandsForm'
      BY <1>17, <3>1, <3>2, StrandMoves DEF Poll
    <3>4. QED  BY <1>17, <2>4, <3>3, FormFrame
                  DEF Poll, FormInv, KeepRest, KeepRepository
  <2>5. QED  BY <1>17, <2>2, <2>3, <2>4 DEF Poll
<1>18. ASSUME NEW w \in Worker, OpenPullRequest(w)
      PROVE  FormInv'
  <2>1. strand[w] \in Strand /\ strand[w].run \in AutofixRun /\ strand[w].branch \in Branch
    BY <1>18 DEF OpenPullRequest, FormInv, StrandsForm, StrandFits, OnBranch
  <2>2. RepositoryForm'
    BY <1>18, <2>1 DEF OpenPullRequest, FormInv, RepositoryForm
  <2>3. CASE strand' = [strand EXCEPT ![w] = Of("fail", strand[w].run)]
    BY <1>18, <2>1, <2>2, <2>3, OfFits, StrandMoves, FormFrame
       DEF OpenPullRequest, FormInv, KeepRest
  <2>4. ASSUME NEW pc \in {"opened", "merge"},
               strand' = [strand EXCEPT ![w].pc = pc, ![w].verified = FALSE]
        PROVE  FormInv'
    <3> DEFINE new == [strand[w] EXCEPT !.pc = pc, !.verified = FALSE]
    <3>1. new \in Strand /\ StrandFits(new)
      BY <2>1 DEF Strand, StrandFits, OnBranch, Checking
    <3>2. strand' = [strand EXCEPT ![w] = new]
      BY <2>1, <2>4 DEF FormInv, StrandsForm, Strand
    <3>3. StrandsForm'
      BY <1>18, <3>1, <3>2, StrandMoves DEF OpenPullRequest
    <3>4. QED  BY <1>18, <2>2, <3>3, FormFrame DEF OpenPullRequest, FormInv, KeepRest
  <2>5. QED  BY <1>18, <2>3, <2>4 DEF OpenPullRequest
<1>19. ASSUME NEW w \in Worker, Merge(w)
      PROVE  FormInv'
  <2> DEFINE new == [strand[w] EXCEPT !.pc = "opened"]
  <2>1. strand[w] \in Strand /\ StrandFits(strand[w])
    BY DEF FormInv, StrandsForm
  <2>2. new \in Strand /\ StrandFits(new)
    BY <1>19, <2>1 DEF Merge, Strand, StrandFits, OnBranch, Checking
  <2>3. strand' = [strand EXCEPT ![w] = new]
    BY <1>19, <2>1 DEF Merge, FormInv, StrandsForm, Strand
  <2>4. StrandsForm'
    BY <1>19, <2>2, <2>3, StrandMoves DEF Merge
  <2>5. RepositoryForm'
    BY <1>19, <2>1 DEF Merge, StrandFits, OnBranch, FormInv, RepositoryForm
  <2>6. QED  BY <1>19, <2>4, <2>5, FormFrame DEF Merge, FormInv, KeepRest
<1>20. ASSUME NEW w \in Worker, WriteSucceeded(w)
      PROVE  FormInv'
  <2> DEFINE r == strand[w].run
             new == [arun[r] EXCEPT !.status = "succeeded", !.pr = strand[w].branch]
  <2>1. r \in AutofixRun /\ strand[w].branch \in Branch /\ arun[r] \in RunRow
    BY <1>20 DEF WriteSucceeded, FormInv, StrandsForm, StrandFits, OnBranch, RowsForm
  <2>2. new \in RunRow /\ RowFits(new)
    BY <2>1 DEF RunRow, RowFits, Status
  <2>3. arun' = [arun EXCEPT ![r] = new]
    BY <1>20, <2>1 DEF WriteSucceeded, FormInv, RowsForm, RunRow
  <2>4. RowsForm'
    BY <2>2, <2>3, RowMoves
  <2>5. StrandsForm'
    BY <1>20, <2>1, OfFits, StrandMoves DEF WriteSucceeded
  <2>6. QED  BY <1>20, <2>4, <2>5, FormFrame
                DEF WriteSucceeded, FormInv, KeepRest, KeepRepository
<1>21. ASSUME NEW w \in Worker, End(w)
      PROVE  FormInv'
  <2>1. NoRow \in JobRow /\ NoTask \in Task /\ JobFits(NoRow, NoTask)
    BY ServiceJobsAssumption DEF NoRow, JobRow, JobState, NoTask, Task, JobFits
  <2>2. JobsForm'
    BY <1>21, <2>1 DEF End, FormInv, JobsForm
  <2>3. StrandsForm'
    BY <1>21, StartFits, StrandMoves DEF End
  <2>4. PlacesForm'
    BY <1>21, LeavesForm DEF End, FormInv, PlacesForm
  <2>5. QED  BY <1>21, <2>2, <2>3, <2>4, FormFrame DEF End, FormInv
<1>22. ASSUME NEW b \in Branch, CiReports(b)
      PROVE  FormInv'
  <2>1. RepositoryForm'
    BY <1>22 DEF CiReports, FormInv, RepositoryForm
  <2>2. QED  BY <1>22, <2>1, FormFrame DEF CiReports, FormInv, queue
<1>23. ASSUME NEW b \in Branch, DeadlinePasses(b)
      PROVE  FormInv'
  <2>1. RepositoryForm'
    BY <1>23 DEF DeadlinePasses, FormInv, RepositoryForm
  <2>2. QED  BY <1>23, <2>1, FormFrame DEF DeadlinePasses, FormInv, queue
<1>24. ASSUME NEW w \in Worker, StatementCaught(w)
      PROVE  FormInv'
  <2>1. strand[w].run \in AutofixRun
    BY <1>24 DEF StatementCaught, Executing, Checking, FormInv, StrandsForm, StrandFits
  <2>2. StrandsForm'
    BY <1>24, <2>1, OfFits, StartFits, StrandMoves DEF StatementCaught
  <2>3. HistoryForm' /\ PlacesForm'
    BY <1>24, <2>1, FaultForm DEF StatementCaught, FormInv, HistoryForm, PlacesForm
  <2>4. QED  BY <1>24, <2>2, <2>3, FormFrame DEF StatementCaught, FormInv, KeepTables
<1>25. ASSUME NEW w \in Worker, StatementThrows(w)
      PROVE  FormInv'
  <2>1. StrandsForm'
    BY <1>25, StartFits, StrandMoves DEF StatementThrows
  <2>2. JobsForm'
    BY <1>25, FailedForm, FormFrame DEF StatementThrows, Breaks, KeepTables, RunInv
  <2>3. PlacesForm'
    BY <1>25, FaultForm, LeavesForm DEF StatementThrows, Breaks, FormInv, PlacesForm
  <2>4. HistoryForm'
    BY <1>25, CutOffForm DEF StatementThrows, Breaks, FormInv, HistoryForm
  <2>5. QED  BY <1>25, <2>1, <2>2, <2>3, <2>4, FormFrame
                DEF StatementThrows, FormInv, KeepTables
<1>26. ASSUME NEW w \in Worker, Die(w)
      PROVE  FormInv'
  <2>1. StrandsForm'
    BY <1>26, StartFits DEF Die, FormInv, StrandsForm
  <2>2. PlacesForm'
    BY <1>26, FaultForm, LeavesForm DEF Die, Dies, FormInv, PlacesForm
  <2>3. HistoryForm'
    BY <1>26, CutOffForm DEF Die, Dies, FormInv, HistoryForm
  <2>4. QED  BY <1>26, <2>1, <2>2, <2>3, FormFrame DEF Die, Dies, FormInv, KeepTables
<1>27. ASSUME NEW w \in Worker, NEW j \in Job, Begin(w, j)
      PROVE  FormInv'
  <2>1. job[j] \in JobRow /\ job[j].state = "waiting" /\ JobFits(job[j], task[j])
    BY <1>27 DEF Begin, Claim, FormInv, JobsForm
  <2>2. job[j].tries + 1 \in 0..MaxAttempts
    BY <2>1, ServiceJobsAssumption DEF JobRow, JobFits
  <2>3. [state |-> "active", tries |-> job[j].tries + 1] \in JobRow
    BY <2>2 DEF JobRow, JobState
  <2>4. JobFits([state |-> "active", tries |-> job[j].tries + 1], task[j])
    BY <2>1 DEF JobFits
  <2>5. JobsForm'
    BY <1>27, <2>3, <2>4 DEF Begin, Claim, KeepTables, FormInv, JobsForm
  <2>6. [job |-> j, attempt |-> job[j].tries + 1, late |-> FALSE] \in Run
    BY <2>2 DEF Run
  <2>7. PlacesForm'
    BY <1>27, <2>6 DEF Begin, Claim, FormInv, PlacesForm
  <2>8. QED  BY <1>27, <2>5, <2>7, FormFrame
                DEF Begin, KeepHandlers, KeepTables, FormInv
<1>28. ASSUME NEW j \in Job, Sweep(j)
      PROVE  FormInv'
  <2>1. JobsForm'
    BY <1>28, FailedForm DEF Sweep, Swept, KeepTables
  <2>2. QED  BY <1>28, <2>1, FormFrame
                DEF Sweep, Swept, KeepHandlers, KeepTables, FormInv
<1>29. CASE UNCHANGED vars
  BY <1>29, FormFrame DEF vars, queue, FormInv
<1>30. QED
  BY <1>1, <1>2, <1>3, <1>4, <1>5, <1>6, <1>7, <1>8, <1>9, <1>10, <1>11, <1>12, <1>13, <1>14, <1>15,
     <1>16, <1>17, <1>18, <1>19, <1>20, <1>21, <1>22, <1>23, <1>24, <1>25, <1>26, <1>27, <1>28, <1>29
     DEF Next, RequestStep, ExecuteStep, HandlerStep, QueueStep

-----------------------------------------------------------------------------
(* Handlers and the jobs they run.                                         *)

LEMMA RunStep ==
  ASSUME RunInv, NEW w \in Worker,
         \A v \in Worker \ {w} : run'[v] = run[v] /\ strand'[v] = strand[v],
         \A v \in Worker \ {w} : run[v].job # None =>
           job'[run[v].job].state = "active" /\ task'[run[v].job] = task[run[v].job],
         ~run'[w].late,
         run'[w].job # None =>
           /\ job'[run'[w].job].state = "active"
           /\ \A v \in Worker \ {w} : run[v].job # run'[w].job,
         Suits(strand'[w], run'[w].job, task'[run'[w].job]),
         \A v \in Worker : ghost'[v].pc # "start" => ghost'[v].run \in overran'
  PROVE  RunInv'
<1>1. \A v \in Worker : ~run'[v].late /\ (run'[v].job # None => job'[run'[v].job].state = "active")
  BY DEF RunInv
<1>2. \A u, v \in Worker : u # v /\ run'[u].job = run'[v].job => run'[u].job = None
  BY DEF RunInv
<1>3. ASSUME NEW v \in Worker
      PROVE  Suits(strand'[v], run'[v].job, task'[run'[v].job])
  <2>1. CASE v = w
    BY <2>1
  <2>2. CASE v # w /\ run[v].job # None
    BY <2>2 DEF RunInv
  <2>3. CASE v # w /\ run[v].job = None
    <3>1. strand[v].pc = "start"
      BY <2>3 DEF RunInv, Suits
    <3>2. QED  BY <2>3, <3>1 DEF Suits, Executing, Checking
  <2>4. QED  BY <2>1, <2>2, <2>3
<1>4. QED  BY <1>1, <1>2, <1>3 DEF RunInv

LEMMA RunsOwn ==
  ASSUME RunInv, NEW w \in Worker
  PROVE  /\ ~run[w].late
         /\ run[w].job # None =>
              /\ job[run[w].job].state = "active"
              /\ \A v \in Worker \ {w} : run[v].job # run[w].job
         /\ Suits(strand[w], run[w].job, task[run[w].job])
  BY DEF RunInv

LEMMA StrandRuns ==
  ASSUME FormInv, RunInv, NEW w \in Worker, NEW new, Suits(new, run[w].job, task[run[w].job]),
         strand' = [strand EXCEPT ![w] = new], UNCHANGED <<job, run, task>>,
         \A v \in Worker : ghost'[v].pc # "start" => ghost'[v].run \in overran'
  PROVE  RunInv'
<1>1. strand'[w] = new /\ \A v \in Worker \ {w} : strand'[v] = strand[v]
  BY DEF FormInv, StrandsForm
<1>2. QED  BY <1>1, RunsOwn, RunStep DEF RunInv

LEMMA GhostsMove ==
  ASSUME FormInv, RunInv, NEW w \in Worker, NEW new,
         new.pc = "start" \/ new.run = ghost[w].run, ghost[w].pc # "start",
         ghost' = [ghost EXCEPT ![w] = new], UNCHANGED overran
  PROVE  \A v \in Worker : ghost'[v].pc # "start" => ghost'[v].run \in overran'
  BY DEF FormInv, StrandsForm, RunInv

LEMMA EnqueueRuns ==
  ASSUME FormInv, RunInv, NEW kind, NEW r, Enqueue(kind, r)
  PROVE  \A v \in Worker : run[v].job # None =>
           job'[run[v].job].state = "active" /\ task'[run[v].job] = task[run[v].job]
<1>1. PICK j \in Job : /\ job[j].state = "absent"
                       /\ job' = Enqueued({j})
                       /\ task' = [task EXCEPT ![j] = [kind |-> kind, run |-> r]]
  BY DEF Enqueue
<1>2. \A v \in Worker : run[v].job # None =>
        run[v].job \in Job /\ run[v].job # j /\ job[run[v].job].state = "active"
  BY <1>1 DEF RunInv, FormInv, PlacesForm, Run
<1>3. QED  BY <1>1, <1>2 DEF Enqueued, Live, FormInv, JobsForm

LEMMA BecomesRuns ==
  ASSUME FormInv, RunInv, NEW g \in BOOLEAN, NEW w \in Worker, NEW new,
         Becomes(g, w, new), At(g, w).pc # "start", UNCHANGED <<run, overran>>,
         \A v \in Worker : run[v].job # None =>
           job'[run[v].job].state = "active" /\ task'[run[v].job] = task[run[v].job],
         g => new.pc = "start" \/ new.run = ghost[w].run,
         ~g => Suits(new, run[w].job, task[run[w].job])
  PROVE  RunInv'
<1>1. CASE g
  <2>1. strand' = strand /\ ghost' = [ghost EXCEPT ![w] = new] /\ ghost[w].pc # "start"
    BY <1>1 DEF Becomes, At
  <2>2. \A v \in Worker : ghost'[v].pc # "start" => ghost'[v].run \in overran'
    BY <1>1, <2>1, GhostsMove
  <2>3. Suits(strand[w], run[w].job, task'[run[w].job])
    <3>1. CASE run[w].job # None
      BY <3>1 DEF RunInv
    <3>2. CASE run[w].job = None
      BY <3>2 DEF RunInv, Suits, Executing, Checking
    <3>3. QED  BY <3>1, <3>2
  <2>4. QED  BY <2>1, <2>2, <2>3, RunStep, RunsOwn
<1>2. CASE ~g
  <2>1. /\ strand'[w] = new /\ ghost' = ghost
        /\ \A v \in Worker \ {w} : strand'[v] = strand[v]
    BY <1>2 DEF Becomes, FormInv, StrandsForm
  <2>2. run[w].job # None
    BY <1>2 DEF At, RunInv, Suits
  <2>3. QED  BY <1>2, <2>1, <2>2, RunStep, RunsOwn DEF RunInv
<1>3. QED  BY <1>1, <1>2

LEMMA LeavesRuns ==
  ASSUME FormInv, RunInv, NEW w \in Worker, Leaves(w), strand' = [strand EXCEPT ![w] = Start],
         \A j \in Job \ {run[w].job} : job'[j] = job[j] /\ task'[j] = task[j],
         \A v \in Worker : ghost'[v].pc # "start" => ghost'[v].run \in overran'
  PROVE  RunInv'
<1>1. /\ run'[w] = NoRun /\ \A v \in Worker \ {w} : run'[v] = run[v]
      /\ strand'[w] = Start /\ \A v \in Worker \ {w} : strand'[v] = strand[v]
  BY DEF Leaves, FormInv, PlacesForm, StrandsForm
<1>2. \A v \in Worker \ {w} : run[v].job # None => run[v].job \in Job \ {run[w].job}
  BY DEF FormInv, PlacesForm, Run, RunInv
<1>3. Suits(Start, None, task'[None]) /\ NoRun.job = None /\ ~NoRun.late
  BY DEF Suits, Start, Executing, Checking, NoRun
<1>4. QED  BY <1>1, <1>2, <1>3, RunStep DEF RunInv

LEMMA RunFrame ==
  ASSUME RunInv, UNCHANGED <<job, run, task, strand, ghost, overran>>
  PROVE  RunInv'
  BY DEF RunInv

LEMMA StartSuits ==
  ASSUME NEW j, NEW t, NEW r
  PROVE  /\ Suits(Start, j, t)
         /\ j # None => Suits(Ended, j, t)
         /\ j # None /\ t.run = r => Suits(Of("fail", r), j, t)
         /\ j # None /\ t.run = r /\ t.kind = "checks" => Suits(Of("note", r), j, t)
         /\ j # None /\ t.run = r /\ t.kind = "autofix" =>
              Suits(Of("after", r), j, t) /\ Suits(Of("requeue", r), j, t)
                /\ Suits(Of("schedule", r), j, t)
<1>1. /\ Start.pc = "start" /\ Ended.pc = "end"
      /\ \A pc : Of(pc, r).pc = pc /\ Of(pc, r).run = r
  BY DEF Start, Ended, Of
<1>2. Suits(Start, j, t) /\ (j # None => Suits(Ended, j, t))
  BY <1>1 DEF Suits, Executing, Checking
<1>3. \A pc \in {"fail", "note"} : j # None /\ t.run = r /\ (pc = "note" => t.kind = "checks")
        => Suits(Of(pc, r), j, t)
  BY <1>1 DEF Suits, Executing, Checking
<1>4. \A pc \in {"after", "requeue", "schedule"} : j # None /\ t.run = r /\ t.kind = "autofix"
        => Suits(Of(pc, r), j, t)
  BY <1>1 DEF Suits, Executing, Checking
<1>5. QED  BY <1>2, <1>3, <1>4

LEMMA StrandSuits ==
  ASSUME RunInv, NEW w \in Worker
  PROVE  /\ strand[w].pc # "start" => run[w].job # None
         /\ strand[w].pc \notin {"start", "end"} => task[run[w].job].run = strand[w].run
         /\ strand[w].pc \in Executing => task[run[w].job].kind = "autofix"
         /\ strand[w].pc \in Checking => task[run[w].job].kind = "checks"
  BY DEF RunInv, Suits

LEMMA RunKept ==
  ASSUME FormInv, RunInv, [Next]_vars
  PROVE  RunInv'
<1>1. ASSUME NEW q \in Request, NEW r \in AutofixRun, NEW i \in Issue, Trigger(q, r, i)
      PROVE  RunInv'
  BY <1>1, RunFrame DEF Trigger, KeepWork
<1>2. ASSUME NEW q \in Request, NEW r \in AutofixRun, AskForFix(q, r)
      PROVE  RunInv'
  BY <1>2, RunFrame DEF AskForFix, KeepWork
<1>3. ASSUME NEW q \in Request, RequestRestarts(q)
      PROVE  RunInv'
  BY <1>3, RunFrame DEF RequestRestarts, KeepWork
<1>4. ASSUME NEW q \in Request, RequestEnqueues(q)
      PROVE  RunInv'
  <2>1. \A v \in Worker : run[v].job # None =>
          job'[run[v].job].state = "active" /\ task'[run[v].job] = task[run[v].job]
    BY <1>4, EnqueueRuns DEF RequestEnqueues
  <2>2. UNCHANGED <<run, strand, ghost, overran>>
    BY <1>4 DEF RequestEnqueues, KeepWork
  <2>3. \A v \in Worker : Suits(strand[v], run[v].job, task'[run[v].job])
    <3> TAKE v \in Worker
    <3>1. CASE run[v].job # None
      BY <2>1, <3>1 DEF RunInv
    <3>2. CASE run[v].job = None
      BY <3>2 DEF RunInv, Suits, Executing, Checking
    <3>3. QED  BY <3>1, <3>2
  <2>4. QED  BY <2>1, <2>2, <2>3 DEF RunInv
<1>5. ASSUME NEW q \in Request, RequestDies(q)
      PROVE  RunInv'
  BY <1>5, RunFrame DEF RequestDies, KeepWork
<1>6. ASSUME NEW w \in Worker, ClaimRun(w)
      PROVE  RunInv'
  <2> DEFINE r == task[run[w].job].run
             new == [Of("work", r) EXCEPT !.phase = arun[r].phase]
  <2>1. Suits(new, run[w].job, task[run[w].job])
    BY <1>6 DEF ClaimRun, Handles, Suits, Of, Start, Checking
  <2>2. QED  BY <1>6, <2>1, StartSuits, StrandRuns
                DEF ClaimRun, Handles, KeepRest, RunInv
<1>7. ASSUME NEW g \in BOOLEAN, NEW w \in Worker, WorkThrows(g, w)
      PROVE  RunInv'
  <2>1. ~g => run[w].job # None /\ task[run[w].job].kind = "autofix"
                /\ task[run[w].job].run = At(g, w).run
    BY <1>7, StrandSuits DEF WorkThrows, At, Executing
  <2>2. QED  BY <1>7, <2>1, StrandSuits, StartSuits, StartFits, BecomesRuns
             DEF WorkThrows, Rejects, At, KeepRest, RunInv
<1>8. ASSUME NEW g \in BOOLEAN, NEW w \in Worker, WorkAnalyses(g, w)
      PROVE  RunInv'
  <2>1. ~g => run[w].job # None /\ task[run[w].job].kind = "autofix"
                /\ task[run[w].job].run = At(g, w).run
    BY <1>8, StrandSuits DEF WorkAnalyses, At, Executing
  <2>2. Of("after", At(g, w).run).run = At(g, w).run
    BY DEF Of, Start
  <2>3. QED  BY <1>8, <2>1, <2>2, StartSuits, BecomesRuns
                DEF WorkAnalyses, At, KeepRest, RunInv
<1>9. ASSUME NEW g \in BOOLEAN, NEW w \in Worker, NEW b \in Branch, WorkPushes(g, w, b)
      PROVE  RunInv'
  <2>1. ~g => run[w].job # None /\ task[run[w].job].kind = "autofix"
                /\ task[run[w].job].run = At(g, w).run
    BY <1>9, StrandSuits DEF WorkPushes, At, Executing
  <2> DEFINE r == At(g, w).run
  <2>2. CASE Becomes(g, w, Of("schedule", r))
    <3>1. Of("schedule", r).run = r
      BY DEF Of, Start
    <3>2. QED  BY <1>9, <2>1, <2>2, <3>1, StartSuits, BecomesRuns
               DEF WorkPushes, At, KeepRest, RunInv
  <2>3. CASE Rejects(g, w)
    BY <1>9, <2>1, <2>3, StartSuits, StartFits, BecomesRuns
       DEF WorkPushes, Rejects, At, KeepRest, RunInv
  <2>4. QED  BY <1>9, <2>2, <2>3 DEF WorkPushes
<1>10. ASSUME NEW g \in BOOLEAN, NEW w \in Worker, AfterAnalysis(g, w)
      PROVE  RunInv'
  <2>1. ~g => run[w].job # None /\ task[run[w].job].kind = "autofix"
                /\ task[run[w].job].run = At(g, w).run
    BY <1>10, StrandSuits DEF AfterAnalysis, At, Executing
  <2> DEFINE r == At(g, w).run
             new == [Of("restart", r) EXCEPT !.seen = arun[r].status]
  <2>2. CASE Completes(g, w)
    BY <1>10, <2>1, <2>2, StartSuits, StartFits, BecomesRuns
       DEF AfterAnalysis, Completes, KeepRest, RunInv
  <2>3. CASE Becomes(g, w, new)
    <3>1. new.run = r /\ (~g => Suits(new, run[w].job, task[run[w].job]))
      BY <2>1 DEF Of, Start, Suits, Checking
    <3>2. QED  BY <1>10, <2>3, <3>1, BecomesRuns DEF AfterAnalysis, At, KeepRest, RunInv
  <2>4. QED  BY <1>10, <2>2, <2>3 DEF AfterAnalysis
<1>11. ASSUME NEW g \in BOOLEAN, NEW w \in Worker, AutoRestarts(g, w)
      PROVE  RunInv'
  <2>1. ~g => run[w].job # None /\ task[run[w].job].kind = "autofix"
                /\ task[run[w].job].run = At(g, w).run
    BY <1>11, StrandSuits DEF AutoRestarts, At, Executing
  <2> DEFINE r == At(g, w).run
  <2>2. CASE Completes(g, w)
    BY <1>11, <2>1, <2>2, StartSuits, StartFits, BecomesRuns
       DEF AutoRestarts, Completes, KeepRest, RunInv
  <2>3. CASE Becomes(g, w, Of("requeue", r))
    <3>1. Of("requeue", r).run = r
      BY DEF Of, Start
    <3>2. QED  BY <1>11, <2>1, <2>3, <3>1, StartSuits, BecomesRuns
               DEF AutoRestarts, At, KeepRest, RunInv
  <2>4. QED  BY <1>11, <2>2, <2>3 DEF AutoRestarts
<1>12. ASSUME NEW g \in BOOLEAN, NEW w \in Worker, AutoEnqueues(g, w)
      PROVE  RunInv'
  <2>1. ~g => run[w].job # None /\ task[run[w].job].kind = "autofix"
                /\ task[run[w].job].run = At(g, w).run
    BY <1>12, StrandSuits DEF AutoEnqueues, At, Executing
  <2>2. QED  BY <1>12, <2>1, EnqueueRuns, StartSuits, StartFits, BecomesRuns
             DEF AutoEnqueues, Completes, KeepRest
<1>13. ASSUME NEW g \in BOOLEAN, NEW w \in Worker, ScheduleFirst(g, w)
      PROVE  RunInv'
  <2>1. ~g => run[w].job # None /\ task[run[w].job].kind = "autofix"
                /\ task[run[w].job].run = At(g, w).run
    BY <1>13, StrandSuits DEF ScheduleFirst, At, Executing
  <2>2. QED  BY <1>13, <2>1, EnqueueRuns, StartSuits, StartFits, BecomesRuns
             DEF ScheduleFirst, Completes, KeepRest
<1>14. ASSUME NEW w \in Worker, TimesOut(w)
      PROVE  RunInv'
  <2>1. Suits(Of("fail", strand[w].run), run[w].job, task[run[w].job])
    BY <1>14, StrandSuits, StartSuits DEF TimesOut, Executing
  <2>2. \A v \in Worker : ghost'[v].pc # "start" => ghost'[v].run \in overran'
    BY <1>14 DEF TimesOut, FormInv, StrandsForm, RunInv
  <2>3. QED  BY <1>14, <2>1, <2>2, StrandRuns DEF TimesOut
<1>15. ASSUME NEW w \in Worker, FailRun(w)
      PROVE  RunInv'
  BY <1>15, StrandSuits, StartSuits, StrandRuns DEF FailRun, KeepRest, RunInv
<1>16. ASSUME NEW w \in Worker, ReadRun(w)
      PROVE  RunInv'
  <2> DEFINE r == task[run[w].job].run
             new == [Of("poll", r) EXCEPT !.branch = arun[r].branch]
  <2>1. Suits(new, run[w].job, task[run[w].job])
    BY <1>16 DEF ReadRun, Handles, Suits, Of, Start, Executing
  <2>2. QED  BY <1>16, <2>1, StartSuits, StrandRuns
                DEF ReadRun, Handles, KeepRest, RunInv
<1>17. ASSUME NEW w \in Worker, Poll(w)
      PROVE  RunInv'
  <2>1. run[w].job # None /\ task[run[w].job].run = strand[w].run
          /\ task[run[w].job].kind = "checks"
    BY <1>17, StrandSuits DEF Poll, Checking
  <2>2. CASE UNCHANGED <<job, task>> /\ strand' = [strand EXCEPT ![w] = Of("fail", strand[w].run)]
    BY <1>17, <2>1, <2>2, StartSuits, StrandRuns DEF Poll, KeepRest, RunInv
  <2>3. CASE Enqueue("checks", strand[w].run) /\ strand' = [strand EXCEPT ![w] = Ended]
    <3>1. strand'[w] = Ended /\ \A v \in Worker \ {w} : strand'[v] = strand[v]
      BY <2>3 DEF FormInv, StrandsForm
    <3>2. UNCHANGED <<run, ghost, overran>>
      BY <1>17 DEF Poll, KeepRest
    <3>3. Suits(strand'[w], run'[w].job, task'[run'[w].job])
      BY <2>1, <3>1, <3>2, StartSuits
    <3>4. \A v \in Worker : run[v].job # None =>
            job'[run[v].job].state = "active" /\ task'[run[v].job] = task[run[v].job]
      BY <2>3, EnqueueRuns
    <3>5. QED  BY <2>1, <3>1, <3>2, <3>3, <3>4, RunsOwn, RunStep DEF RunInv
  <2>4. ASSUME NEW verified \in BOOLEAN, UNCHANGED <<job, task>>,
               strand' = [strand EXCEPT ![w].pc = "open", ![w].verified = verified]
        PROVE  RunInv'
    <3> DEFINE new == [strand[w] EXCEPT !.pc = "open", !.verified = verified]
    <3>1. strand[w] \in Strand
      BY DEF FormInv, StrandsForm
    <3>2. new.pc = "open" /\ new.run = strand[w].run
      BY <3>1 DEF Strand
    <3>3. Suits(new, run[w].job, task[run[w].job])
      BY <2>1, <3>2 DEF Suits, Executing
    <3>4. strand' = [strand EXCEPT ![w] = new]
      BY <2>4, <3>1 DEF FormInv, StrandsForm, Strand
    <3>5. UNCHANGED <<job, run, task, ghost, overran>>
      BY <1>17, <2>4 DEF Poll, KeepRest
    <3> HIDE DEF new
    <3>6. \A v \in Worker : ghost'[v].pc # "start" => ghost'[v].run \in overran'
      BY <3>5 DEF RunInv
    <3>7. QED  BY <3>3, <3>4, <3>5, <3>6, StrandRuns
  <2>5. QED  BY <1>17, <2>2, <2>3, <2>4 DEF Poll
<1>18. ASSUME NEW w \in Worker, OpenPullRequest(w)
      PROVE  RunInv'
  <2>1. run[w].job # None /\ task[run[w].job].run = strand[w].run
          /\ task[run[w].job].kind = "checks"
    BY <1>18, StrandSuits DEF OpenPullRequest, Checking
  <2>2. CASE strand' = [strand EXCEPT ![w] = Of("fail", strand[w].run)]
    BY <1>18, <2>1, <2>2, StartSuits, StrandRuns DEF OpenPullRequest, KeepRest, RunInv
  <2>3. ASSUME NEW pc \in {"opened", "merge"},
               strand' = [strand EXCEPT ![w].pc = pc, ![w].verified = FALSE]
        PROVE  RunInv'
    <3> DEFINE new == [strand[w] EXCEPT !.pc = pc, !.verified = FALSE]
    <3>1. strand[w] \in Strand
      BY DEF FormInv, StrandsForm
    <3>2. new.pc = pc /\ new.run = strand[w].run
      BY <3>1 DEF Strand
    <3>3. Suits(new, run[w].job, task[run[w].job])
      BY <2>1, <3>2 DEF Suits, Executing
    <3>4. strand' = [strand EXCEPT ![w] = new]
      BY <2>3, <3>1 DEF FormInv, StrandsForm, Strand
    <3>5. QED  BY <1>18, <3>3, <3>4, StrandRuns DEF OpenPullRequest, KeepRest, RunInv
  <2>4. QED  BY <1>18, <2>2, <2>3 DEF OpenPullRequest
<1>19. ASSUME NEW w \in Worker, Merge(w)
      PROVE  RunInv'
  <2> DEFINE new == [strand[w] EXCEPT !.pc = "opened"]
  <2>1. strand' = [strand EXCEPT ![w] = new]
    BY <1>19 DEF Merge, FormInv, StrandsForm, Strand
  <2>2. Suits(new, run[w].job, task[run[w].job])
    BY <1>19, StrandSuits
       DEF Merge, FormInv, StrandsForm, Strand, Suits, Executing, Checking
  <2>3. QED  BY <1>19, <2>1, <2>2, StrandRuns DEF Merge, KeepRest, RunInv
<1>20. ASSUME NEW w \in Worker, WriteSucceeded(w)
      PROVE  RunInv'
  <2>1. /\ run[w].job # None /\ task[run[w].job].run = strand[w].run
        /\ task[run[w].job].kind = "checks"
    BY <1>20, StrandSuits DEF WriteSucceeded, Checking
  <2>2. QED  BY <1>20, <2>1, StartSuits, StrandRuns DEF WriteSucceeded, KeepRest, RunInv
<1>21. ASSUME NEW w \in Worker, End(w)
      PROVE  RunInv'
  <2>1. \A j \in Job \ {run[w].job} : job'[j] = job[j] /\ task'[j] = task[j]
    BY <1>21 DEF End, FormInv, JobsForm
  <2>2. QED  BY <1>21, <2>1, LeavesRuns DEF End, RunInv
<1>22. ASSUME NEW b \in Branch, CiReports(b)
      PROVE  RunInv'
  BY <1>22, RunFrame DEF CiReports, queue
<1>23. ASSUME NEW b \in Branch, DeadlinePasses(b)
      PROVE  RunInv'
  BY <1>23, RunFrame DEF DeadlinePasses, queue
<1>24. ASSUME NEW w \in Worker, StatementCaught(w)
      PROVE  RunInv'
  <2>1. run[w].job # None /\ task[run[w].job].run = strand[w].run
    BY <1>24, StrandSuits DEF StatementCaught, Executing, Checking
  <2>2. QED  BY <1>24, <2>1, StartSuits, StrandRuns
                DEF StatementCaught, KeepTables, RunInv
<1>25. ASSUME NEW w \in Worker, StatementThrows(w)
      PROVE  RunInv'
  <2>1. \A j \in Job \ {run[w].job} : job'[j] = job[j] /\ task'[j] = task[j]
    BY <1>25 DEF StatementThrows, Breaks, Failed, Settled, KeepTables, FormInv, JobsForm
  <2>2. QED  BY <1>25, <2>1, LeavesRuns DEF StatementThrows, Breaks, RunInv
<1>26. ASSUME NEW w \in Worker, Die(w)
      PROVE  RunInv'
  <2>1. \A v \in Worker : ghost'[v].pc # "start" => ghost'[v].run \in overran'
    BY <1>26 DEF Die, Start, FormInv, StrandsForm, RunInv
  <2>2. QED  BY <1>26, <2>1, LeavesRuns DEF Die, Dies, KeepTables
<1>27. ASSUME NEW w \in Worker, NEW j \in Job, Begin(w, j)
      PROVE  RunInv'
  <2>1. strand[w].pc = "start"
    BY <1>27, StrandSuits DEF Begin, Claim, NoRun
  <2>2. run'[w].job = j /\ ~run'[w].late /\ \A v \in Worker \ {w} : run'[v] = run[v]
    BY <1>27 DEF Begin, Claim, FormInv, PlacesForm
  <2>3. /\ job[j].state = "waiting" /\ job'[j].state = "active"
        /\ \A i \in Job \ {j} : job'[i] = job[i]
    BY <1>27 DEF Begin, Claim, FormInv, JobsForm
  <2>4. \A v \in Worker : run[v].job # None => run[v].job \in Job \ {j}
    BY <2>3 DEF RunInv, FormInv, PlacesForm, Run
  <2>5. j # None
    BY ServiceJobsAssumption
  <2>6. UNCHANGED <<task, strand, ghost, overran>>
    BY <1>27 DEF Begin, KeepTables, KeepHandlers
  <2>7. Suits(strand[w], j, task[j])
    BY <2>1 DEF Suits, Executing, Checking
  <2>8. QED  BY <2>2, <2>3, <2>4, <2>5, <2>6, <2>7, RunStep DEF RunInv
<1>28. ASSUME NEW j \in Job, Sweep(j)
      PROVE  RunInv'
  <2>1. \A v \in Worker : run[v].job # j
    BY <1>28 DEF Sweep, Swept, Runs, RunInv
  <2>2. \A i \in Job \ {j} : job'[i] = job[i]
    BY <1>28 DEF Sweep, Swept, Failed, Settled, FormInv, JobsForm
  <2>3. UNCHANGED <<run, task, strand, ghost, overran>>
    BY <1>28 DEF Sweep, Swept, KeepTables, KeepHandlers
  <2>4. \A v \in Worker : run[v].job # None => run[v].job \in Job
    BY DEF FormInv, PlacesForm, Run
  <2>5. QED  BY <2>1, <2>2, <2>3, <2>4 DEF RunInv
<1>29. CASE UNCHANGED vars
  BY <1>29, RunFrame DEF vars, queue
<1>30. QED
  BY <1>1, <1>2, <1>3, <1>4, <1>5, <1>6, <1>7, <1>8, <1>9, <1>10, <1>11, <1>12, <1>13, <1>14, <1>15,
     <1>16, <1>17, <1>18, <1>19, <1>20, <1>21, <1>22, <1>23, <1>24, <1>25, <1>26, <1>27, <1>28, <1>29
     DEF Next, RequestStep, ExecuteStep, HandlerStep, QueueStep

-----------------------------------------------------------------------------
(* What is merged has passed.                                              *)

\* A strand that is not about to merge or to open a verified pull request.
Harmless(x) == x.pc # "merge" /\ ~(x.pc = "open" /\ x.verified)

LEMMA PassFrame ==
  ASSUME PassInv, UNCHANGED <<strand, ci, merged>>
  PROVE  PassInv'
  BY DEF PassInv, MergedPassedCI

LEMMA PassMoves ==
  ASSUME FormInv, PassInv, NEW w \in Worker, NEW new,
         Harmless(new) \/ ci[new.branch] = "success",
         strand' = [strand EXCEPT ![w] = new], UNCHANGED <<ci, merged>>
  PROVE  PassInv'
  BY DEF FormInv, StrandsForm, PassInv, MergedPassedCI, Harmless

LEMMA PassBecomes ==
  ASSUME FormInv, PassInv, NEW g \in BOOLEAN, NEW w \in Worker, NEW new, Harmless(new),
         Becomes(g, w, new), UNCHANGED <<ci, merged>>
  PROVE  PassInv'
  BY PassFrame, PassMoves DEF Becomes

LEMMA HarmlessStrands ==
  /\ Harmless(Start) /\ Harmless(Ended)
  /\ \A r : /\ Harmless(Of("fail", r)) /\ Harmless(Of("after", r)) /\ Harmless(Of("requeue", r))
            /\ Harmless(Of("schedule", r)) /\ Harmless(Of("note", r))
  BY DEF Harmless, Start, Ended, Of

LEMMA Passes ==
  ASSUME FormInv, PassInv, \A v \in Worker : strand'[v] = strand[v] \/ Harmless(strand'[v]),
         \A b \in Branch : ci[b] = "success" => ci'[b] = "success", merged' = merged
  PROVE  PassInv'
<1>1. \A v \in Worker :
        strand'[v].pc = "merge" \/ (strand'[v].pc = "open" /\ strand'[v].verified) =>
          ci'[strand'[v].branch] = "success"
  BY DEF FormInv, StrandsForm, StrandFits, OnBranch, PassInv, Harmless
<1>2. QED  BY <1>1 DEF FormInv, RepositoryForm, PassInv, MergedPassedCI

LEMMA PassKept ==
  ASSUME FormInv, PassInv, [Next]_vars
  PROVE  PassInv'
<1>1. ASSUME NEW q \in Request, NEW r \in AutofixRun, NEW i \in Issue, Trigger(q, r, i)
      PROVE  PassInv'
  BY <1>1, PassFrame DEF Trigger, KeepWork, repository
<1>2. ASSUME NEW q \in Request, NEW r \in AutofixRun, AskForFix(q, r)
      PROVE  PassInv'
  BY <1>2, PassFrame DEF AskForFix, KeepWork, repository
<1>3. ASSUME NEW q \in Request, RequestRestarts(q)
      PROVE  PassInv'
  BY <1>3, PassFrame DEF RequestRestarts, KeepWork, repository
<1>4. ASSUME NEW q \in Request, RequestEnqueues(q)
      PROVE  PassInv'
  BY <1>4, PassFrame DEF RequestEnqueues, KeepWork, repository
<1>5. ASSUME NEW q \in Request, RequestDies(q)
      PROVE  PassInv'
  BY <1>5, PassFrame DEF RequestDies, KeepWork, repository
<1>6. ASSUME NEW w \in Worker, ClaimRun(w)
      PROVE  PassInv'
  <2> DEFINE r == task[run[w].job].run
             new == [Of("work", r) EXCEPT !.phase = arun[r].phase]
  <2>1. Harmless(new)
    BY DEF Harmless, Of, Start
  <2>2. QED  BY <1>6, <2>1, HarmlessStrands, PassMoves
                DEF ClaimRun, KeepRepository, repository
<1>7. ASSUME NEW g \in BOOLEAN, NEW w \in Worker, WorkThrows(g, w)
      PROVE  PassInv'
  BY <1>7, HarmlessStrands, PassBecomes
     DEF WorkThrows, Completes, Rejects, KeepRepository, repository
<1>8. ASSUME NEW g \in BOOLEAN, NEW w \in Worker, WorkAnalyses(g, w)
      PROVE  PassInv'
  BY <1>8, HarmlessStrands, PassBecomes
     DEF WorkAnalyses, Completes, Rejects, KeepRepository, repository
<1>9. ASSUME NEW g \in BOOLEAN, NEW w \in Worker, NEW b \in Branch, WorkPushes(g, w, b)
      PROVE  PassInv'
  <2> DEFINE r == At(g, w).run
  <2>1. CASE IndexRefuses(r, arun[r].issue)
    BY <1>9, <2>1, HarmlessStrands, PassBecomes DEF WorkPushes, Rejects
  <2>2. CASE ~IndexRefuses(r, arun[r].issue)
    <3>1. Becomes(g, w, Of("schedule", r)) /\ merged' = merged
      BY <1>9, <2>2 DEF WorkPushes
    <3>2. \A v \in Worker : strand'[v] = strand[v] \/ Harmless(strand'[v])
      BY <3>1, HarmlessStrands DEF Becomes, FormInv, StrandsForm
    <3>3. \A c \in Branch : ci[c] = "success" => ci'[c] = "success"
      BY <1>9, <2>2 DEF WorkPushes, FormInv, RepositoryForm
    <3>4. QED  BY <3>1, <3>2, <3>3, Passes
  <2>3. QED  BY <2>1, <2>2
<1>10. ASSUME NEW g \in BOOLEAN, NEW w \in Worker, AfterAnalysis(g, w)
      PROVE  PassInv'
  <2> DEFINE r == At(g, w).run
             new == [Of("restart", r) EXCEPT !.seen = arun[r].status]
  <2>1. Harmless(new)
    BY DEF Harmless, Of, Start
  <2>2. QED  BY <1>10, <2>1, HarmlessStrands, PassBecomes
             DEF AfterAnalysis, Completes, KeepRepository, repository
<1>11. ASSUME NEW g \in BOOLEAN, NEW w \in Worker, AutoRestarts(g, w)
      PROVE  PassInv'
  BY <1>11, HarmlessStrands, PassBecomes
     DEF AutoRestarts, Completes, Rejects, KeepRepository, repository
<1>12. ASSUME NEW g \in BOOLEAN, NEW w \in Worker, AutoEnqueues(g, w)
      PROVE  PassInv'
  BY <1>12, HarmlessStrands, PassBecomes
     DEF AutoEnqueues, Completes, Rejects, KeepRepository, repository
<1>13. ASSUME NEW g \in BOOLEAN, NEW w \in Worker, ScheduleFirst(g, w)
      PROVE  PassInv'
  BY <1>13, HarmlessStrands, PassBecomes
     DEF ScheduleFirst, Completes, Rejects, KeepRepository, repository
<1>14. ASSUME NEW w \in Worker, TimesOut(w)
      PROVE  PassInv'
  BY <1>14, HarmlessStrands, PassMoves DEF TimesOut, KeepRepository, repository
<1>15. ASSUME NEW w \in Worker, FailRun(w)
      PROVE  PassInv'
  BY <1>15, HarmlessStrands, PassMoves DEF FailRun, KeepRepository, repository
<1>16. ASSUME NEW w \in Worker, ReadRun(w)
      PROVE  PassInv'
  <2> DEFINE r == task[run[w].job].run
             new == [Of("poll", r) EXCEPT !.branch = arun[r].branch]
  <2>1. Harmless(new)
    BY DEF Harmless, Of, Start
  <2>2. QED  BY <1>16, <2>1, HarmlessStrands, PassMoves
                DEF ReadRun, KeepRepository, repository
<1>17. ASSUME NEW w \in Worker, Poll(w)
      PROVE  PassInv'
  <2> DEFINE b == strand[w].branch
             late == b \in expired
  <2>1. UNCHANGED <<ci, merged>> /\ strand[w] \in Strand
    BY <1>17 DEF Poll, KeepRepository, repository, FormInv, StrandsForm
  <2>2. CASE strand' = [strand EXCEPT ![w] = Of("fail", strand[w].run)]
             \/ strand' = [strand EXCEPT ![w] = Ended]
    BY <2>1, <2>2, HarmlessStrands, PassMoves
  <2>3. ASSUME NEW decision \in Decision(ci[b], late) \union Unreadable(late),
               strand' = [strand EXCEPT ![w].pc = "open",
                                        ![w].verified = (decision = "open verified")]
        PROVE  PassInv'
    <3> DEFINE new == [strand[w] EXCEPT !.pc = "open", !.verified = (decision = "open verified")]
    <3>1. strand' = [strand EXCEPT ![w] = new]
      BY <2>1, <2>3 DEF FormInv, StrandsForm, Strand
    <3>2. decision = "open verified" => ci[b] = "success"
      BY DEF Decision, Unreadable
    <3>3. new.branch = b /\ new.pc = "open" /\ new.verified = (decision = "open verified")
      BY <2>1 DEF Strand
    <3>4. Harmless(new) \/ ci[new.branch] = "success"
      BY <3>2, <3>3 DEF Harmless
    <3>5. QED  BY <2>1, <3>1, <3>4, PassMoves
  <2>4. QED  BY <1>17, <2>2, <2>3 DEF Poll
<1>18. ASSUME NEW w \in Worker, OpenPullRequest(w)
      PROVE  PassInv'
  <2>1. UNCHANGED <<ci, merged>> /\ strand[w] \in Strand
    BY <1>18 DEF OpenPullRequest, FormInv, StrandsForm
  <2>2. CASE strand' = [strand EXCEPT ![w] = Of("fail", strand[w].run)]
    BY <2>1, <2>2, HarmlessStrands, PassMoves
  <2>3. ASSUME NEW pc \in {"opened"} \union (IF strand[w].verified THEN {"merge"} ELSE {}),
               strand' = [strand EXCEPT ![w].pc = pc, ![w].verified = FALSE]
        PROVE  PassInv'
    <3> DEFINE new == [strand[w] EXCEPT !.pc = pc, !.verified = FALSE]
    <3>1. strand' = [strand EXCEPT ![w] = new]
      BY <2>1, <2>3 DEF FormInv, StrandsForm, Strand
    <3>2. new.branch = strand[w].branch /\ new.pc = pc
      BY <2>1 DEF Strand
    <3>3. pc = "merge" => ci[strand[w].branch] = "success"
      BY <1>18 DEF OpenPullRequest, PassInv
    <3>4. Harmless(new) \/ ci[new.branch] = "success"
      BY <3>2, <3>3 DEF Harmless
    <3>5. QED  BY <2>1, <3>1, <3>4, PassMoves
  <2>4. QED  BY <1>18, <2>2, <2>3 DEF OpenPullRequest
<1>19. ASSUME NEW w \in Worker, Merge(w)
      PROVE  PassInv'
  <2>1. ci[strand[w].branch] = "success"
    BY <1>19 DEF Merge, PassInv
  <2>2. \A v \in Worker : strand'[v] = strand[v] \/ Harmless(strand'[v])
    BY <1>19 DEF Merge, Harmless, FormInv, StrandsForm, Strand
  <2>3. \A b \in merged' : b \in merged \/ b = strand[w].branch
    BY <1>19 DEF Merge
  <2>4. ci' = ci
    BY <1>19 DEF Merge
  <2>5. QED  BY <2>1, <2>2, <2>3, <2>4 DEF PassInv, MergedPassedCI, Harmless
<1>20. ASSUME NEW w \in Worker, WriteSucceeded(w)
      PROVE  PassInv'
  BY <1>20, HarmlessStrands, PassMoves DEF WriteSucceeded, KeepRepository, repository
<1>21. ASSUME NEW w \in Worker, End(w)
      PROVE  PassInv'
  BY <1>21, HarmlessStrands, PassMoves DEF End, KeepRepository, repository
<1>22. ASSUME NEW b \in Branch, CiReports(b)
      PROVE  PassInv'
  <2>1. \A c \in Branch : ci[c] = "success" => ci'[c] = "success"
    BY <1>22 DEF CiReports, FormInv, RepositoryForm
  <2>2. QED  BY <1>22, <2>1, Passes DEF CiReports
<1>23. ASSUME NEW b \in Branch, DeadlinePasses(b)
      PROVE  PassInv'
  BY <1>23, PassFrame DEF DeadlinePasses
<1>24. ASSUME NEW w \in Worker, StatementCaught(w)
      PROVE  PassInv'
  BY <1>24, HarmlessStrands, PassMoves DEF StatementCaught, KeepTables, repository
<1>25. ASSUME NEW w \in Worker, StatementThrows(w)
      PROVE  PassInv'
  BY <1>25, HarmlessStrands, PassMoves DEF StatementThrows, KeepTables, repository
<1>26. ASSUME NEW w \in Worker, Die(w)
      PROVE  PassInv'
  BY <1>26, HarmlessStrands, PassMoves DEF Die, KeepTables, repository
<1>27. ASSUME NEW w \in Worker, NEW j \in Job, Begin(w, j)
      PROVE  PassInv'
  BY <1>27, PassFrame DEF Begin, KeepHandlers, KeepTables, repository
<1>28. ASSUME NEW j \in Job, Sweep(j)
      PROVE  PassInv'
  BY <1>28, PassFrame DEF Sweep, KeepHandlers, KeepTables, repository
<1>29. CASE UNCHANGED vars
  BY <1>29, PassFrame DEF vars, repository
<1>30. QED
  BY <1>1, <1>2, <1>3, <1>4, <1>5, <1>6, <1>7, <1>8, <1>9, <1>10, <1>11, <1>12, <1>13, <1>14, <1>15,
     <1>16, <1>17, <1>18, <1>19, <1>20, <1>21, <1>22, <1>23, <1>24, <1>25, <1>26, <1>27, <1>28, <1>29
     DEF Next, RequestStep, ExecuteStep, HandlerStep, QueueStep

-----------------------------------------------------------------------------
(* The holder of a run in flight.                                          *)

\* What a strand may do to the run r depends on it only here.
Matters(x, r) == x.run = r /\ x.pc \in Holding \union {"requeue"}

LEMMA HoldsMatters ==
  ASSUME NEW w \in Worker, NEW r
  PROVE  /\ Holds(w, r) <=> Matters(strand[w], r) /\ strand[w].pc # "requeue"
         /\ Requeues(w, r) <=> Matters(strand[w], r) /\ strand[w].pc = "requeue"
         /\ Holds(w, r)' <=> Matters(strand'[w], r) /\ strand'[w].pc # "requeue"
         /\ Requeues(w, r)' <=> Matters(strand'[w], r) /\ strand'[w].pc = "requeue"
  BY DEF Holds, Requeues, Matters, Holding, OnBranch

LEMMA SoundFrame ==
  ASSUME NEW r \in AutofixRun, Sound(r), arun'[r] = arun[r], opened \subseteq opened',
         \A j \in Job : Due(j, r)' <=> Due(j, r),
         \A w \in Worker : Holds(w, r)' <=> Holds(w, r),
         \A w \in Worker : Holds(w, r) =>
           strand'[w] = strand[w] /\ task'[run'[w].job] = task[run[w].job],
         arun[r].status = "queued" => Queued(r)'
  PROVE  Sound(r)'
<1>1. OneHolder(r)'
  BY DEF Sound, OneHolder
<1>2. \A w \in Worker : Holds(w, r)' => Agrees(w, r)'
  BY DEF Sound, Held, Agrees
<1>3. Held(r)'
  BY <1>2 DEF Sound, Held
<1>4. QED  BY <1>1, <1>3 DEF Sound

LEMMA FreeHasNoHolder ==
  ASSUME NEW r \in AutofixRun, Sound(r), arun[r].status \notin {"running", "checking"}
  PROVE  (\A j \in Job : ~Due(j, r)) /\ (\A w \in Worker : ~Holds(w, r))
<1>1. \A w \in Worker : Holds(w, r) /\ Agrees(w, r) => arun[r].status \in {"running", "checking"}
  BY DEF Agrees, Holds, Holding
<1>2. QED  BY <1>1 DEF Sound, Held

LEMMA SoundWithout ==
  ASSUME NEW r \in AutofixRun,
         \A j \in Job : ~Due(j, r)', \A w \in Worker : ~Holds(w, r)',
         arun'[r].status \notin {"running", "checking"},
         arun'[r].status = "queued" => Queued(r)',
         arun'[r].status = "succeeded" => arun'[r].pr = arun'[r].branch /\ arun'[r].pr \in opened'
  PROVE  Sound(r)'
  BY DEF Sound, OneHolder, Held

LEMMA SoundHolder ==
  ASSUME NEW r \in AutofixRun, NEW w \in Worker, Holds(w, r)', Agrees(w, r)',
         \A j \in Job : ~Due(j, r)', \A v \in Worker \ {w} : ~Holds(v, r)',
         arun'[r].status \in {"running", "checking"}
  PROVE  Sound(r)'
<1>1. \A v \in Worker : Holds(v, r)' => v = w
  OBVIOUS
<1>2. QED  BY <1>1 DEF Sound, OneHolder, Held

LEMMA SoundDue ==
  ASSUME NEW r \in AutofixRun, NEW i \in Job, Due(i, r)',
         \A j \in Job \ {i} : ~Due(j, r)', \A v \in Worker : ~Holds(v, r)',
         arun'[r].status = "checking"
  PROVE  Sound(r)'
<1>1. \A j \in Job : Due(j, r)' => j = i
  OBVIOUS
<1>2. QED  BY <1>1 DEF Sound, OneHolder, Held

LEMMA QueuedStays ==
  ASSUME NEW r \in AutofixRun, Queued(r),
         \A j \in Job : Ready(j, r) => Ready(j, r)',
         \A q \in Request : Asks(q, r) => Asks(q, r)',
         \A w \in Worker : Requeues(w, r) => Requeues(w, r)'
  PROVE  Queued(r)'
  BY DEF Queued

\* A strand moves on; the jobs stay as they are.
LEMMA FreshStays ==
  ASSUME RunInv, NEW w \in Worker, NEW j \in Job, UNCHANGED <<run, task>>,
         \A v \in Worker \ {w} : strand'[v] = strand[v],
         strand'[w].pc = "start" <=> strand[w].pc = "start"
  PROVE  Fresh(j)' <=> Fresh(j)
  BY DEF Fresh

LEMMA StrandFrame ==
  ASSUME FormInv, RunInv, NEW r \in AutofixRun, Sound(r), NEW w \in Worker,
         UNCHANGED <<run, task>>, arun'[r] = arun[r], opened \subseteq opened',
         \A v \in Worker \ {w} : strand'[v] = strand[v],
         \/ strand'[w] = strand[w]
         \/ ~Matters(strand[w], r) /\ ~Matters(strand'[w], r),
         \/ strand'[w].pc = "start" <=> strand[w].pc = "start"
         \/ task[run[w].job].run # r,
         \A q \in Request : Asks(q, r) => Asks(q, r)'
  PROVE  Sound(r)'
<1>1. \A j \in Job : task[j].run = r => (Fresh(j)' <=> Fresh(j))
  <2> TAKE j \in Job
  <2>1. CASE strand'[w].pc = "start" <=> strand[w].pc = "start"
    BY <2>1, FreshStays
  <2>2. CASE task[run[w].job].run # r
    BY <2>2 DEF Fresh
  <2>3. QED  BY <2>1, <2>2
<1>2. \A j \in Job : (Due(j, r)' <=> Due(j, r)) /\ (Ready(j, r)' <=> Ready(j, r))
  BY <1>1 DEF Due, Ready, About
<1>3. \A v \in Worker : /\ Holds(v, r)' <=> Holds(v, r)
                        /\ Requeues(v, r)' <=> Requeues(v, r)
                        /\ Holds(v, r) => strand'[v] = strand[v]
  <2> TAKE v \in Worker
  <2>1. CASE strand'[v] = strand[v]
    BY <2>1, HoldsMatters
  <2>2. CASE strand'[v] # strand[v]
    <3>1. v = w /\ ~Matters(strand[w], r) /\ ~Matters(strand'[w], r)
      BY <2>2
    <3>2. QED  BY <3>1, HoldsMatters
  <2>3. QED  BY <2>1, <2>2
<1>4. arun[r].status = "queued" => Queued(r)'
  BY <1>2, <1>3, QueuedStays DEF Sound
<1>5. QED  BY <1>2, <1>3, <1>4, SoundFrame

LEMMA TablesFrame ==
  ASSUME NEW r \in AutofixRun, Sound(r), UNCHANGED <<run, task, strand, opened>>,
         arun'[r] = arun[r], \A q \in Request : Asks(q, r) => Asks(q, r)'
  PROVE  Sound(r)'
<1>1. \A j \in Job : (Due(j, r)' <=> Due(j, r)) /\ (Ready(j, r)' <=> Ready(j, r))
  BY DEF Due, Ready, About, Fresh
<1>2. \A w \in Worker : (Holds(w, r)' <=> Holds(w, r)) /\ (Requeues(w, r)' <=> Requeues(w, r))
  BY DEF Holds, Requeues
<1>3. arun[r].status = "queued" => Queued(r)'
  BY <1>1, <1>2, QueuedStays DEF Sound
<1>4. QED  BY <1>1, <1>2, <1>3, SoundFrame

\* A free run has no holder to get in the way of a new attempt.
LEMMA FreeIsQueued ==
  ASSUME FormInv, NEW r \in AutofixRun, Sound(r), UNCHANGED <<run, task>>,
         arun[r].status \notin {"running", "checking"},
         \A w \in Worker : strand'[w] = strand[w] \/ strand'[w].pc = "requeue",
         \A w \in Worker : strand'[w] = strand[w] \/ strand[w].pc # "start",
         arun'[r].status = "queued", Queued(r)'
  PROVE  Sound(r)'
<1>1. \A j \in Job : ~Due(j, r)'
  BY FreeHasNoHolder DEF Due, About, Fresh
<1>2. \A w \in Worker : ~Holds(w, r)'
  BY FreeHasNoHolder DEF Holds, Holding, OnBranch
<1>3. QED  BY <1>1, <1>2, SoundWithout

\* A new job of the kind appears, and nobody has looked into it.
LEMMA NewJob ==
  ASSUME FormInv, RunInv, NEW kind \in {"autofix", "checks"}, NEW r \in AutofixRun,
         Enqueue(kind, r), UNCHANGED run
  PROVE  \E i \in Job :
           /\ task'[i] = [kind |-> kind, run |-> r] /\ task[i] = NoTask
           /\ \A v \in Worker : run[v].job # i
           /\ \A j \in Job \ {i} : task'[j] = task[j]
<1>1. PICK i \in Job : /\ job[i].state = "absent"
                       /\ task' = [task EXCEPT ![i] = [kind |-> kind, run |-> r]]
  BY DEF Enqueue
<1>2. task[i] = NoTask
  BY <1>1 DEF FormInv, JobsForm, JobFits
<1>3. \A v \in Worker : run[v].job # i
  BY <1>1, ServiceJobsAssumption DEF RunInv
<1>4. QED  BY <1>1, <1>2, <1>3 DEF FormInv, JobsForm

LEMMA EnqueueJobs ==
  ASSUME FormInv, RunInv, NEW kind \in {"autofix", "checks"}, NEW s \in AutofixRun,
         Enqueue(kind, s), UNCHANGED run,
         \A v \in Worker : strand'[v].pc = "start" <=> strand[v].pc = "start"
  PROVE  \E i \in Job :
           /\ About(i, kind, s)' /\ Fresh(i)'
           /\ \A r : ~About(i, "autofix", r) /\ ~About(i, "checks", r)
           /\ \A j \in Job \ {i} :
                (Fresh(j)' <=> Fresh(j)) /\ task'[j] = task[j]
<1>1. PICK i \in Job :
        /\ task'[i] = [kind |-> kind, run |-> s] /\ task[i] = NoTask
        /\ \A v \in Worker : run[v].job # i
        /\ \A j \in Job \ {i} : task'[j] = task[j]
  BY NewJob
<1>2. About(i, kind, s)' /\ Fresh(i)'
  BY <1>1 DEF About, Fresh
<1>3. \A r : ~About(i, "autofix", r) /\ ~About(i, "checks", r)
  BY <1>1 DEF About, NoTask
<1>4. \A j \in Job : Fresh(j)' <=> Fresh(j)
  BY DEF Fresh
<1>5. QED  BY <1>1, <1>2, <1>3, <1>4

\* A job for another run, or of the other kind, disturbs no holder.
LEMMA EnqueueFrame ==
  ASSUME FormInv, RunInv, NEW r \in AutofixRun, Sound(r),
         NEW kind \in {"autofix", "checks"}, NEW s \in AutofixRun, Enqueue(kind, s),
         UNCHANGED <<run, arun, opened>>,
         \A v \in Worker : strand'[v].pc = "start" <=> strand[v].pc = "start",
         s # r \/ kind = "autofix",
         \A v \in Worker :
           \/ strand'[v] = strand[v]
           \/ ~Matters(strand[v], r) /\ ~Matters(strand'[v], r)
           \/ s = r /\ ~Holds(v, r) /\ ~Holds(v, r)',
         s = r \/ \A q \in Request : Asks(q, r) => Asks(q, r)'
  PROVE  Sound(r)'
<1>1. PICK i \in Job :
        /\ About(i, kind, s)' /\ Fresh(i)'
        /\ \A t : ~About(i, "autofix", t) /\ ~About(i, "checks", t)
        /\ \A j \in Job \ {i} : (Fresh(j)' <=> Fresh(j)) /\ task'[j] = task[j]
  BY EnqueueJobs
<1>2. ~About(i, "checks", r)'
  BY <1>1 DEF About
<1>3. \A j \in Job : (Due(j, r)' <=> Due(j, r)) /\ (Ready(j, r) => Ready(j, r)')
  <2> TAKE j \in Job
  <2>1. CASE j = i
    BY <1>1, <1>2, <2>1 DEF Due, Ready
  <2>2. CASE j # i
    BY <1>1, <2>2 DEF Due, Ready, About
  <2>3. QED  BY <2>1, <2>2
<1>4. \A v \in Worker : /\ Holds(v, r)' <=> Holds(v, r)
                        /\ Holds(v, r) => strand'[v] = strand[v]
  <2> TAKE v \in Worker
  <2>1. CASE strand'[v] = strand[v]
    BY <2>1, HoldsMatters
  <2>2. CASE strand'[v] # strand[v]
    BY <2>2, HoldsMatters
  <2>3. QED  BY <2>1, <2>2
<1>5. \A v \in Worker : Holds(v, r) => task'[run'[v].job] = task[run[v].job]
  <2> TAKE v \in Worker
  <2>1. run[v].job # None /\ Holds(v, r) => task'[run[v].job] = task[run[v].job]
    BY EnqueueRuns
  <2>2. Holds(v, r) => run[v].job # None
    BY StrandSuits DEF Holds, Holding, OnBranch
  <2>3. QED  BY <2>1, <2>2
<1>6. arun[r].status = "queued" => Queued(r)'
  <2>1. CASE s = r
    <3>1. Ready(i, r)'
      BY <1>1, <2>1 DEF Ready
    <3>2. QED  BY <3>1 DEF Queued
  <2>2. CASE s # r
    <3>1. \A v \in Worker : Requeues(v, r) => Requeues(v, r)'
      <4> TAKE v \in Worker
      <4>1. CASE strand'[v] = strand[v]
        BY <4>1, HoldsMatters
      <4>2. CASE strand'[v] # strand[v]
        BY <2>2, <4>2, HoldsMatters
      <4>3. QED  BY <4>1, <4>2
    <3>2. QED  BY <1>3, <2>2, <3>1, QueuedStays DEF Sound
  <2>3. QED  BY <2>1, <2>2
<1>7. QED  BY <1>3, <1>4, <1>5, <1>6, SoundFrame

\* The holder moves on, and is the only one afterwards too.
LEMMA HolderMoves ==
  ASSUME FormInv, RunInv, NEW r \in AutofixRun, Sound(r), NEW w \in Worker, Holds(w, r),
         NEW new, new.pc # "start", strand' = [strand EXCEPT ![w] = new],
         UNCHANGED <<run, task>>
  PROVE  /\ strand'[w] = new
         /\ \A j \in Job : ~Due(j, r)'
         /\ \A v \in Worker \ {w} : ~Holds(v, r)'
         /\ Holds(w, r)' <=> (new.run = r /\ new.pc \in Holding)
<1>1. strand'[w] = new /\ \A v \in Worker \ {w} : strand'[v] = strand[v]
  BY DEF FormInv, StrandsForm
<1>2. \A v \in Worker \ {w} : ~Holds(v, r)
  BY DEF Sound, OneHolder
<1>3. strand[w].pc # "start"
  BY DEF Holds, Holding, OnBranch
<1>4. \A j \in Job : Due(j, r)' => Due(j, r)
  BY <1>1, <1>3, FreshStays DEF Due, About
<1>5. QED  BY <1>1, <1>2, <1>4 DEF Sound, OneHolder, Holds

LEMMA HolderAgrees ==
  ASSUME NEW r \in AutofixRun, Sound(r), NEW w \in Worker, Holds(w, r)
  PROVE  Agrees(w, r)
  BY DEF Sound, Held

\* The only holder goes on and agrees with the row.
LEMMA HolderGoesOn ==
  ASSUME FormInv, RunInv, NEW r \in AutofixRun, Sound(r), NEW w \in Worker, Holds(w, r),
         NEW new, strand' = [strand EXCEPT ![w] = new], UNCHANGED <<run, task>>,
         new.run = r, new.pc \in Holding,
         Agrees(w, r)', arun'[r].status \in {"running", "checking"}
  PROVE  Sound(r)'
  BY HolderMoves, SoundHolder DEF Holding, OnBranch

\* The only holder lets the run go.
LEMMA HolderLetsGo ==
  ASSUME FormInv, RunInv, NEW r \in AutofixRun, Sound(r), NEW w \in Worker, Holds(w, r),
         NEW new, strand' = [strand EXCEPT ![w] = new], UNCHANGED <<run, task>>,
         new.pc # "start", new.pc \notin Holding,
         arun'[r].status \in {"none", "analyzed", "succeeded", "failed"},
         arun'[r].status = "succeeded" => arun'[r].pr = arun'[r].branch /\ arun'[r].pr \in opened'
  PROVE  Sound(r)'
<1>1. /\ \A j \in Job : ~Due(j, r)'
      /\ \A v \in Worker \ {w} : ~Holds(v, r)'
      /\ ~Holds(w, r)'
  BY HolderMoves
<1>2. \A v \in Worker : ~Holds(v, r)'
  BY <1>1
<1>3. QED  BY <1>1, <1>2, SoundWithout

\* The holder passes the run on to a job that will poll.
LEMMA HolderSchedules ==
  ASSUME FormInv, RunInv, NEW r \in AutofixRun, Sound(r), NEW w \in Worker, Holds(w, r),
         Enqueue("checks", r), strand' = [strand EXCEPT ![w] = Ended],
         UNCHANGED <<run, arun>>, arun[r].status = "checking"
  PROVE  Sound(r)'
<1>1. strand'[w] = Ended /\ \A v \in Worker \ {w} : strand'[v] = strand[v]
  BY DEF FormInv, StrandsForm
<1>2. strand[w].pc # "start" /\ Ended.pc = "end"
  BY StartFits DEF Holds, Holding, OnBranch
<1>3. PICK i \in Job :
        /\ About(i, "checks", r)' /\ Fresh(i)'
        /\ \A j \in Job \ {i} : (Fresh(j)' <=> Fresh(j)) /\ task'[j] = task[j]
  BY <1>1, <1>2, EnqueueJobs
<1>4. Due(i, r)'
  BY <1>3 DEF Due
<1>5. \A j \in Job \ {i} : ~Due(j, r)'
  BY <1>3 DEF Due, About, Sound, OneHolder
<1>6. \A v \in Worker : ~Holds(v, r)'
  <2>1. ~Holds(w, r)'
    BY <1>1, <1>2 DEF Holds, Holding, OnBranch
  <2>2. \A v \in Worker \ {w} : ~Holds(v, r)'
    BY <1>1 DEF Holds, Sound, OneHolder
  <2>3. QED  BY <2>1, <2>2
<1>7. QED  BY <1>4, <1>5, <1>6, SoundDue

\* An execution that goes on alone belongs to a disturbed run.
LEMMA StepOfGhost ==
  ASSUME RunInv, NEW g \in BOOLEAN, NEW w \in Worker, At(g, w).pc # "start",
         NEW r, r \notin overran, r = At(g, w).run
  PROVE  ~g /\ At(g, w) = strand[w] /\ strand[w].run = r
  BY DEF At, RunInv

LEMMA BecomesOf ==
  ASSUME FormInv, NEW g \in BOOLEAN, NEW w \in Worker, NEW new, Becomes(g, w, new)
  PROVE  /\ \A v \in Worker \ {w} : strand'[v] = strand[v]
         /\ g => strand'[w] = strand[w]
         /\ ~g => strand' = [strand EXCEPT ![w] = new] /\ strand'[w] = new
  BY DEF Becomes, FormInv, StrandsForm

\* What a step of an execution does to the other runs.
LEMMA StepFrame ==
  ASSUME FormInv, RunInv, NEW g \in BOOLEAN, NEW w \in Worker, NEW new, Becomes(g, w, new),
         At(g, w).pc # "start", ~g => new.pc # "start",
         NEW r \in AutofixRun, Sound(r), ~Matters(new, r), ~Matters(At(g, w), r),
         UNCHANGED <<run, task, request>>, arun'[r] = arun[r], opened' = opened
  PROVE  Sound(r)'
<1>1. \A q \in Request : Asks(q, r) => Asks(q, r)'
  BY DEF Asks
<1>2. CASE g
  BY <1>1, <1>2, BecomesOf, StrandFrame
<1>3. CASE ~g
  BY <1>1, <1>3, BecomesOf, StrandFrame DEF At
<1>4. QED  BY <1>2, <1>3

LEMMA HistoryGrows ==
  ASSUME FormInv, [Next]_vars
  PROVE  cut \subseteq cut' /\ overran \subseteq overran'
<1>1. ASSUME NEW q \in Request, RequestStep(q)
      PROVE  cut \subseteq cut' /\ overran \subseteq overran'
  BY <1>1
     DEF RequestStep, Trigger, AskForFix, RequestRestarts, RequestEnqueues,
         RequestDies,
             KeepWork
<1>2. ASSUME NEW g \in BOOLEAN, NEW w \in Worker, ExecuteStep(g, w)
      PROVE  cut \subseteq cut' /\ overran \subseteq overran'
  BY <1>2
     DEF ExecuteStep, WorkThrows, WorkAnalyses, WorkPushes, AfterAnalysis,
         AutoRestarts,
             AutoEnqueues, ScheduleFirst, KeepRest
<1>3. ASSUME NEW w \in Worker, HandlerStep(w)
      PROVE  cut \subseteq cut' /\ overran \subseteq overran'
  BY <1>2, <1>3
     DEF HandlerStep, ClaimRun, FailRun, ReadRun, Poll, OpenPullRequest, Merge,
             WriteSucceeded, End, KeepRest
<1>4. CASE QueueStep
  BY <1>4
     DEF QueueStep, StatementCaught, StatementThrows, Die, Begin, Sweep, KeepHandlers
<1>5. QED
  BY <1>1, <1>2, <1>3, <1>4
     DEF Next, TimesOut, CiReports, DeadlinePasses, vars

LEMMA WorkFails ==
  ASSUME FormInv, RunInv, NEW r \in AutofixRun, Sound(r), NEW w \in Worker, Holds(w, r),
         strand[w].pc = "work", strand' = [strand EXCEPT ![w] = Of("fail", r)],
         UNCHANGED <<run, task, arun>>
  PROVE  Sound(r)'
<1>1. Of("fail", r).run = r /\ Of("fail", r).pc = "fail" /\ strand'[w] = Of("fail", r)
  BY DEF Of, Start, FormInv, StrandsForm
<1>2. arun[r].status = "running" /\ task[run[w].job].kind = "autofix"
  BY HolderAgrees, StrandSuits DEF Agrees, Executing
<1>3. Agrees(w, r)'
  BY <1>1, <1>2 DEF Agrees, OnBranch
<1>4. QED  BY <1>1, <1>2, <1>3, HolderGoesOn DEF Holding

\* A handler that is at a branch goes on with it.
LEMMA CheckGoesOn ==
  ASSUME FormInv, RunInv, NEW r \in AutofixRun, Sound(r), NEW w \in Worker,
         strand[w].pc \in OnBranch, NEW new, new.pc \in OnBranch \ {"poll"},
         new.run = strand[w].run, new.branch = strand[w].branch,
         strand' = [strand EXCEPT ![w] = new],
         new.run = r /\ new.pc \in {"merge", "opened"} => new.branch \in opened',
         UNCHANGED <<run, task, arun, request>>, opened \subseteq opened'
  PROVE  Sound(r)'
<1>1. strand'[w] = new /\ \A v \in Worker \ {w} : strand'[v] = strand[v]
  BY DEF FormInv, StrandsForm
<1>2. CASE r = strand[w].run
  <2>1. Holds(w, r)
    BY <1>2 DEF Holds, Holding
  <2>2. arun[r].status = "checking" /\ strand[w].branch = arun[r].branch
    BY <2>1, HolderAgrees DEF Agrees
  <2>3. Agrees(w, r)'
    BY <1>1, <1>2, <2>2 DEF Agrees, OnBranch
  <2>4. QED  BY <1>2, <2>1, <2>2, <2>3, HolderGoesOn DEF Holding
<1>3. CASE r # strand[w].run
  <2>1. ~Matters(strand[w], r) /\ ~Matters(new, r)
    BY <1>3 DEF Matters
  <2>2. QED  BY <1>1, <2>1, StrandFrame DEF OnBranch, Asks
<1>4. QED  BY <1>2, <1>3

LEMMA CheckFails ==
  ASSUME FormInv, RunInv, NEW r \in AutofixRun, Sound(r), NEW w \in Worker,
         strand[w].pc \in OnBranch, strand' = [strand EXCEPT ![w] = Of("fail", strand[w].run)],
         UNCHANGED <<run, task, arun, request>>, opened \subseteq opened'
  PROVE  Sound(r)'
<1> DEFINE new == Of("fail", strand[w].run)
<1>1. strand'[w] = new /\ \A v \in Worker \ {w} : strand'[v] = strand[v]
  BY DEF FormInv, StrandsForm
<1>2. new.run = strand[w].run /\ new.pc = "fail"
  BY DEF Of, Start
<1>3. CASE r = strand[w].run
  <2>1. Holds(w, r)
    BY <1>3 DEF Holds, Holding
  <2>2. arun[r].status = "checking" /\ task[run[w].job].kind = "checks"
    BY <2>1, HolderAgrees, StrandSuits DEF Agrees, OnBranch, Checking
  <2>3. Agrees(w, r)'
    BY <1>1, <1>2, <2>2 DEF Agrees, OnBranch
  <2>4. QED  BY <1>2, <1>3, <2>1, <2>2, <2>3, HolderGoesOn DEF Holding
<1>4. CASE r # strand[w].run
  <2>1. ~Matters(strand[w], r) /\ ~Matters(new, r)
    BY <1>2, <1>4 DEF Matters
  <2>2. QED  BY <1>1, <1>2, <2>1, StrandFrame DEF OnBranch, Asks
<1>5. QED  BY <1>3, <1>4

\* A handler leaves: nobody else runs its job.
LEMMA LeftAlone ==
  ASSUME FormInv, RunInv, NEW w \in Worker, Leaves(w), strand' = [strand EXCEPT ![w] = Start],
         NEW i \in Job, i # run[w].job
  PROVE  Fresh(i)' <=> Fresh(i)
<1>1. /\ run'[w].job = None /\ \A v \in Worker \ {w} : run'[v] = run[v]
      /\ \A v \in Worker \ {w} : strand'[v] = strand[v]
  BY DEF Leaves, NoRun, FormInv, PlacesForm, StrandsForm
<1>2. i # None
  BY ServiceJobsAssumption
<1>3. QED  BY <1>1, <1>2 DEF Fresh

LEMMA LeftFresh ==
  ASSUME FormInv, RunInv, NEW w \in Worker, Leaves(w), strand' = [strand EXCEPT ![w] = Start],
         UNCHANGED task, NEW r, ~About(run[w].job, "checks", r), NEW i \in Job
  PROVE  (Due(i, r)' <=> Due(i, r)) /\ (Ready(i, r) => Ready(i, r)')
<1>1. CASE i # run[w].job
  BY <1>1, LeftAlone DEF Due, Ready, About
<1>2. CASE i = run[w].job
  <2>1. /\ run'[w].job = None /\ \A v \in Worker \ {w} : run'[v] = run[v]
    BY DEF Leaves, NoRun, FormInv, PlacesForm
  <2>2. \A v \in Worker : run'[v].job # i
    BY <1>2, <2>1, ServiceJobsAssumption DEF RunInv
  <2>3. Fresh(i)'
    BY <2>2 DEF Fresh
  <2>4. QED  BY <1>2, <2>3 DEF Due, Ready, About
<1>3. QED  BY <1>1, <1>2

LEMMA LeavingFrame ==
  ASSUME FormInv, RunInv, NEW r \in AutofixRun, Sound(r), NEW w \in Worker, Leaves(w),
         strand' = [strand EXCEPT ![w] = Start], ~Matters(strand[w], r),
         \A i \in Job : (Due(i, r)' <=> Due(i, r)) /\ (Ready(i, r) => Ready(i, r)'),
         \A i \in Job \ {run[w].job} : task'[i] = task[i],
         UNCHANGED <<arun, request, opened>>
  PROVE  Sound(r)'
<1>1. /\ \A v \in Worker \ {w} : run'[v] = run[v] /\ strand'[v] = strand[v]
      /\ strand'[w] = Start /\ ~Matters(Start, r)
  BY DEF Leaves, FormInv, PlacesForm, StrandsForm, Matters, Start, Holding, OnBranch
<1>2. \A v \in Worker : (Holds(v, r)' <=> Holds(v, r)) /\ (Requeues(v, r)' <=> Requeues(v, r))
  <2> TAKE v \in Worker
  <2>1. CASE v = w
    BY <1>1, <2>1, HoldsMatters
  <2>2. CASE v # w
    BY <1>1, <2>2, HoldsMatters
  <2>3. QED  BY <2>1, <2>2
<1>3. \A v \in Worker : Holds(v, r) => v # w /\ run[v].job \in Job \ {run[w].job}
  <2> TAKE v \in Worker
  <2>1. Holds(v, r) => v # w
    BY HoldsMatters
  <2>2. Holds(v, r) => run[v].job # None
    BY StrandSuits DEF Holds, Holding, OnBranch
  <2>3. QED  BY <2>1, <2>2, RunsOwn DEF FormInv, PlacesForm, Run
<1>4. arun[r].status = "queued" => Queued(r)'
  BY <1>2, QueuedStays DEF Sound, Asks
<1>5. QED  BY <1>1, <1>2, <1>3, <1>4, SoundFrame

LEMMA HolderKept ==
  ASSUME FormInv, RunInv, NEW x \in AutofixRun, Sound(x),
         x \notin overran, x \notin cut' \union overran', [Next]_vars
  PROVE  Sound(x)'
<1>1. ASSUME NEW q \in Request, NEW r \in AutofixRun, NEW i \in Issue, Trigger(q, r, i)
      PROVE  Sound(x)'
  <2>1. CASE x # r
    BY <1>1, <2>1, TablesFrame
       DEF Trigger, KeepWork, repository, RequestBecomes, Asks, FormInv, RowsForm,
           RequestsForm, Idle
  <2>2. CASE x = r
    <3>1. request'[q] = [Idle EXCEPT !.pc = "enqueue", !.run = x]
      BY <1>1, <2>2 DEF Trigger, RequestBecomes, FormInv, RequestsForm
    <3>2. Queued(x)'
      BY <3>1 DEF Queued, Asks, Idle
    <3>3. arun[x].status = "none" /\ arun'[x].status = "queued"
      BY <1>1, <2>2 DEF Trigger, FormInv, RowsForm, NoRunRow
    <3>4. QED  BY <1>1, <3>2, <3>3, FreeIsQueued DEF Trigger, KeepWork
  <2>3. QED  BY <2>1, <2>2
<1>2. ASSUME NEW q \in Request, NEW r \in AutofixRun, AskForFix(q, r)
      PROVE  Sound(x)'
  BY <1>2, TablesFrame
     DEF AskForFix, KeepWork, repository, RequestBecomes, Asks, FormInv, RequestsForm,
         Idle
<1>3. ASSUME NEW q \in Request, RequestRestarts(q)
      PROVE  Sound(x)'
  <2> DEFINE r == request[q].run
  <2>1. \A p \in Request \ {q} : request'[p] = request[p]
    BY <1>3 DEF RequestRestarts, RequestBecomes, FormInv, RequestsForm
  <2>2. CASE x = r /\ Restarts(r, request[q].seen)
    <3>1. arun[x].status \in {"analyzed", "failed"}
      BY <1>3, <2>2 DEF RequestRestarts, Restarts, FormInv, RequestsForm, RequestFits
    <3>2. request'[q] = [Idle EXCEPT !.pc = "enqueue", !.run = x]
      BY <1>3, <2>2 DEF RequestRestarts, RequestBecomes, FormInv, RequestsForm
    <3>3. Queued(x)'
      BY <3>2 DEF Queued, Asks, Idle
    <3>4. arun'[x].status = "queued"
      BY <1>3, <2>2 DEF RequestRestarts, Restart, FormInv, RowsForm, NoRunRow
    <3>5. QED  BY <1>3, <3>1, <3>3, <3>4, FreeIsQueued DEF RequestRestarts, KeepWork
  <2>3. CASE ~(x = r /\ Restarts(r, request[q].seen))
    <3>1. arun'[x] = arun[x]
      BY <1>3, <2>3 DEF RequestRestarts, Restart, FormInv, RowsForm
    <3>2. \A p \in Request : Asks(p, x) => Asks(p, x)'
      BY <1>3, <2>1 DEF RequestRestarts, Asks
    <3>3. QED  BY <1>3, <3>1, <3>2, TablesFrame
                  DEF RequestRestarts, KeepWork, repository
  <2>4. QED  BY <2>2, <2>3
<1>4. ASSUME NEW q \in Request, RequestEnqueues(q)
      PROVE  Sound(x)'
  <2> DEFINE s == request[q].run
  <2>1. s \in AutofixRun
    BY <1>4 DEF RequestEnqueues, FormInv, RequestsForm, RequestFits
  <2>2. s = x \/ \A p \in Request : Asks(p, x) => Asks(p, x)'
    BY <1>4 DEF RequestEnqueues, RequestBecomes, Asks, FormInv, RequestsForm
  <2>3. QED  BY <1>4, <2>1, <2>2, EnqueueFrame DEF RequestEnqueues, KeepWork, repository
<1>5. ASSUME NEW q \in Request, RequestDies(q)
      PROVE  Sound(x)'
  <2>1. x # request[q].run
    BY <1>5 DEF RequestDies
  <2>2. \A p \in Request : Asks(p, x) => Asks(p, x)'
    BY <1>5, <2>1 DEF RequestDies, RequestBecomes, Asks, FormInv, RequestsForm
  <2>3. QED  BY <1>5, <2>2, TablesFrame DEF RequestDies, repository
<1>6. ASSUME NEW w \in Worker, ClaimRun(w)
      PROVE  Sound(x)'
  <2> DEFINE r == task[run[w].job].run
             new == [Of("work", r) EXCEPT !.phase = arun[r].phase]
  <2>1. /\ \A v \in Worker \ {w} : strand'[v] = strand[v]
        /\ strand[w].pc = "start" /\ task[run[w].job].kind = "autofix"
        /\ ~Matters(strand[w], x) /\ ~Matters(Ended, x)
    BY <1>6
       DEF ClaimRun, Handles, FormInv, StrandsForm, Matters, Holding, OnBranch, Ended,
           Start
  <2>2. CASE x # r
    <3>1. strand'[w] = Ended \/ strand'[w] = new
      BY <1>6 DEF ClaimRun, FormInv, StrandsForm
    <3>2. ~Matters(new, x)
      BY <2>2 DEF Matters, Of, Start
    <3>3. arun'[x] = arun[x]
      BY <1>6, <2>2 DEF ClaimRun, FormInv, RowsForm
    <3>4. QED  BY <1>6, <2>1, <2>2, <3>1, <3>2, <3>3, StrandFrame
               DEF ClaimRun, KeepRest, KeepRepository, repository, Asks
  <2>3. CASE x = r /\ arun[x].status = "queued"
    <3>1. strand'[w] = new /\ new.run = x /\ new.pc = "work"
      <4>1. strand'[w] = new
        BY <1>6, <2>3 DEF ClaimRun, FormInv, StrandsForm
      <4>2. new.run = x /\ new.pc = "work"
        BY <2>3 DEF Of, Start
      <4>3. QED  BY <4>1, <4>2
    <3>2. arun'[x].status = "running"
      <4>1. arun' = [arun EXCEPT ![x].status = "running"] /\ arun[x] \in RunRow
        BY <1>6, <2>3 DEF ClaimRun, FormInv, RowsForm
      <4>2. QED  BY <4>1 DEF RunRow, FormInv, RowsForm
    <3>3. Holds(w, x)' /\ Agrees(w, x)'
      BY <3>1, <3>2 DEF Holds, Agrees, Holding, OnBranch
    <3>4. \A j \in Job : Due(j, x)' => Due(j, x)
      BY <1>6, <2>1 DEF ClaimRun, KeepRest, Due, About, Fresh
    <3>5. (\A j \in Job : ~Due(j, x)') /\ (\A v \in Worker \ {w} : ~Holds(v, x)')
      BY <2>1, <2>3, <3>4, FreeHasNoHolder DEF Holds
    <3>6. QED  BY <3>2, <3>3, <3>5, SoundHolder
  <2>4. CASE x = r /\ arun[x].status # "queued"
    <3>1. strand'[w] = Ended
      BY <1>6, <2>4 DEF ClaimRun, FormInv, StrandsForm
    <3>2. \A j \in Job : Due(j, x)' <=> Due(j, x)
      BY <1>6, <2>1 DEF ClaimRun, KeepRest, Due, About, Fresh
    <3>3. \A v \in Worker : Holds(v, x)' <=> Holds(v, x)
      BY <2>1, <3>1, HoldsMatters
    <3>4. \A v \in Worker : Holds(v, x) => strand'[v] = strand[v]
      BY <2>1, HoldsMatters
    <3>5. QED  BY <1>6, <2>4, <3>2, <3>3, <3>4, SoundFrame
               DEF ClaimRun, KeepRest, KeepRepository, repository
  <2>5. QED  BY <2>2, <2>3, <2>4
<1>7. ASSUME NEW g \in BOOLEAN, NEW w \in Worker, WorkThrows(g, w)
      PROVE  Sound(x)'
  <2> DEFINE s == At(g, w).run
  <2>1. x = s => ~g /\ At(g, w) = strand[w] /\ strand[w].run = x
    BY <1>7, StepOfGhost DEF WorkThrows
  <2>2. CASE x # s
    <3>1. ~Matters(At(g, w), x) /\ ~Matters(Start, x) /\ (~g => ~Matters(Of("fail", strand[w].run), x))
      BY <2>2 DEF Matters, At, Of, Start, Holding, OnBranch
    <3>2. Of("fail", strand[w].run).pc = "fail"
      BY DEF Of, Start
    <3>3. QED  BY <1>7, <2>2, <3>1, <3>2, StepFrame
               DEF WorkThrows, Rejects, KeepRest, KeepRepository, repository
  <2>3. CASE x = s
    <3>1. /\ Holds(w, x) /\ strand[w].pc = "work"
          /\ strand' = [strand EXCEPT ![w] = Of("fail", x)] /\ UNCHANGED <<run, task, arun>>
      BY <1>7, <2>1, <2>3 DEF WorkThrows, Rejects, Becomes, KeepRest, Holds, Holding
    <3>2. QED  BY <3>1, WorkFails
  <2>4. QED  BY <2>2, <2>3
<1>8. ASSUME NEW g \in BOOLEAN, NEW w \in Worker, WorkAnalyses(g, w)
      PROVE  Sound(x)'
  <2> DEFINE s == At(g, w).run
  <2>1. x = s => ~g /\ At(g, w) = strand[w] /\ strand[w].run = x
    BY <1>8, StepOfGhost DEF WorkAnalyses
  <2>2. CASE x # s
    <3>1. /\ ~Matters(At(g, w), x) /\ ~Matters(Of("after", s), x)
          /\ Of("after", s).pc = "after"
      BY <2>2 DEF Matters, Of, Start, Holding, OnBranch
    <3>2. arun'[x] = arun[x]
      BY <1>8, <2>2 DEF WorkAnalyses, FormInv, RowsForm
    <3>3. QED  BY <1>8, <3>1, <3>2, StepFrame
               DEF WorkAnalyses, KeepRest, KeepRepository, repository
  <2>3. CASE x = s
    <3>1. /\ Holds(w, x) /\ strand' = [strand EXCEPT ![w] = Of("after", x)]
          /\ UNCHANGED <<run, task>> /\ Of("after", x).pc = "after"
      BY <1>8, <2>1, <2>3 DEF WorkAnalyses, Becomes, KeepRest, Holds, Holding, Of, Start
    <3>2. arun'[x].status = "analyzed"
      BY <1>8, <2>3 DEF WorkAnalyses, FormInv, RowsForm, RunRow
    <3>3. QED  BY <3>1, <3>2, HolderLetsGo DEF Holding, OnBranch
  <2>4. QED  BY <2>2, <2>3
<1>9. ASSUME NEW g \in BOOLEAN, NEW w \in Worker, NEW b \in Branch, WorkPushes(g, w, b)
      PROVE  Sound(x)'
  <2> DEFINE s == At(g, w).run
  <2>1. x = s => ~g /\ At(g, w) = strand[w] /\ strand[w].run = x
    BY <1>9, StepOfGhost DEF WorkPushes
  <2>2. CASE x # s
    <3>1. /\ ~Matters(At(g, w), x) /\ ~Matters(Of("schedule", s), x) /\ ~Matters(Start, x)
          /\ ~g => ~Matters(Of("fail", strand[w].run), x)
          /\ Of("schedule", s).pc = "schedule" /\ Of("fail", strand[w].run).pc = "fail"
      BY <2>2 DEF Matters, At, Of, Start, Holding, OnBranch
    <3>2. arun'[x] = arun[x]
      BY <1>9, <2>2 DEF WorkPushes, FormInv, RowsForm
    <3>3. Rejects(g, w) \/ Becomes(g, w, Of("schedule", s))
      BY <1>9 DEF WorkPushes
    <3>4. QED  BY <1>9, <3>1, <3>2, <3>3, StepFrame DEF WorkPushes, Rejects, KeepRest
  <2>3. CASE x = s /\ Rejects(g, w)
    <3>1. /\ Holds(w, x) /\ strand[w].pc = "work"
          /\ strand' = [strand EXCEPT ![w] = Of("fail", x)] /\ UNCHANGED <<run, task>>
      BY <1>9, <2>1, <2>3 DEF WorkPushes, Rejects, Becomes, KeepRest, Holds, Holding
    <3>2. CASE IndexRefuses(s, arun[s].issue)
      BY <1>9, <3>1, <3>2, WorkFails DEF WorkPushes
    <3>3. CASE ~IndexRefuses(s, arun[s].issue)
      <4>1. strand' = [strand EXCEPT ![w] = Of("schedule", x)]
        BY <1>9, <2>1, <2>3, <3>3 DEF WorkPushes, Becomes
      <4>2. Of("schedule", x) # Of("fail", x)
        BY DEF Of, Start
      <4>3. QED  BY <3>1, <4>1, <4>2 DEF FormInv, StrandsForm
    <3>4. QED  BY <3>2, <3>3
  <2>4. CASE x = s /\ ~Rejects(g, w)
    <3>1. /\ Holds(w, x) /\ strand' = [strand EXCEPT ![w] = Of("schedule", x)]
          /\ UNCHANGED <<run, task>>
      BY <1>9, <2>1, <2>4 DEF WorkPushes, Becomes, KeepRest, Holds, Holding
    <3>2. arun'[x].status = "checking"
      BY <1>9, <2>4 DEF WorkPushes, FormInv, RowsForm, RunRow
    <3>3. Of("schedule", x).run = x /\ Of("schedule", x).pc = "schedule"
      BY DEF Of, Start
    <3>4. strand'[w] = Of("schedule", x)
      BY <3>1 DEF FormInv, StrandsForm
    <3>5. Agrees(w, x)'
      BY <3>2, <3>3, <3>4 DEF Agrees, OnBranch
    <3>6. QED  BY <3>1, <3>2, <3>3, <3>5, HolderGoesOn DEF Holding
  <2>5. QED  BY <2>2, <2>3, <2>4
<1>10. ASSUME NEW g \in BOOLEAN, NEW w \in Worker, AfterAnalysis(g, w)
      PROVE  Sound(x)'
  <2> DEFINE s == At(g, w).run
             new == [Of("restart", s) EXCEPT !.seen = arun[s].status]
  <2>1. /\ ~Matters(At(g, w), x) /\ ~Matters(new, x) /\ new.pc = "restart"
        /\ ~Matters(Start, x) /\ ~Matters(Ended, x) /\ Ended.pc = "end"
    BY <1>10 DEF AfterAnalysis, Matters, Of, Start, Ended, Holding, OnBranch
  <2>2. QED  BY <1>10, <2>1, StepFrame
             DEF AfterAnalysis, Completes, KeepRest, KeepRepository, repository
<1>11. ASSUME NEW g \in BOOLEAN, NEW w \in Worker, AutoRestarts(g, w)
      PROVE  Sound(x)'
  <2> DEFINE s == At(g, w).run
  <2>1. x = s => ~g /\ At(g, w) = strand[w] /\ strand[w].run = x
    BY <1>11, StepOfGhost DEF AutoRestarts
  <2>2. /\ ~Matters(At(g, w), x) /\ ~Matters(Start, x) /\ ~Matters(Ended, x)
        /\ Ended.pc = "end" /\ Of("requeue", s).pc = "requeue" /\ Of("requeue", s).run = s
    BY <1>11 DEF AutoRestarts, Matters, Of, Start, Ended, Holding, OnBranch
  <2>3. CASE ~Restarts(s, At(g, w).seen)
    BY <1>11, <2>2, <2>3, StepFrame
       DEF AutoRestarts, Completes, KeepRest, KeepRepository, repository
  <2>4. CASE x # s /\ Restarts(s, At(g, w).seen)
    <3>1. arun'[x] = arun[x] /\ ~Matters(Of("requeue", s), x)
      BY <1>11, <2>2, <2>4 DEF AutoRestarts, Restart, FormInv, RowsForm, Matters
    <3>2. QED  BY <1>11, <2>2, <2>4, <3>1, StepFrame
               DEF AutoRestarts, KeepRest, KeepRepository, repository
  <2>5. CASE x = s /\ Restarts(s, At(g, w).seen)
    <3>1. arun[x].status \in {"analyzed", "failed"}
      BY <1>11, <2>5, StepRun DEF AutoRestarts, Restarts
    <3>2. strand'[w] = Of("requeue", x) /\ \A v \in Worker \ {w} : strand'[v] = strand[v]
      BY <1>11, <2>1, <2>5, BecomesOf DEF AutoRestarts
    <3>3. arun'[x].status = "queued"
      BY <1>11, <2>5 DEF AutoRestarts, Restart, FormInv, RowsForm, NoRunRow
    <3>4. Queued(x)'
      BY <2>2, <2>5, <3>2 DEF Queued, Requeues
    <3>5. strand[w].pc = "restart"
      BY <1>11, <2>1, <2>5 DEF AutoRestarts
    <3>6. QED  BY <1>11, <2>2, <2>5, <3>1, <3>2, <3>3, <3>4, <3>5, FreeIsQueued
               DEF AutoRestarts, KeepRest
  <2>6. QED  BY <2>3, <2>4, <2>5
<1>12. ASSUME NEW g \in BOOLEAN, NEW w \in Worker, AutoEnqueues(g, w)
      PROVE  Sound(x)'
  <2> DEFINE s == At(g, w).run
  <2>1. x = s => ~g /\ At(g, w) = strand[w] /\ strand[w].run = x
    BY <1>12, StepOfGhost DEF AutoEnqueues
  <2>2. s \in AutofixRun
    BY <1>12, StepRun DEF AutoEnqueues
  <2>3. /\ \A v \in Worker \ {w} : strand'[v] = strand[v]
        /\ IF g THEN strand'[w] = strand[w] ELSE strand'[w] = Ended /\ strand[w] = At(g, w)
    BY <1>12, BecomesOf DEF AutoEnqueues, Completes, At
  <2>4. /\ (Ended.pc = "end" /\ ~Matters(Ended, x) /\ ~Holds(w, x)) \/ g
        /\ x # s => ~Matters(At(g, w), x)
    BY <1>12 DEF AutoEnqueues, At, Matters, Ended, Start, Holds, Holding, OnBranch
  <2>5. ~g => ~Holds(w, x)'
    BY <2>3, <2>4, HoldsMatters
  <2>6. \A v \in Worker : strand'[v].pc = "start" <=> strand[v].pc = "start"
    BY <1>12, <2>3, <2>4 DEF AutoEnqueues
  <2>7. \A v \in Worker :
           \/ strand'[v] = strand[v]
           \/ ~Matters(strand[v], x) /\ ~Matters(strand'[v], x)
           \/ s = x /\ ~Holds(v, x) /\ ~Holds(v, x)'
    BY <2>3, <2>4, <2>5
  <2>8. \A q \in Request : Asks(q, x) => Asks(q, x)'
    BY <1>12 DEF AutoEnqueues, KeepRest, Asks
  <2>9. QED  BY <1>12, <2>2, <2>6, <2>7, <2>8, EnqueueFrame
             DEF AutoEnqueues, KeepRest, KeepRepository, repository
<1>13. ASSUME NEW g \in BOOLEAN, NEW w \in Worker, ScheduleFirst(g, w)
      PROVE  Sound(x)'
  <2> DEFINE s == At(g, w).run
  <2>1. x = s => ~g /\ At(g, w) = strand[w] /\ strand[w].run = x
    BY <1>13, StepOfGhost DEF ScheduleFirst
  <2>2. s \in AutofixRun
    BY <1>13, StepRun DEF ScheduleFirst
  <2>3. CASE x = s
    <3>1. /\ Holds(w, x) /\ strand[w].pc = "schedule"
          /\ strand' = [strand EXCEPT ![w] = Ended] /\ UNCHANGED <<run, arun>>
      BY <1>13, <2>1, <2>3
         DEF ScheduleFirst, Completes, Becomes, KeepRest, Holds, Holding
    <3>2. arun[x].status = "checking"
      BY <3>1, HolderAgrees DEF Agrees
    <3>3. QED  BY <1>13, <2>3, <3>1, <3>2, HolderSchedules DEF ScheduleFirst
  <2>4. CASE x # s
    <3>1. /\ \A v \in Worker \ {w} : strand'[v] = strand[v]
          /\ IF g THEN strand'[w] = strand[w] ELSE strand'[w] = Ended /\ strand[w] = At(g, w)
      BY <1>13, BecomesOf DEF ScheduleFirst, Completes, At
    <3>2. Ended.pc = "end" /\ ~Matters(Ended, x) /\ ~Matters(At(g, w), x)
      BY <2>4 DEF Matters, Ended, Start, Holding, OnBranch
    <3>3. \A v \in Worker : strand'[v].pc = "start" <=> strand[v].pc = "start"
      BY <1>13, <3>1, <3>2 DEF ScheduleFirst
    <3>4. \A v \in Worker :
             \/ strand'[v] = strand[v]
             \/ ~Matters(strand[v], x) /\ ~Matters(strand'[v], x)
      BY <3>1, <3>2
    <3>5. \A q \in Request : Asks(q, x) => Asks(q, x)'
      BY <1>13 DEF ScheduleFirst, KeepRest, Asks
    <3>6. QED  BY <1>13, <2>2, <2>4, <3>3, <3>4, <3>5, EnqueueFrame
               DEF ScheduleFirst, KeepRest, KeepRepository, repository
  <2>5. QED  BY <2>3, <2>4
<1>14. ASSUME NEW w \in Worker, TimesOut(w)
      PROVE  Sound(x)'
  <2>1. strand[w].run # x /\ strand[w].pc # "start"
    BY <1>14 DEF TimesOut, Executing
  <2>2. ~Matters(strand[w], x) /\ ~Matters(Of("fail", strand[w].run), x)
        /\ Of("fail", strand[w].run).pc = "fail"
    BY <2>1 DEF Matters, Of, Start
  <2>3. /\ strand'[w] = Of("fail", strand[w].run)
        /\ \A v \in Worker \ {w} : strand'[v] = strand[v]
    BY <1>14 DEF TimesOut, FormInv, StrandsForm
  <2>4. QED  BY <1>14, <2>1, <2>2, <2>3, StrandFrame
             DEF TimesOut, KeepRepository, repository, Asks
<1>15. ASSUME NEW w \in Worker, FailRun(w)
      PROVE  Sound(x)'
  <2>1. Ended.pc = "end" /\ ~Matters(Ended, x)
    BY DEF Ended, Start, Matters, Holding, OnBranch
  <2>2. CASE x = strand[w].run
    <3>1. Holds(w, x)
      BY <1>15, <2>2 DEF FailRun, Holds, Holding
    <3>2. arun'[x].status = "failed"
      BY <1>15, <2>2 DEF FailRun, FormInv, RowsForm, RunRow
    <3>3. QED  BY <1>15, <2>1, <3>1, <3>2, HolderLetsGo
                  DEF FailRun, KeepRest, Holding, OnBranch
  <2>3. CASE x # strand[w].run
    <3>1. arun'[x] = arun[x] /\ ~Matters(strand[w], x)
      BY <1>15, <2>3 DEF FailRun, FormInv, RowsForm, Matters
    <3>2. strand'[w] = Ended /\ \A v \in Worker \ {w} : strand'[v] = strand[v]
      BY <1>15 DEF FailRun, FormInv, StrandsForm
    <3>3. QED  BY <1>15, <2>1, <3>1, <3>2, StrandFrame
               DEF FailRun, KeepRest, KeepRepository, repository, Asks
  <2>4. QED  BY <2>2, <2>3
<1>16. ASSUME NEW w \in Worker, ReadRun(w)
      PROVE  Sound(x)'
  <2> DEFINE r == task[run[w].job].run
             new == [Of("poll", r) EXCEPT !.branch = arun[r].branch]
  <2>1. /\ \A v \in Worker \ {w} : strand'[v] = strand[v]
        /\ strand[w].pc = "start" /\ task[run[w].job].kind = "checks"
        /\ ~Matters(strand[w], x) /\ ~Matters(Ended, x)
    BY <1>16
       DEF ReadRun, Handles, FormInv, StrandsForm, Matters, Holding, OnBranch, Ended,
           Start
  <2>2. CASE x # r
    <3>1. strand'[w] = Ended \/ strand'[w] = new
      BY <1>16 DEF ReadRun, FormInv, StrandsForm
    <3>2. ~Matters(new, x)
      BY <2>2 DEF Matters, Of, Start
    <3>3. QED  BY <1>16, <2>1, <2>2, <3>1, <3>2, StrandFrame
               DEF ReadRun, KeepRest, KeepRepository, repository, Asks
  <2>3. CASE x = r
    <3>1. run[w].job \in Job
      BY <1>16 DEF ReadRun, Handles, FormInv, PlacesForm, Run
    <3>2. Fresh(run[w].job)
      BY <1>16, <2>1, <3>1, RunsOwn DEF ReadRun, Handles, Fresh
    <3>3. Due(run[w].job, x)
      BY <2>1, <2>3, <3>1, <3>2 DEF Due, About, FormInv, JobsForm, Task
    <3>4. arun[x].status = "checking"
      BY <3>1, <3>3 DEF Sound, Held
    <3>5. strand'[w] = new /\ new.run = x /\ new.pc = "poll" /\ new.branch = arun[x].branch
      BY <1>16, <2>3, <3>4 DEF ReadRun, FormInv, StrandsForm, Of, Start
    <3>6. Holds(w, x)' /\ Agrees(w, x)'
      BY <1>16, <3>4, <3>5 DEF ReadRun, Holds, Agrees, Holding, OnBranch
    <3>7. \A v \in Worker \ {w} : ~Holds(v, x)'
      BY <2>1, <3>1, <3>3 DEF Holds, Sound, OneHolder
    <3>8. \A j \in Job : ~Due(j, x)'
      <4> TAKE j \in Job
      <4>1. CASE j = run[w].job
        BY <1>16, <3>5, <4>1 DEF ReadRun, KeepRest, Due, Fresh
      <4>2. CASE j # run[w].job
        <5>1. ~Due(j, x)
          BY <3>1, <3>3, <4>2 DEF Sound, OneHolder
        <5>2. QED  BY <1>16, <2>1, <4>2, <5>1 DEF ReadRun, KeepRest, Due, About, Fresh
      <4>3. QED  BY <4>1, <4>2
    <3>9. QED  BY <1>16, <3>4, <3>6, <3>7, <3>8, SoundHolder DEF ReadRun
  <2>4. QED  BY <2>2, <2>3
<1>17. ASSUME NEW w \in Worker, Poll(w)
      PROVE  Sound(x)'
  <2>1. strand[w].run \in AutofixRun /\ strand[w] \in Strand
    BY <1>17 DEF Poll, FormInv, StrandsForm, StrandFits
  <2>2. UNCHANGED <<run, arun, opened, request>>
    BY <1>17 DEF Poll, KeepRest, KeepRepository, repository
  <2>3. CASE UNCHANGED <<job, task>> /\ strand' = [strand EXCEPT ![w] = Of("fail", strand[w].run)]
    BY <1>17, <2>2, <2>3, CheckFails DEF Poll, OnBranch
  <2>4. ASSUME NEW verified \in BOOLEAN, UNCHANGED <<job, task>>,
               strand' = [strand EXCEPT ![w].pc = "open", ![w].verified = verified]
        PROVE  Sound(x)'
    <3> DEFINE new == [strand[w] EXCEPT !.pc = "open", !.verified = verified]
    <3>1. strand' = [strand EXCEPT ![w] = new]
      BY <2>1, <2>4 DEF FormInv, StrandsForm, Strand
    <3>2. new.pc = "open" /\ new.run = strand[w].run /\ new.branch = strand[w].branch
      BY <2>1 DEF Strand
    <3>3. QED  BY <1>17, <2>2, <2>4, <3>1, <3>2, CheckGoesOn DEF Poll, OnBranch
  <2>5. CASE Enqueue("checks", strand[w].run) /\ strand' = [strand EXCEPT ![w] = Ended]
    <3>1. CASE x = strand[w].run
      <4>1. Holds(w, x)
        BY <1>17, <3>1 DEF Poll, Holds, Holding, OnBranch
      <4>2. arun[x].status = "checking"
        BY <1>17, <4>1, HolderAgrees DEF Poll, Agrees, OnBranch
      <4>3. QED  BY <2>2, <2>5, <3>1, <4>1, <4>2, HolderSchedules
    <3>2. CASE x # strand[w].run
      <4>1. strand'[w] = Ended /\ \A v \in Worker \ {w} : strand'[v] = strand[v]
        BY <2>5 DEF FormInv, StrandsForm
      <4>2. Ended.pc = "end" /\ ~Matters(Ended, x) /\ ~Matters(strand[w], x)
        BY <3>2 DEF Ended, Start, Matters, Holding, OnBranch
      <4>3. \A v \in Worker : strand'[v].pc = "start" <=> strand[v].pc = "start"
        BY <1>17, <4>1, <4>2 DEF Poll
      <4>4. \A q \in Request : Asks(q, x) => Asks(q, x)'
        BY <2>2 DEF Asks
      <4>5. QED  BY <2>1, <2>2, <2>5, <3>2, <4>1, <4>2, <4>3, <4>4, EnqueueFrame
    <3>3. QED  BY <3>1, <3>2
  <2>6. QED  BY <1>17, <2>3, <2>4, <2>5 DEF Poll
<1>18. ASSUME NEW w \in Worker, OpenPullRequest(w)
      PROVE  Sound(x)'
  <2>1. strand[w] \in Strand /\ opened \subseteq opened'
    BY <1>18 DEF OpenPullRequest, FormInv, StrandsForm
  <2>2. UNCHANGED <<run, task, arun, request>>
    BY <1>18 DEF OpenPullRequest, KeepRest
  <2>3. CASE strand' = [strand EXCEPT ![w] = Of("fail", strand[w].run)]
    BY <1>18, <2>1, <2>2, <2>3, CheckFails DEF OpenPullRequest, OnBranch
  <2>4. ASSUME NEW pc \in {"opened", "merge"}, strand[w].branch \in opened',
               strand' = [strand EXCEPT ![w].pc = pc, ![w].verified = FALSE]
        PROVE  Sound(x)'
    <3> DEFINE new == [strand[w] EXCEPT !.pc = pc, !.verified = FALSE]
    <3>1. strand' = [strand EXCEPT ![w] = new]
      BY <2>1, <2>4 DEF FormInv, StrandsForm, Strand
    <3>2. new.pc = pc /\ new.run = strand[w].run /\ new.branch = strand[w].branch
      BY <2>1 DEF Strand
    <3>3. strand[w].pc \in OnBranch /\ new.pc \in OnBranch \ {"poll"}
      BY <1>18, <3>2 DEF OpenPullRequest, OnBranch
    <3>4. new.branch \in opened'
      BY <2>4, <3>2
    <3> HIDE DEF new
    <3>5. QED  BY <2>1, <2>2, <3>1, <3>2, <3>3, <3>4, CheckGoesOn
  <2>5. QED  BY <1>18, <2>3, <2>4 DEF OpenPullRequest
<1>19. ASSUME NEW w \in Worker, Merge(w)
      PROVE  Sound(x)'
  <2> DEFINE new == [strand[w] EXCEPT !.pc = "opened"]
  <2>1. strand[w] \in Strand
    BY DEF FormInv, StrandsForm
  <2>2. strand' = [strand EXCEPT ![w] = new]
    BY <1>19, <2>1 DEF Merge, FormInv, StrandsForm, Strand
  <2>3. new.pc = "opened" /\ new.run = strand[w].run /\ new.branch = strand[w].branch
    BY <2>1 DEF Strand
  <2>4. x = strand[w].run => strand[w].branch \in opened
    BY <1>19, HolderAgrees DEF Merge, Holds, Holding, OnBranch, Agrees
  <2>5. strand[w].pc \in OnBranch /\ new.pc \in OnBranch \ {"poll"}
    BY <1>19, <2>3 DEF Merge, OnBranch
  <2>6. opened' = opened /\ UNCHANGED <<run, task, arun, request>>
    BY <1>19 DEF Merge, KeepRest
  <2> HIDE DEF new
  <2>7. QED  BY <2>2, <2>3, <2>4, <2>5, <2>6, CheckGoesOn
<1>20. ASSUME NEW w \in Worker, WriteSucceeded(w)
      PROVE  Sound(x)'
  <2> DEFINE r == strand[w].run
  <2>1. Of("note", r).pc = "note" /\ ~Matters(Of("note", r), x)
    BY DEF Of, Start, Matters, Holding, OnBranch
  <2>2. CASE x = r
    <3>1. Holds(w, x)
      BY <1>20, <2>2 DEF WriteSucceeded, Holds, Holding, OnBranch
    <3>2. strand[w].branch = arun[x].branch /\ strand[w].branch \in opened
      BY <1>20, <3>1, HolderAgrees DEF WriteSucceeded, Agrees, OnBranch
    <3>3. arun'[x].status = "succeeded" /\ arun'[x].pr = strand[w].branch
          /\ arun'[x].branch = arun[x].branch
      BY <1>20, <2>2 DEF WriteSucceeded, FormInv, RowsForm, RunRow
    <3>4. opened' = opened
      BY <1>20 DEF WriteSucceeded, KeepRepository, repository
    <3>5. /\ strand' = [strand EXCEPT ![w] = Of("note", x)] /\ UNCHANGED <<run, task>>
          /\ Of("note", x).pc # "start" /\ Of("note", x).pc \notin Holding
      BY <1>20, <2>1, <2>2 DEF WriteSucceeded, KeepRest, Holding, OnBranch
    <3>6. arun'[x].pr = arun'[x].branch /\ arun'[x].pr \in opened'
      BY <3>2, <3>3, <3>4
    <3>7. QED  BY <3>1, <3>3, <3>5, <3>6, HolderLetsGo
  <2>3. CASE x # r
    <3>1. arun'[x] = arun[x] /\ ~Matters(strand[w], x)
      BY <1>20, <2>3 DEF WriteSucceeded, FormInv, RowsForm, Matters
    <3>2. strand'[w] = Of("note", r) /\ \A v \in Worker \ {w} : strand'[v] = strand[v]
      BY <1>20 DEF WriteSucceeded, FormInv, StrandsForm
    <3>3. QED  BY <1>20, <2>1, <3>1, <3>2, StrandFrame
               DEF WriteSucceeded, KeepRest, KeepRepository, repository, Asks
  <2>4. QED  BY <2>2, <2>3
<1>21. ASSUME NEW w \in Worker, End(w)
      PROVE  Sound(x)'
  <2> DEFINE j == run[w].job
  <2>1. strand[w].pc # "start" /\ ~Matters(strand[w], x)
    BY <1>21 DEF End, Matters, Holding, OnBranch
  <2>2. \A i \in Job : ~Due(i, x) \/ i # j
    BY <2>1 DEF Due, Fresh
  <2>3. \A i \in Job : ~Ready(i, x) \/ i # j
    BY <2>1 DEF Ready, Fresh
  <2>4. \A i \in Job : IF i = j THEN task'[i] = NoTask ELSE task'[i] = task[i]
    BY <1>21 DEF End, FormInv, JobsForm
  <2>5. \A i \in Job \ {j} : (Due(i, x)' <=> Due(i, x)) /\ (Ready(i, x)' <=> Ready(i, x))
    BY <1>21, <2>4, LeftAlone DEF End, Due, Ready, About
  <2>6. \A i \in Job : i = j => ~Due(i, x)'
    BY <2>4 DEF Due, About, NoTask
  <2>7. \A i \in Job : (Due(i, x)' <=> Due(i, x)) /\ (Ready(i, x) => Ready(i, x)')
    <3> TAKE i \in Job
    <3>1. CASE i = j
      BY <2>2, <2>3, <2>6, <3>1
    <3>2. CASE i # j
      BY <2>5, <3>2
    <3>3. QED  BY <3>1, <3>2
  <2>8. \A i \in Job \ {j} : task'[i] = task[i]
    BY <2>4
  <2>9. QED  BY <1>21, <2>1, <2>7, <2>8, LeavingFrame
             DEF End, repository
<1>22. ASSUME NEW b \in Branch, CiReports(b)
      PROVE  Sound(x)'
  BY <1>22, TablesFrame DEF CiReports, queue, Asks
<1>23. ASSUME NEW b \in Branch, DeadlinePasses(b)
      PROVE  Sound(x)'
  BY <1>23, TablesFrame DEF DeadlinePasses, queue, Asks
<1>24. ASSUME NEW w \in Worker, StatementCaught(w)
      PROVE  Sound(x)'
  <2>1. strand[w].run # x /\ strand[w].pc # "start"
    BY <1>24 DEF StatementCaught, Executing, Checking
  <2>2. /\ ~Matters(strand[w], x) /\ ~Matters(Of("fail", strand[w].run), x) /\ ~Matters(Ended, x)
        /\ Of("fail", strand[w].run).pc = "fail" /\ Ended.pc = "end"
    BY <2>1 DEF Matters, Of, Start, Ended, Holding, OnBranch
  <2>3. /\ strand'[w] \in {Ended, Of("fail", strand[w].run)}
        /\ \A v \in Worker \ {w} : strand'[v] = strand[v]
    BY <1>24 DEF StatementCaught, FormInv, StrandsForm
  <2>4. QED  BY <1>24, <2>1, <2>2, <2>3, StrandFrame
             DEF StatementCaught, KeepTables, repository, Asks
<1>25. ASSUME NEW w \in Worker, StatementThrows(w)
      PROVE  Sound(x)'
  <2>0. x \notin CutOff(w)
    BY <1>25, AutofixAssumption DEF StatementThrows
  <2>1. strand[w].run # x /\ (task[run[w].job].kind = "checks" => task[run[w].job].run # x)
    BY <2>0 DEF CutOff
  <2>2. ~Matters(strand[w], x)
    BY <2>1 DEF Matters
  <2>3. ~About(run[w].job, "checks", x)
    BY <2>1 DEF About
  <2>4. \A i \in Job : (Due(i, x)' <=> Due(i, x)) /\ (Ready(i, x) => Ready(i, x)')
    BY <1>25, <2>3, LeftFresh DEF StatementThrows, Breaks, KeepTables
  <2>5. QED  BY <1>25, <2>2, <2>4, LeavingFrame
             DEF StatementThrows, Breaks, KeepTables, repository
<1>26. ASSUME NEW w \in Worker, Die(w)
      PROVE  Sound(x)'
  <2>0. x \notin CutOff(w)
    BY <1>26, AutofixAssumption DEF Die
  <2>1. strand[w].run # x /\ (task[run[w].job].kind = "checks" => task[run[w].job].run # x)
    BY <2>0 DEF CutOff
  <2>2. ~Matters(strand[w], x)
    BY <2>1 DEF Matters
  <2>3. ~About(run[w].job, "checks", x)
    BY <2>1 DEF About
  <2>4. \A i \in Job : (Due(i, x)' <=> Due(i, x)) /\ (Ready(i, x) => Ready(i, x)')
    BY <1>26, <2>3, LeftFresh DEF Die, Dies, KeepTables
  <2>5. QED  BY <1>26, <2>2, <2>4, LeavingFrame
             DEF Die, Dies, KeepTables, repository
<1>27. ASSUME NEW w \in Worker, NEW j \in Job, Begin(w, j)
      PROVE  Sound(x)'
  <2>1. strand[w].pc = "start"
    BY <1>27, StrandSuits DEF Begin, Claim, NoRun
  <2>2. run'[w].job = j /\ \A v \in Worker \ {w} : run'[v] = run[v]
    BY <1>27 DEF Begin, Claim, FormInv, PlacesForm
  <2>3. UNCHANGED <<arun, task, strand, opened, request>>
    BY <1>27 DEF Begin, KeepTables, KeepHandlers, repository
  <2>4. \A i \in Job : Fresh(i)' <=> Fresh(i)
    BY <1>27, <2>1, <2>2, <2>3, ServiceJobsAssumption DEF Begin, Claim, NoRun, Fresh
  <2>5. \A i \in Job : (Due(i, x)' <=> Due(i, x)) /\ (Ready(i, x)' <=> Ready(i, x))
    BY <2>3, <2>4 DEF Due, Ready, About
  <2>6. \A v \in Worker : Holds(v, x) => v # w
    BY <2>1 DEF Holds, Holding, OnBranch
  <2>7. \A v \in Worker : (Holds(v, x)' <=> Holds(v, x)) /\ (Requeues(v, x)' <=> Requeues(v, x))
    BY <2>3 DEF Holds, Requeues
  <2>8. arun[x].status = "queued" => Queued(x)'
    BY <2>3, <2>5, <2>7, QueuedStays DEF Sound, Asks
  <2>9. QED  BY <2>2, <2>3, <2>5, <2>6, <2>7, <2>8, SoundFrame
<1>28. ASSUME NEW j \in Job, Sweep(j)
      PROVE  Sound(x)'
  BY <1>28, TablesFrame DEF Sweep, Swept, KeepTables, KeepHandlers, repository, Asks
<1>29. CASE UNCHANGED vars
  BY <1>29, TablesFrame DEF vars, queue, repository, Asks
<1>30. QED
  BY <1>1, <1>2, <1>3, <1>4, <1>5, <1>6, <1>7, <1>8, <1>9, <1>10, <1>11, <1>12, <1>13, <1>14, <1>15,
     <1>16, <1>17, <1>18, <1>19, <1>20, <1>21, <1>22, <1>23, <1>24, <1>25, <1>26, <1>27, <1>28, <1>29
     DEF Next, RequestStep, ExecuteStep, HandlerStep, QueueStep

-----------------------------------------------------------------------------
(* The invariant.                                                          *)

LEMMA InitHolds ==
  ASSUME Init
  PROVE  IInv
<1>1. FormInv
  <2>1. NoRow \in JobRow /\ NoRun \in Run /\ NoTask \in Task /\ JobFits(NoRow, NoTask)
    BY ServiceJobsAssumption
       DEF NoRow, JobRow, JobState, NoRun, Run, NoTask, Task, JobFits
  <2>2. NoRunRow \in RunRow /\ RowFits(NoRunRow)
    BY DEF NoRunRow, RunRow, Status, RowFits
  <2>3. Idle \in RequestState /\ RequestFits(Idle)
    BY DEF Idle, RequestState, RequestFits, Status
  <2>4. JobsForm /\ PlacesForm
    BY <2>1, ServiceJobsAssumption DEF Init, QueueInit, JobsForm, PlacesForm
  <2>5. QED  BY <2>2, <2>3, <2>4, StartFits
             DEF Init, FormInv, RowsForm, RequestsForm, StrandsForm, RepositoryForm,
                 HistoryForm
<1>2. RunInv
  BY StartFits, StartSuits DEF Init, QueueInit, RunInv, NoRun
<1>3. PassInv
  BY StartFits DEF Init, PassInv, MergedPassedCI
<1>4. \A r \in AutofixRun : Sound(r)
  <2> TAKE r \in AutofixRun
  <2>1. \A j \in Job : ~Due(j, r)
    BY DEF Init, Due, About, NoTask
  <2>2. \A w \in Worker : ~Holds(w, r)
    BY StartFits DEF Init, Holds, Holding, OnBranch
  <2>3. arun[r].status = "none"
    BY DEF Init, NoRunRow
  <2>4. QED  BY <2>1, <2>2, <2>3 DEF Sound, OneHolder, Held
<1>5. QED  BY <1>1, <1>2, <1>3, <1>4 DEF IInv, HolderInv

LEMMA Invariance == Spec => []IInv
<1>1. Init => IInv
  BY InitHolds
<1>2. IInv /\ [Next]_vars => HolderInv'
  BY HolderKept, HistoryGrows DEF IInv, HolderInv, Disturbed
<1>3. IInv /\ [Next]_vars => IInv'
  BY <1>2, FormKept, RunKept, PassKept DEF IInv
<1>4. QED  BY <1>1, <1>3, PTL DEF Spec

-----------------------------------------------------------------------------
(* The theorems.                                                           *)

\* Rows, payloads, requests and strands keep their form.
THEOREM TypeCorrect == Spec => []TypeOK
<1>1. IInv => TypeOK
  BY DEF IInv, FormInv, RowsForm, JobsForm, PlacesForm, RequestsForm, StrandsForm,
         RepositoryForm, HistoryForm, TypeOK, QueueTypeOK
<1>2. QED  BY <1>1, Invariance, PTL

\* Only a commit whose CI passed is merged automatically: the poll remembers
\* the branch it asked about, and a branch is never pushed again.
THEOREM MergeTheorem == Spec => []MergedPassedCI
<1>1. IInv => MergedPassedCI
  BY DEF IInv, PassInv
<1>2. QED  BY <1>1, Invariance, PTL

\* The claim of the queued row lets one handler at a run in, for each of its
\* phases and however often its jobs are retried.
THEOREM OneExecutionTheorem == Spec => []OneExecutionPerRun
<1>1. ASSUME IInv
      PROVE  OneExecutionPerRun
  <2> SUFFICES ASSUME NEW v \in Worker, NEW w \in Worker, v # w,
                      strand[v].pc \in Writing, strand[w].pc \in Writing,
                      strand[v].run = strand[w].run, strand[v].run \notin Disturbed
               PROVE  FALSE
    BY DEF OneExecutionPerRun
  <2>1. strand[v].run \in AutofixRun
    BY <1>1 DEF IInv, FormInv, StrandsForm, StrandFits, Writing
  <2>2. Holds(v, strand[v].run) /\ Holds(w, strand[v].run)
    BY DEF Holds, Holding, Writing
  <2>3. OneHolder(strand[v].run)
    BY <1>1, <2>1 DEF IInv, HolderInv, Sound
  <2>4. QED  BY <2>2, <2>3 DEF OneHolder
<1>2. QED  BY <1>1, Invariance, PTL

\* What a run that succeeded shows is the pull request of its last branch: no
\* earlier poll and no earlier attempt writes to it any more.
THEOREM SucceededTheorem == Spec => []SucceededShowsItsBranch
<1>1. IInv => SucceededShowsItsBranch
  BY DEF IInv, HolderInv, Sound, SucceededShowsItsBranch
<1>2. QED  BY <1>1, Invariance, PTL

\* A run in flight is with a handler, a request or a job, and so does not
\* block its issue for good.
THEOREM InFlightTheorem == Spec => []InFlightIsWorkedOn
<1>1. ASSUME IInv, NEW r \in AutofixRun \ Disturbed
      PROVE  /\ arun[r].status = "queued" =>
                  \/ HasJob(r, "autofix")
                  \/ \E q \in Request : request[q].run = r /\ request[q].pc = "enqueue"
                  \/ Handled(r, {"requeue"})
             /\ arun[r].status = "running" => Handled(r, {"work", "fail"})
             /\ arun[r].status = "checking" => HasJob(r, "checks") \/ Handled(r, {"schedule"})
  <2>1. Sound(r) /\ FormInv /\ RunInv
    BY <1>1 DEF IInv, HolderInv
  <2>2. \A j \in Job, kind \in {"autofix", "checks"} : About(j, kind, r) => HasJob(r, kind)
    BY <2>1 DEF About, HasJob, FormInv, JobsForm, JobFits, NoTask
  <2>3. ASSUME arun[r].status = "queued"
        PROVE  \/ HasJob(r, "autofix")
               \/ \E q \in Request : request[q].run = r /\ request[q].pc = "enqueue"
               \/ Handled(r, {"requeue"})
    BY <2>1, <2>2, <2>3 DEF Sound, Queued, Ready, Asks, Requeues, Handled
  <2>4. \A w \in Worker : Holds(w, r) => Agrees(w, r)
    BY <2>1 DEF Sound, Held
  <2>5. ASSUME arun[r].status = "running"
        PROVE  Handled(r, {"work", "fail"})
    <3>1. PICK w \in Worker : Holds(w, r)
      BY <2>1, <2>5 DEF Sound, Held
    <3>2. strand[w].pc \in {"work", "fail"} /\ strand[w].run = r
      BY <2>4, <2>5, <3>1 DEF Agrees, Holds, Holding
    <3>3. QED  BY <3>2 DEF Handled
  <2>6. ASSUME arun[r].status = "checking"
        PROVE  HasJob(r, "checks") \/ Handled(r, {"schedule"})
    <3>1. CASE \E j \in Job : Due(j, r)
      BY <2>2, <3>1 DEF Due
    <3>2. ASSUME NEW w \in Worker, Holds(w, r)
          PROVE  HasJob(r, "checks") \/ Handled(r, {"schedule"})
      <4>1. strand[w].run = r /\ strand[w].pc \in {"schedule", "fail"} \union OnBranch
        BY <2>4, <2>6, <3>2 DEF Agrees, Holds, Holding
      <4>2. CASE strand[w].pc = "schedule"
        BY <4>1, <4>2 DEF Handled
      <4>3. CASE strand[w].pc \in {"fail"} \union OnBranch
        <5>1. run[w].job \in Job /\ task[run[w].job].run = r
          BY <2>1, <4>1, <4>3, StrandSuits DEF FormInv, PlacesForm, Run, OnBranch
        <5>2. task[run[w].job].kind = "checks"
          BY <2>1, <2>4, <2>6, <3>2, <4>3, StrandSuits DEF Agrees, OnBranch, Checking
        <5>3. About(run[w].job, "checks", r)
          BY <2>1, <5>1, <5>2 DEF About, FormInv, JobsForm, Task
        <5>4. QED  BY <2>2, <5>1, <5>3
      <4>4. QED  BY <4>1, <4>2, <4>3
    <3>3. QED  BY <2>1, <2>6, <3>1, <3>2 DEF Sound, Held
  <2>7. QED  BY <2>3, <2>5, <2>6
<1>2. IInv => InFlightIsWorkedOn
  BY <1>1 DEF InFlightIsWorkedOn
<1>3. QED  BY <1>2, Invariance, PTL

=============================================================================
