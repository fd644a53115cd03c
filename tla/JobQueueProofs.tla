--------------------------- MODULE JobQueueProofs ---------------------------
(***************************************************************************)
(* Proofs about JobQueue, for every set of jobs, types, keys, workers and  *)
(* places, every attempt limit and every number of faults.                 *)
(***************************************************************************)
EXTENDS JobQueue, TLAPS

\* What an executing or finishing loop remembers of its job.
LanesRemember ==
  \A l \in Lane :
    /\ Executing(l) => lane[l].job \in Job /\ lane[l].type \in Type /\ lane[l].attempt # 0
    /\ lane[l].phase = "next" => lane[l].type \in Recurring

\* Rows in use have a type; free rows have nothing.
RowsTyped ==
  \A j \in Job :
    /\ row[j].status # "free" => row[j].type \in Type
    /\ row[j].status = "free" => row[j] = FreeRow

\* A row some loop executes is not stale, and no other loop executes it.
OneLoopPerRow ==
  \A l, m \in Lane : Executing(l) =>
    /\ ~row[lane[l].job].stale
    /\ (Executing(m) /\ lane[l].job = lane[m].job) => l = m

\* The partial unique index.
KeysUnique ==
  \A i, j \in Job :
    (Live(i) /\ Live(j) /\ row[i].type = row[j].type /\ row[i].key = row[j].key
      /\ row[i].key # None) => i = j

\* The inductive invariant.
IInv ==
  /\ TypeOK
  /\ LanesRemember
  /\ RowsTyped
  /\ OutcomeFindsItsAttempt
  /\ OneLoopPerRow
  /\ KeysUnique
  /\ AttemptsBounded

-----------------------------------------------------------------------------

LEMMA TypeInit == Init => TypeOK
  BY JobQueueAssumption DEF Init, TypeOK, Row, RowStatus, FreeRow, LaneState, Phase,
     IdleLane, Lane, Place

\* Insert adds at most one pending row, in a place that was free, unless a
\* live row has the same key.
LEMMA InsertAdds ==
  ASSUME NEW t, NEW k, NEW due, Insert(t, k, due)
  PROVE  \/ UNCHANGED <<row, earlier>>
         \/ \E j \in Job :
              /\ row[j].status = "free"
              /\ ~HasTwin(t, k)
              /\ row' = [row EXCEPT ![j] = NewRow(t, k, due)]
              /\ earlier' \subseteq earlier \union (Job \X {j})
  BY DEF Insert, BecomeDue, DueRows

LEMMA InsertKeepsType ==
  ASSUME TypeOK, NEW t \in Type, NEW k \in Key \union {None}, NEW due \in BOOLEAN,
         Insert(t, k, due)
  PROVE  row' \in [Job -> Row] /\ earlier' \subseteq Job \X Job
<1>1. CASE UNCHANGED <<row, earlier>>
  BY <1>1 DEF TypeOK
<1>2. ASSUME NEW j \in Job, row' = [row EXCEPT ![j] = NewRow(t, k, due)],
             earlier' \subseteq earlier \union (Job \X {j})
      PROVE  row' \in [Job -> Row] /\ earlier' \subseteq Job \X Job
  <2>1. NewRow(t, k, due) \in Row
    BY DEF NewRow, Row, RowStatus
  <2>2. row' \in [Job -> Row]
    BY <1>2, <2>1 DEF TypeOK
  <2>3. earlier' \subseteq Job \X Job
    BY <1>2 DEF TypeOK
  <2>4. QED  BY <2>2, <2>3
<1>3. QED  BY <1>1, <1>2, InsertAdds

LEMMA BecomeDueKeepsType ==
  ASSUME TypeOK, NEW J \in SUBSET Job, BecomeDue(J)
  PROVE  earlier' \subseteq Job \X Job
  BY DEF TypeOK, BecomeDue, DueRows

LEMMA ApplicationKeepsType ==
  ASSUME TypeOK, Application
  PROVE  TypeOK'
<1>1. ASSUME NEW t \in Type, NEW k \in Key \union {None}, NEW due \in BOOLEAN, Enqueue(t, k, due)
      PROVE  TypeOK'
  BY <1>1, InsertKeepsType DEF Enqueue, TypeOK, local
<1>2. ASSUME NEW j \in Job, RunAtPasses(j)
      PROVE  TypeOK'
  <2>1. earlier' \subseteq Job \X Job
    BY <1>2, BecomeDueKeepsType DEF RunAtPasses
  <2>2. row' \in [Job -> Row]
    <3>1. [row[j] EXCEPT !.due = TRUE] \in Row
      BY DEF TypeOK, Row
    <3>2. row' = [row EXCEPT ![j] = [row[j] EXCEPT !.due = TRUE]]
      BY <1>2 DEF RunAtPasses
    <3>3. QED  BY <3>1, <3>2 DEF TypeOK
  <2>3. QED  BY <1>2, <2>1, <2>2 DEF RunAtPasses, TypeOK, local
<1>3. ASSUME NEW j \in Job, GracePasses(j)
      PROVE  TypeOK'
  <2>1. row' \in [Job -> Row]
    <3>1. [row[j] EXCEPT !.stale = TRUE] \in Row
      BY DEF TypeOK, Row
    <3>2. row' = [row EXCEPT ![j] = [row[j] EXCEPT !.stale = TRUE]]
      BY <1>3 DEF GracePasses
    <3>3. QED  BY <3>1, <3>2 DEF TypeOK
  <2>2. QED  BY <1>3, <2>1 DEF GracePasses, TypeOK, local
<1>4. ASSUME NEW j \in Job, Requeue(j)
      PROVE  TypeOK'
  <2>1. earlier' \subseteq Job \X Job
    BY <1>4, BecomeDueKeepsType DEF Requeue
  <2>2. [row[j] EXCEPT !.status = "pending", !.due = TRUE, !.attempts = 0,
                       !.stale = FALSE] \in Row
    BY DEF TypeOK, Row, RowStatus
  <2>3. row' \in [Job -> Row]
    BY <1>4, <2>2 DEF Requeue, TypeOK
  <2>4. QED  BY <1>4, <2>1, <2>3 DEF Requeue, TypeOK, local
<1>5. ASSUME NEW j \in Job, Purge(j)
      PROVE  TypeOK'
  <2>1. FreeRow \in Row
    BY DEF FreeRow, Row, RowStatus
  <2>2. row' \in [Job -> Row]
    BY <1>5, <2>1 DEF Purge, TypeOK
  <2>3. QED  BY <1>5, <2>2 DEF Purge, TypeOK, local
<1>6. QED  BY <1>1, <1>2, <1>3, <1>4, <1>5 DEF Application

LEMMA RecoverKeepsType ==
  ASSUME TypeOK, NEW F \in SUBSET Job, NEW R \in SUBSET Job, Recover(F, R)
  PROVE  row' \in [Job -> Row] /\ earlier' \subseteq Job \X Job
<1>1. earlier' \subseteq Job \X Job
  BY BecomeDueKeepsType DEF Recover
<1>2. ASSUME NEW j \in Job
      PROVE  /\ [row[j] EXCEPT !.status = "pending", !.due = TRUE, !.stale = FALSE] \in Row
             /\ [row[j] EXCEPT !.status = "failed", !.stale = FALSE] \in Row
             /\ row[j] \in Row
  BY DEF TypeOK, Row, RowStatus
<1>3. row' \in [Job -> Row]
  BY <1>2 DEF Recover
<1>4. QED  BY <1>1, <1>3

LEMMA StartLoopsKeepsType ==
  ASSUME TypeOK, NEW w \in Worker, NEW S \in SUBSET Slot, StartLoops(w, S)
  PROVE  lane' \in [Lane -> LaneState] /\ drain' \in [Worker -> SUBSET Slot]
<1>1. ClaimingLane \in LaneState
  BY DEF ClaimingLane, IdleLane, LaneState, Phase
<1>2. lane' \in [Lane -> LaneState]
  BY <1>1 DEF StartLoops, TypeOK
<1>3. drain' \in [Worker -> SUBSET Slot]
  BY DEF StartLoops, TypeOK
<1>4. QED  BY <1>2, <1>3

LEMMA WorkerKeepsType ==
  ASSUME TypeOK, NEW w \in Worker, WorkerStep(w)
  PROVE  TypeOK'
<1>1. CASE Start(w)
  BY <1>1 DEF Start, TypeOK
<1>2. ASSUME NEW t \in Recurring, BootEnqueue(w, t)
      PROVE  TypeOK'
  <2>1. row' \in [Job -> Row] /\ earlier' \subseteq Job \X Job
    BY <1>2, InsertKeepsType, JobQueueAssumption DEF BootEnqueue
  <2>2. QED  BY <1>2, <2>1 DEF BootEnqueue, TypeOK
<1>3. CASE BootDone(w)
  BY <1>3 DEF BootDone, TypeOK
<1>4. ASSUME NEW S \in SUBSET Slot, Tick(w, S)
      PROVE  TypeOK'
  BY <1>4, StartLoopsKeepsType DEF Tick, TypeOK
<1>5. ASSUME NEW S \in SUBSET Slot, SweepTick(w, S)
      PROVE  TypeOK'
  <2>1. Spent \in SUBSET Job /\ Retried \in SUBSET Job
    BY DEF Spent, Retried
  <2>2. row' \in [Job -> Row] /\ earlier' \subseteq Job \X Job
    BY <1>5, <2>1, RecoverKeepsType DEF SweepTick
  <2>3. QED  BY <1>5, <2>2, StartLoopsKeepsType DEF SweepTick, TypeOK
<1>6. CASE SweepFails(w)
  <2>1. \E F, R \in SUBSET Job : Recover(F, R)
    <3>1. /\ {} \in SUBSET Job /\ Spent \in SUBSET Job
          /\ Regular(Spent) \in SUBSET Job /\ Regular(Retried) \in SUBSET Job
      BY DEF Regular, Spent, Retried
    <3>2. QED  BY <1>6, <3>1 DEF SweepFails
  <2>2. row' \in [Job -> Row] /\ earlier' \subseteq Job \X Job
    BY <2>1, RecoverKeepsType
  <2>3. QED  BY <1>6, <2>2, JobQueueAssumption DEF SweepFails, TypeOK, Fault, local
<1>7. CASE SlowTick(w)
  <2>1. lane' \in [Lane -> LaneState]
    BY <1>7 DEF SlowTick, TypeOK, ClaimingLane, IdleLane, LaneState, Phase
  <2>2. QED  BY <1>7, <2>1 DEF SlowTick, TypeOK
<1>8. CASE Crash(w)
  <2>1. lane' \in [Lane -> LaneState]
    BY <1>8 DEF Crash, TypeOK, IdleLane, LaneState, Phase
  <2>2. QED  BY <1>8, <2>1, JobQueueAssumption DEF Crash, TypeOK, Fault
<1>9. QED  BY <1>1, <1>2, <1>3, <1>4, <1>5, <1>6, <1>7, <1>8 DEF WorkerStep

LEMMA LaneTypes ==
  /\ IdleLane \in LaneState /\ ClaimingLane \in LaneState
  /\ TypeOK => \A l \in Lane : AfterExecute(l) \in LaneState
<1>1. IdleLane \in LaneState /\ ClaimingLane \in LaneState
  BY DEF IdleLane, ClaimingLane, LaneState, Phase
<1>2. ASSUME TypeOK, NEW l \in Lane
      PROVE  [lane[l] EXCEPT !.phase = "next"] \in LaneState
  BY <1>2 DEF TypeOK, LaneState, Phase
<1>3. QED  BY <1>1, <1>2 DEF AfterExecute

LEMMA LoopEndsKeepsType ==
  ASSUME TypeOK, NEW l \in Lane, LoopEnds(l)
  PROVE  lane' \in [Lane -> LaneState] /\ drain' \in [Worker -> SUBSET Slot]
<1>1. lane' \in [Lane -> LaneState]
  BY LaneTypes DEF LoopEnds, TypeOK
<1>2. drain' \in [Worker -> SUBSET Slot]
  BY DEF LoopEnds, TypeOK, Lane
<1>3. QED  BY <1>1, <1>2

LEMMA WriteKeepsType ==
  ASSUME TypeOK, LanesRemember, NEW l \in Lane, Executing(l),
         NEW status \in {"pending", "succeeded", "failed"}, Write(l, status)
  PROVE  row' \in [Job -> Row]
<1>1. lane[l].job \in Job
  BY DEF LanesRemember
<1>2. row[lane[l].job] \in Row
  BY <1>1 DEF TypeOK
<1>3. status \in RowStatus
  BY DEF RowStatus
<1>4. [row[lane[l].job] EXCEPT !.status = status, !.due = FALSE, !.stale = FALSE] \in Row
  BY <1>2, <1>3 DEF Row
<1>5. QED  BY <1>1, <1>4 DEF Write, TypeOK

LEMMA LoopKeepsType ==
  ASSUME TypeOK, LanesRemember, NEW l \in Lane, LoopStep(l)
  PROVE  TypeOK'
<1>1. ASSUME NEW j \in Job, Claim(l, j)
      PROVE  TypeOK'
  <2>0. row[j] \in Row /\ row[j].attempts + 1 \in Nat /\ "running" \in RowStatus
    BY DEF TypeOK, Row, RowStatus
  <2>1. ASSUME NEW r \in Row, NEW n \in Nat, NEW s \in RowStatus
        PROVE  [r EXCEPT !.status = s, !.due = FALSE, !.stale = FALSE, !.attempts = n] \in Row
    BY DEF Row
  <2>2. row' \in [Job -> Row]
    BY <1>1, <2>0, <2>1 DEF Claim, TypeOK
  <2>3. [phase |-> "run", job |-> j, type |-> row[j].type,
         attempt |-> row[j].attempts + 1] \in LaneState
    BY <2>0 DEF Row, LaneState, Phase
  <2>4. lane' \in [Lane -> LaneState]
    BY <1>1, <2>3 DEF Claim, TypeOK
  <2>5. earlier' \subseteq Job \X Job
    BY <1>1 DEF Claim, LeaveDue, TypeOK
  <2>6. QED  BY <1>1, <2>2, <2>4, <2>5 DEF Claim, TypeOK
<1>2. CASE ClaimNone(l)
  BY <1>2, LoopEndsKeepsType DEF ClaimNone, TypeOK
<1>3. ASSUME NEW outcome \in {"ok", "fail"}, HandlerSettles(l, outcome)
      PROVE  TypeOK'
  <2>1. [lane[l] EXCEPT !.phase = outcome] \in LaneState
    BY DEF TypeOK, LaneState, Phase
  <2>2. lane' \in [Lane -> LaneState]
    BY <1>3, <2>1 DEF HandlerSettles, TypeOK
  <2>3. QED  BY <1>3, <2>2 DEF HandlerSettles, TypeOK
<1>4. CASE MarkSucceeded(l)
  <2>1. row' \in [Job -> Row]
    BY <1>4, WriteKeepsType DEF MarkSucceeded, Executing
  <2>2. lane' \in [Lane -> LaneState]
    BY <1>4, LaneTypes DEF MarkSucceeded, TypeOK
  <2>3. QED  BY <1>4, <2>1, <2>2 DEF MarkSucceeded, TypeOK
<1>5. CASE MarkSucceededFails(l)
  <2>1. [lane[l] EXCEPT !.phase = "fail"] \in LaneState
    BY DEF TypeOK, LaneState, Phase
  <2>2. lane' \in [Lane -> LaneState]
    BY <1>5, <2>1 DEF MarkSucceededFails, TypeOK
  <2>3. QED  BY <1>5, <2>2, JobQueueAssumption DEF MarkSucceededFails, Fault, TypeOK
<1>6. CASE HandleFailure(l)
  <2>1. row' \in [Job -> Row]
    BY <1>6, WriteKeepsType DEF HandleFailure, Executing
  <2>2. lane' \in [Lane -> LaneState]
    BY <1>6, LaneTypes DEF HandleFailure, TypeOK
  <2>3. QED  BY <1>6, <2>1, <2>2 DEF HandleFailure, TypeOK
<1>7. CASE EnqueueNext(l)
  <2>1. lane[l].type \in Type /\ lane[l].type \in Key
    BY <1>7, JobQueueAssumption DEF EnqueueNext, LanesRemember
  <2>2. row' \in [Job -> Row] /\ earlier' \subseteq Job \X Job
    BY <1>7, <2>1, InsertKeepsType DEF EnqueueNext
  <2>3. lane' \in [Lane -> LaneState]
    BY <1>7, LaneTypes DEF EnqueueNext, TypeOK
  <2>4. QED  BY <1>7, <2>2, <2>3 DEF EnqueueNext, TypeOK
<1>8. CASE LoopThrows(l)
  <2>1. lane' \in [Lane -> LaneState]
    BY <1>8, LaneTypes DEF LoopThrows, TypeOK
  <2>2. drain' \in [Worker -> SUBSET Slot]
    BY <1>8 DEF LoopThrows, TypeOK, Lane
  <2>3. QED  BY <1>8, <2>1, <2>2, JobQueueAssumption DEF LoopThrows, Fault, TypeOK
<1>9. QED  BY <1>1, <1>2, <1>3, <1>4, <1>5, <1>6, <1>7, <1>8 DEF LoopStep

-----------------------------------------------------------------------------
(* Steps that leave the executing loops and their rows alone.              *)

QuietRows == \A l \in Lane : Executing(l) => row'[lane[l].job] = row[lane[l].job]
QuietLanes ==
  \A l \in Lane : Executing(l)' =>
    /\ Executing(l)
    /\ lane'[l].job = lane[l].job
    /\ lane'[l].type = lane[l].type
    /\ lane'[l].attempt = lane[l].attempt

\* Every loop that executes after the step executed the same attempt of the
\* same job before it, and the step left its row alone.
KeepsOwners ==
  \A l \in Lane : Executing(l)' =>
    /\ Executing(l)
    /\ lane'[l].job = lane[l].job
    /\ lane'[l].type = lane[l].type
    /\ lane'[l].attempt = lane[l].attempt
    /\ row'[lane[l].job] = row[lane[l].job]

LEMMA QuietKeepsOwners ==
  ASSUME QuietRows, QuietLanes
  PROVE  KeepsOwners
  BY DEF QuietRows, QuietLanes, KeepsOwners

LEMMA OwnershipFrame ==
  ASSUME OutcomeFindsItsAttempt, OneLoopPerRow, KeepsOwners
  PROVE  OutcomeFindsItsAttempt' /\ OneLoopPerRow'
<1>1. OutcomeFindsItsAttempt'
  BY DEF OutcomeFindsItsAttempt, KeepsOwners
<1>2. OneLoopPerRow'
  BY DEF OneLoopPerRow, KeepsOwners
<1>3. QED  BY <1>1, <1>2

\* Rows only leave the index, and those in it keep their key.
KeysLeave ==
  \A j \in Job : Live(j)' =>
    Live(j) /\ row'[j].type = row[j].type /\ row'[j].key = row[j].key

LEMMA KeysFrame ==
  ASSUME KeysUnique, KeysLeave
  PROVE  KeysUnique'
  BY DEF KeysUnique, KeysLeave

\* One row enters the index, and no live row has its key.
KeyEnters(j, t, k) ==
  /\ ~HasTwin(t, k)
  /\ row'[j].type = t /\ row'[j].key = k
  /\ \A i \in Job \ {j} : row'[i] = row[i]

LEMMA KeyEntersUnique ==
  ASSUME KeysUnique, NEW j \in Job, NEW t, NEW k, KeyEnters(j, t, k)
  PROVE  KeysUnique'
  BY DEF KeysUnique, KeyEnters, HasTwin, Live

\* What RowsTyped and AttemptsBounded ask of one row.
RowFine(r) ==
  /\ r.status = "free" => r = FreeRow
  /\ r.status # "free" =>
       /\ r.type \in Type
       /\ r.attempts <= AttemptLimit(r.type)
       /\ r.status = "pending" => r.attempts < AttemptLimit(r.type)

RowsFine == \A j \in Job : RowFine(row[j])

LEMMA RowsFineIs == RowsFine <=> (RowsTyped /\ AttemptsBounded)
  BY DEF RowsFine, RowFine, RowsTyped, AttemptsBounded

LEMMA RowsFineIsPrimed == RowsFine' <=> (RowsTyped' /\ AttemptsBounded')
  BY DEF RowsFine, RowFine, RowsTyped, AttemptsBounded

LEMMA LimitPositive ==
  \A t \in Type : AttemptLimit(t) \in Nat \ {0} /\ MaxAttempts[t] <= AttemptLimit(t)
                  /\ SweepMaxAttempts <= AttemptLimit(t) /\ MaxAttempts[t] \in Nat
  BY JobQueueAssumption DEF AttemptLimit

\* Insert writes one fine row in a place no loop executes.
LEMMA InsertFrame ==
  ASSUME IInv, NEW t \in Type, NEW k \in Key \union {None}, NEW due \in BOOLEAN,
         Insert(t, k, due)
  PROVE  QuietRows /\ KeysUnique' /\ RowsFine'
<1>1. CASE UNCHANGED <<row, earlier>>
  BY <1>1, RowsFineIs DEF IInv, QuietRows, KeysUnique, Live, RowsFine, RowFine
<1>2. ASSUME NEW j \in Job, row[j].status = "free", ~HasTwin(t, k),
             row' = [row EXCEPT ![j] = NewRow(t, k, due)]
      PROVE  QuietRows /\ KeysUnique' /\ RowsFine'
  <2>1. /\ row'[j] = NewRow(t, k, due)
        /\ \A i \in Job \ {j} : row'[i] = row[i]
    BY <1>2 DEF IInv, TypeOK
  <2>2. QuietRows
    BY <1>2, <2>1 DEF IInv, QuietRows, LanesRemember, OutcomeFindsItsAttempt
  <2>3. KeyEnters(j, t, k)
    BY <1>2, <2>1 DEF KeyEnters, NewRow
  <2>4. KeysUnique'
    BY <2>3, KeyEntersUnique DEF IInv
  <2>5. RowFine(NewRow(t, k, due))
    BY LimitPositive DEF RowFine, NewRow
  <2>6. RowsFine'
    BY <2>1, <2>5, RowsFineIs DEF RowsFine, IInv
  <2>7. QED  BY <2>2, <2>4, <2>6
<1>3. QED  BY <1>1, <1>2, InsertAdds

-----------------------------------------------------------------------------
(* The application and the workers.                                        *)

LEMMA ApplicationFrame ==
  ASSUME IInv, Application
  PROVE  QuietRows /\ KeysUnique' /\ RowsFine'
<1>1. ASSUME NEW t \in Type, NEW k \in Key \union {None}, NEW due \in BOOLEAN, Enqueue(t, k, due)
      PROVE  QuietRows /\ KeysUnique' /\ RowsFine'
  BY <1>1, InsertFrame DEF Enqueue
<1>2. ASSUME NEW j \in Job, RunAtPasses(j)
      PROVE  QuietRows /\ KeysUnique' /\ RowsFine'
  <2>1. /\ row[j].status = "pending"
        /\ row'[j] = [row[j] EXCEPT !.due = TRUE]
        /\ \A i \in Job \ {j} : row'[i] = row[i]
    BY <1>2 DEF RunAtPasses, IInv, TypeOK
  <2>2. /\ row'[j].status = "pending" /\ row'[j].type = row[j].type
        /\ row'[j].key = row[j].key /\ row'[j].attempts = row[j].attempts
    BY <2>1 DEF IInv, TypeOK, Row
  <2>3. QuietRows
    BY <2>1 DEF IInv, QuietRows, LanesRemember, OutcomeFindsItsAttempt
  <2>4. KeysUnique'
    BY <2>1, <2>2, KeysFrame DEF IInv, KeysLeave, Live
  <2>5. RowsFine'
    BY <2>1, <2>2, RowsFineIs DEF IInv, RowsFine, RowFine
  <2>6. QED  BY <2>3, <2>4, <2>5
<1>3. ASSUME NEW j \in Job, GracePasses(j)
      PROVE  QuietRows /\ KeysUnique' /\ RowsFine'
  <2>1. /\ row[j].status = "running"
        /\ row'[j] = [row[j] EXCEPT !.stale = TRUE]
        /\ \A i \in Job \ {j} : row'[i] = row[i]
    BY <1>3 DEF GracePasses, IInv, TypeOK
  <2>2. /\ row'[j].status = "running" /\ row'[j].type = row[j].type
        /\ row'[j].key = row[j].key /\ row'[j].attempts = row[j].attempts
    BY <2>1 DEF IInv, TypeOK, Row
  <2>3. QuietRows
    BY <1>3, <2>1 DEF GracePasses, Executes, Executing, IInv, QuietRows, LanesRemember
  <2>4. KeysUnique'
    BY <2>1, <2>2, KeysFrame DEF IInv, KeysLeave, Live
  <2>5. RowsFine'
    BY <2>1, <2>2, RowsFineIs DEF IInv, RowsFine, RowFine
  <2>6. QED  BY <2>3, <2>4, <2>5
<1>4. ASSUME NEW j \in Job, Requeue(j)
      PROVE  QuietRows /\ KeysUnique' /\ RowsFine'
  <2>1. /\ row[j].status = "failed" /\ ~HasTwin(row[j].type, row[j].key)
        /\ row'[j] = [row[j] EXCEPT !.status = "pending", !.due = TRUE, !.attempts = 0,
                                    !.stale = FALSE]
        /\ \A i \in Job \ {j} : row'[i] = row[i]
    BY <1>4 DEF Requeue, IInv, TypeOK
  <2>2. /\ row'[j].status = "pending" /\ row'[j].type = row[j].type
        /\ row'[j].key = row[j].key /\ row'[j].attempts = 0
    BY <2>1 DEF IInv, TypeOK, Row
  <2>3. QuietRows
    BY <2>1 DEF IInv, QuietRows, LanesRemember, OutcomeFindsItsAttempt
  <2>4. KeyEnters(j, row[j].type, row[j].key)
    BY <2>1, <2>2 DEF KeyEnters
  <2>5. KeysUnique'
    BY <2>4, KeyEntersUnique DEF IInv
  <2>6. RowFine(row'[j])
    <3>1. row[j].type \in Type
      BY <2>1 DEF IInv, RowsTyped
    <3>2. AttemptLimit(row[j].type) \in Nat \ {0}
      BY <3>1, LimitPositive
    <3>3. QED  BY <2>2, <3>1, <3>2 DEF RowFine
  <2>7. RowsFine'
    BY <2>1, <2>6, RowsFineIs DEF IInv, RowsFine
  <2>8. QED  BY <2>3, <2>5, <2>7
<1>5. ASSUME NEW j \in Job, Purge(j)
      PROVE  QuietRows /\ KeysUnique' /\ RowsFine'
  <2>1. /\ row[j].status \in {"succeeded", "failed"}
        /\ row'[j] = FreeRow
        /\ \A i \in Job \ {j} : row'[i] = row[i]
    BY <1>5 DEF Purge, IInv, TypeOK
  <2>2. row'[j].status = "free"
    BY <2>1 DEF FreeRow
  <2>3. QuietRows
    BY <2>1 DEF IInv, QuietRows, LanesRemember, OutcomeFindsItsAttempt
  <2>4. KeysUnique'
    BY <2>1, <2>2, KeysFrame DEF IInv, KeysLeave, Live
  <2>5. RowsFine'
    BY <2>1, <2>2, RowsFineIs DEF IInv, RowsFine, RowFine
  <2>6. QED  BY <2>3, <2>4, <2>5
<1>6. QED  BY <1>1, <1>2, <1>3, <1>4, <1>5 DEF Application

\* The sweep takes rows no loop executes, because those are not stale.
LEMMA RecoverFrame ==
  ASSUME IInv, NEW F \in SUBSET Spent, NEW R \in SUBSET Retried, Recover(F, R)
  PROVE  QuietRows /\ KeysUnique' /\ RowsFine'
<1>1. ASSUME NEW j \in R
      PROVE  /\ j \in Job /\ row[j].status = "running" /\ row[j].stale
             /\ row[j].attempts < SweepMaxAttempts
             /\ row'[j].status = "pending" /\ row'[j].type = row[j].type
             /\ row'[j].key = row[j].key /\ row'[j].attempts = row[j].attempts
  <2>1. j \in Job /\ row[j].status = "running" /\ row[j].stale /\ ~UsedUp(j)
    BY DEF Retried, Stalled
  <2>2. row'[j] = [row[j] EXCEPT !.status = "pending", !.due = TRUE, !.stale = FALSE]
    BY <2>1 DEF Recover
  <2>3. row[j] \in Row
    BY <2>1 DEF IInv, TypeOK
  <2>4. QED  BY <2>1, <2>2, <2>3, JobQueueAssumption DEF Row, UsedUp
<1>2. ASSUME NEW j \in Job \ R
      PROVE  \/ row'[j] = row[j]
             \/ /\ row[j].status = "running" /\ row[j].stale
                /\ row'[j].status = "failed" /\ row'[j].type = row[j].type
                /\ row'[j].attempts = row[j].attempts
  <2>1. row[j] \in Row
    BY DEF IInv, TypeOK
  <2>2. QED  BY <2>1 DEF Recover, Spent, Stalled, Row
<1>3. QuietRows
  BY <1>1, <1>2 DEF IInv, QuietRows, LanesRemember, OneLoopPerRow
<1>4. KeysUnique'
  BY <1>1, <1>2, KeysFrame DEF IInv, KeysLeave, Live
<1>5. ASSUME NEW j \in R
      PROVE  RowFine(row'[j])
  <2>1. row[j].type \in Type /\ row[j].attempts \in Nat
    BY <1>1, <1>5 DEF IInv, TypeOK, Row, RowsTyped
  <2>2. row'[j].attempts < AttemptLimit(row'[j].type)
    BY <1>1, <1>5, <2>1, LimitPositive, JobQueueAssumption
  <2>3. QED  BY <1>1, <1>5, <2>1, <2>2, LimitPositive DEF RowFine
<1>6. ASSUME NEW j \in Job \ R
      PROVE  RowFine(row'[j])
  BY <1>2, RowsFineIs DEF IInv, RowsFine, RowFine
<1>7. QED  BY <1>3, <1>4, <1>5, <1>6 DEF RowsFine

\* A step that leaves the table alone keeps what is said of the table.
LEMMA RowsUnchanged ==
  ASSUME IInv, row' = row
  PROVE  QuietRows /\ KeysUnique' /\ RowsFine'
<1>1. KeysUnique'
  BY KeysFrame DEF IInv, KeysLeave, Live
<1>2. RowsFine'
  BY RowsFineIs DEF IInv, RowsFine
<1>3. QED  BY <1>1, <1>2 DEF QuietRows

\* A step that only sends places to "idle" or "claim".
LanesReset ==
  \A l \in Lane : lane'[l] = lane[l] \/ lane'[l].phase \in {"idle", "claim"}

LEMMA ResetFrame ==
  ASSUME IInv, LanesReset
  PROVE  QuietLanes /\ LanesRemember'
<1>1. QuietLanes
  BY DEF LanesReset, QuietLanes, Executing
<1>2. LanesRemember'
  BY DEF IInv, LanesReset, LanesRemember, Executing
<1>3. QED  BY <1>1, <1>2

LEMMA StartLoopsResets ==
  ASSUME NEW w \in Worker, NEW S \in SUBSET Slot, StartLoops(w, S)
  PROVE  LanesReset
<1>1. ClaimingLane.phase = "claim"
  BY DEF ClaimingLane, IdleLane
<1>2. QED  BY <1>1 DEF StartLoops, LanesReset

LEMMA WorkerFrame ==
  ASSUME IInv, NEW w \in Worker, WorkerStep(w)
  PROVE  QuietRows /\ LanesReset /\ KeysUnique' /\ RowsFine'
<1> DEFINE Goal == QuietRows /\ LanesReset /\ KeysUnique' /\ RowsFine'
<1>1. CASE Start(w)
  BY <1>1, RowsUnchanged DEF Start, LanesReset
<1>2. ASSUME NEW t \in Recurring, BootEnqueue(w, t)
      PROVE  Goal
  <2>1. t \in Type /\ t \in Key
    BY JobQueueAssumption
  <2>2. QED  BY <1>2, <2>1, InsertFrame DEF BootEnqueue, LanesReset
<1>3. CASE BootDone(w)
  BY <1>3, RowsUnchanged DEF BootDone, LanesReset
<1>4. ASSUME NEW S \in SUBSET Slot, Tick(w, S)
      PROVE  Goal
  BY <1>4, RowsUnchanged, StartLoopsResets DEF Tick
<1>5. ASSUME NEW S \in SUBSET Slot, SweepTick(w, S)
      PROVE  Goal
  BY <1>5, RecoverFrame, StartLoopsResets DEF SweepTick
<1>6. CASE SweepFails(w)
  BY <1>6, RecoverFrame DEF SweepFails, LanesReset, local, Regular
<1>7. CASE SlowTick(w)
  <2>1. ClaimingLane.phase = "claim"
    BY DEF ClaimingLane, IdleLane
  <2>2. LanesReset
    BY <1>7, <2>1 DEF SlowTick, LanesReset, IInv, TypeOK
  <2>3. QED  BY <1>7, <2>2, RowsUnchanged DEF SlowTick
<1>8. CASE Crash(w)
  <2>1. IdleLane.phase = "idle"
    BY DEF IdleLane
  <2>2. QED  BY <1>8, <2>1, RowsUnchanged DEF Crash, LanesReset
<1>9. QED  BY <1>1, <1>2, <1>3, <1>4, <1>5, <1>6, <1>7, <1>8 DEF WorkerStep

-----------------------------------------------------------------------------
(* The loops.                                                              *)

\* claimNext takes a pending row, which no loop executes.
LEMMA ClaimKeeps ==
  ASSUME IInv, NEW l \in Lane, NEW j \in Job, Claim(l, j)
  PROVE  OutcomeFindsItsAttempt' /\ OneLoopPerRow' /\ LanesRemember'
         /\ KeysUnique' /\ RowsFine'
<1>1. /\ row[j] \in Row /\ row[j].attempts \in Nat /\ row[j].status = "pending"
      /\ row[j].type \in Type
  BY DEF Claim, First, Claimable, DueRows, Due, IInv, TypeOK, Row, RowsTyped
<1>2. /\ row'[j] = [row[j] EXCEPT !.status = "running", !.due = FALSE,
                                  !.stale = FALSE, !.attempts = row[j].attempts + 1]
      /\ \A i \in Job \ {j} : row'[i] = row[i]
  BY DEF Claim, IInv, TypeOK
<1>3. /\ row'[j].status = "running" /\ row'[j].stale = FALSE
      /\ row'[j].attempts = row[j].attempts + 1
      /\ row'[j].type = row[j].type /\ row'[j].key = row[j].key
  BY <1>1, <1>2 DEF Row
<1>4. /\ lane'[l].phase = "run" /\ lane'[l].job = j /\ lane'[l].type = row[j].type
      /\ lane'[l].attempt = row[j].attempts + 1
      /\ \A m \in Lane \ {l} : lane'[m] = lane[m]
  BY DEF Claim, IInv, TypeOK
<1>5. \A m \in Lane : Executing(m) => lane[m].job \in Job /\ lane[m].job # j
  BY <1>1 DEF IInv, LanesRemember, OutcomeFindsItsAttempt
<1>6. ASSUME NEW m \in Lane, m # l, Executing(m)'
      PROVE  /\ Executing(m) /\ lane'[m] = lane[m]
             /\ lane'[m].job \in Job \ {j}
             /\ row'[lane'[m].job] = row[lane[m].job]
  BY <1>2, <1>4, <1>5, <1>6 DEF Executing
<1>7. OutcomeFindsItsAttempt' /\ OneLoopPerRow'
  <2>1. OutcomeFindsItsAttempt'
    <3>1. ASSUME NEW m \in Lane, Executing(m)'
          PROVE  /\ row'[lane'[m].job].status = "running"
                 /\ row'[lane'[m].job].attempts = lane'[m].attempt
                 /\ row'[lane'[m].job].type = lane'[m].type
      <4>1. CASE m = l
        BY <4>1, <1>3, <1>4
      <4>2. CASE m # l
        BY <3>1, <4>2, <1>6 DEF IInv, OutcomeFindsItsAttempt
      <4>3. QED  BY <4>1, <4>2
    <3>2. QED  BY <3>1 DEF OutcomeFindsItsAttempt
  <2>2. ASSUME NEW m \in Lane, NEW n \in Lane, Executing(m)'
        PROVE  /\ ~row'[lane'[m].job].stale
               /\ (Executing(n)' /\ lane'[m].job = lane'[n].job) => m = n
    <3>1. CASE m = l
      BY <3>1, <1>3, <1>4, <1>6
    <3>2. CASE m # l
      BY <2>2, <3>2, <1>4, <1>6 DEF IInv, OneLoopPerRow
    <3>3. QED  BY <3>1, <3>2
  <2>3. QED  BY <2>1, <2>2 DEF OneLoopPerRow
<1>8. LanesRemember'
  <2>1. row[j].attempts + 1 # 0
    BY <1>1
  <2>2. QED  BY <1>1, <1>4, <2>1 DEF LanesRemember, Executing, IInv
<1>9. KeysUnique'
  BY <1>1, <1>2, <1>3, KeysFrame DEF IInv, KeysLeave, Live
<1>10. RowFine(row'[j])
  <2>1. row[j].attempts < AttemptLimit(row[j].type)
    BY <1>1 DEF IInv, AttemptsBounded
  <2>2. row[j].attempts + 1 <= AttemptLimit(row[j].type)
    BY <1>1, <2>1, LimitPositive
  <2>3. QED  BY <1>1, <1>3, <2>2 DEF RowFine
<1>11. RowsFine'
  BY <1>2, <1>10, RowsFineIs DEF IInv, RowsFine
<1>12. QED  BY <1>7, <1>8, <1>9, <1>11

\* The outcome is written to the row the loop executes, and the loop stops
\* executing it.
LEMMA WriteKeeps ==
  ASSUME IInv, NEW l \in Lane, Executing(l),
         NEW status \in {"pending", "succeeded", "failed"}, Write(l, status),
         status = "pending" => Retryable(l),
         lane' = [lane EXCEPT ![l] = AfterExecute(l)]
  PROVE  OutcomeFindsItsAttempt' /\ OneLoopPerRow' /\ LanesRemember'
         /\ KeysUnique' /\ RowsFine'
<1> DEFINE j == lane[l].job
<1>1. /\ j \in Job /\ row[j] \in Row /\ row[j].status = "running"
      /\ row[j].attempts = lane[l].attempt /\ row[j].type = lane[l].type
      /\ lane[l].type \in Type
  BY DEF IInv, TypeOK, LanesRemember, OutcomeFindsItsAttempt
<1>2. /\ row'[j] = [row[j] EXCEPT !.status = status, !.due = FALSE, !.stale = FALSE]
      /\ \A i \in Job \ {j} : row'[i] = row[i]
  BY <1>1 DEF Write, IInv, TypeOK
<1>3. /\ row'[j].status = status /\ row'[j].attempts = row[j].attempts
      /\ row'[j].type = row[j].type /\ row'[j].key = row[j].key
  BY <1>1, <1>2 DEF Row
<1>4. /\ lane'[l] = AfterExecute(l)
      /\ \A m \in Lane \ {l} : lane'[m] = lane[m]
  BY DEF IInv, TypeOK
<1>5. /\ lane'[l].phase \in {"idle", "claim", "next"}
      /\ lane'[l].phase = "next" => lane'[l].type \in Recurring
  <2>1. IdleLane.phase = "idle" /\ ClaimingLane.phase = "claim"
    BY DEF IdleLane, ClaimingLane
  <2>2. [lane[l] EXCEPT !.phase = "next"].phase = "next"
        /\ [lane[l] EXCEPT !.phase = "next"].type = lane[l].type
    BY DEF IInv, TypeOK, LaneState
  <2>3. QED  BY <1>4, <2>1, <2>2 DEF AfterExecute
<1>6. KeepsOwners
  BY <1>2, <1>4, <1>5 DEF KeepsOwners, Executing, IInv, OneLoopPerRow, LanesRemember
<1>7. OutcomeFindsItsAttempt' /\ OneLoopPerRow'
  BY <1>6, OwnershipFrame DEF IInv
<1>8. LanesRemember'
  BY <1>4, <1>5 DEF IInv, LanesRemember, Executing
<1>9. KeysUnique'
  BY <1>1, <1>2, <1>3, KeysFrame DEF IInv, KeysLeave, Live
<1>10. RowFine(row'[j])
  <2>1. row[j].attempts \in Nat /\ row[j].attempts <= AttemptLimit(row[j].type)
    BY <1>1 DEF IInv, AttemptsBounded, Row
  <2>2. status = "pending" => row[j].attempts < AttemptLimit(row[j].type)
    BY <1>1, <2>1, LimitPositive DEF Retryable
  <2>3. QED  BY <1>1, <1>3, <2>1, <2>2 DEF RowFine
<1>11. RowsFine'
  BY <1>2, <1>10, RowsFineIs DEF IInv, RowsFine
<1>12. QED  BY <1>7, <1>8, <1>9, <1>11

LEMMA LoopKeeps ==
  ASSUME IInv, NEW l \in Lane, LoopStep(l)
  PROVE  OutcomeFindsItsAttempt' /\ OneLoopPerRow' /\ LanesRemember'
         /\ KeysUnique' /\ RowsFine'
<1> DEFINE Goal == OutcomeFindsItsAttempt' /\ OneLoopPerRow' /\ LanesRemember'
                   /\ KeysUnique' /\ RowsFine'
<1>0. IdleLane.phase = "idle" /\ ClaimingLane.phase = "claim"
  BY DEF IdleLane, ClaimingLane
<1>1. ASSUME NEW j \in Job, Claim(l, j)
      PROVE  Goal
  BY <1>1, ClaimKeeps
<1>2. CASE ClaimNone(l)
  <2>1. LanesReset
    BY <1>0, <1>2 DEF ClaimNone, LoopEnds, LanesReset, IInv, TypeOK
  <2>2. QED
    BY <1>2, <2>1, RowsUnchanged, ResetFrame, QuietKeepsOwners, OwnershipFrame
    DEF ClaimNone, IInv
<1>3. ASSUME NEW phase \in {"ok", "fail"}, lane[l].phase \in {"run", "ok"},
             lane' = [lane EXCEPT ![l].phase = phase], row' = row
      PROVE  Goal
  <2>1. /\ lane'[l].phase = phase /\ lane'[l].job = lane[l].job
        /\ lane'[l].type = lane[l].type /\ lane'[l].attempt = lane[l].attempt
        /\ \A m \in Lane \ {l} : lane'[m] = lane[m]
    BY <1>3 DEF IInv, TypeOK, LaneState
  <2>2. KeepsOwners /\ LanesRemember'
    BY <1>3, <2>1 DEF KeepsOwners, Executing, IInv, LanesRemember
  <2>3. QED  BY <1>3, <2>2, RowsUnchanged, OwnershipFrame DEF IInv
<1>4. CASE MarkSucceeded(l)
  BY <1>4, WriteKeeps DEF MarkSucceeded, Executing
<1>5. CASE HandleFailure(l)
  BY <1>5, WriteKeeps DEF HandleFailure, Executing
<1>6. CASE EnqueueNext(l)
  <2>1. lane[l].type \in Type /\ lane[l].type \in Key
    BY <1>6, JobQueueAssumption DEF EnqueueNext, IInv, LanesRemember
  <2>2. QuietRows /\ KeysUnique' /\ RowsFine'
    BY <1>6, <2>1, InsertFrame DEF EnqueueNext
  <2>3. LanesReset
    BY <1>0, <1>6 DEF EnqueueNext, LanesReset, IInv, TypeOK
  <2>4. QED  BY <2>2, <2>3, ResetFrame, QuietKeepsOwners, OwnershipFrame DEF IInv
<1>7. CASE LoopThrows(l)
  <2>1. LanesReset
    BY <1>0, <1>7 DEF LoopThrows, LanesReset, IInv, TypeOK
  <2>2. QED
    BY <1>7, <2>1, RowsUnchanged, ResetFrame, QuietKeepsOwners, OwnershipFrame
    DEF LoopThrows, IInv
<1>8. QED
  BY <1>1, <1>2, <1>3, <1>4, <1>5, <1>6, <1>7
  DEF LoopStep, HandlerSettles, MarkSucceededFails

-----------------------------------------------------------------------------
(* The invariant is inductive.                                             *)

LEMMA InvInit == Init => IInv
<1>1. ASSUME Init
      PROVE  /\ \A l \in Lane : lane[l].phase = "idle"
             /\ \A j \in Job : row[j] = FreeRow /\ row[j].status = "free"
  BY <1>1 DEF Init, IdleLane, FreeRow
<1>2. QED
  BY <1>1, TypeInit
  DEF IInv, LanesRemember, RowsTyped, OutcomeFindsItsAttempt, OneLoopPerRow, KeysUnique,
      AttemptsBounded, Executing, Live

LEMMA InvStep == IInv /\ [Next]_vars => IInv'
<1> SUFFICES ASSUME IInv, [Next]_vars
             PROVE  IInv'
  OBVIOUS
<1>1. CASE Application
  <2>1. LanesReset
    BY <1>1 DEF Application, Enqueue, RunAtPasses, GracePasses, Requeue, Purge, LanesReset, local
  <2>2. TypeOK'
    BY <1>1, ApplicationKeepsType DEF IInv
  <2>3. QED
    BY <1>1, <2>1, <2>2, ApplicationFrame, ResetFrame, QuietKeepsOwners, OwnershipFrame,
       RowsFineIsPrimed
    DEF IInv
<1>2. ASSUME NEW w \in Worker, WorkerStep(w)
      PROVE  IInv'
  <2>1. TypeOK'
    BY <1>2, WorkerKeepsType DEF IInv
  <2>2. QED
    BY <1>2, <2>1, WorkerFrame, ResetFrame, QuietKeepsOwners, OwnershipFrame, RowsFineIsPrimed
    DEF IInv
<1>3. ASSUME NEW l \in Lane, LoopStep(l)
      PROVE  IInv'
  <2>1. TypeOK'
    BY <1>3, LoopKeepsType DEF IInv
  <2>2. QED
    BY <1>3, <2>1, LoopKeeps, RowsFineIsPrimed DEF IInv
<1>4. CASE UNCHANGED vars
  BY <1>4
  DEF vars, IInv, TypeOK, LanesRemember, RowsTyped, OutcomeFindsItsAttempt, OneLoopPerRow,
      KeysUnique, AttemptsBounded, Executing, Live
<1>5. QED  BY <1>1, <1>2, <1>3, <1>4 DEF Next

LEMMA Invariance == Spec => []IInv
  BY InvInit, InvStep, PTL DEF Spec

\* Every variable keeps its type.
THEOREM TypeCorrect == Spec => []TypeOK
<1>1. IInv => TypeOK
  BY DEF IInv
<1>2. QED  BY <1>1, Invariance, PTL

\* The updates of markSucceeded, markFailed and reschedule, which select by
\* id alone, find the attempt they were meant for.
THEOREM OutcomesFindTheirAttempts == Spec => []OutcomeFindsItsAttempt
<1>1. IInv => OutcomeFindsItsAttempt
  BY DEF IInv
<1>2. QED  BY <1>1, Invariance, PTL

\* No two loops run the same job, or two jobs of one type and dedupe key.
THEOREM TwinsNeverOverlap == Spec => []NoConcurrentTwins
<1>1. ASSUME IInv, NEW l \in Lane, NEW m \in Lane, Executing(l), Executing(m), l # m
      PROVE  /\ lane[l].job # lane[m].job
             /\ ~(/\ row[lane[l].job].type = row[lane[m].job].type
                  /\ row[lane[l].job].key = row[lane[m].job].key
                  /\ row[lane[l].job].key # None)
  <2>1. lane[l].job \in Job /\ lane[m].job \in Job
    BY <1>1 DEF IInv, LanesRemember
  <2>2. Live(lane[l].job) /\ Live(lane[m].job)
    BY <1>1 DEF IInv, OutcomeFindsItsAttempt, Live
  <2>3. lane[l].job # lane[m].job
    BY <1>1 DEF IInv, OneLoopPerRow
  <2>4. QED  BY <1>1, <2>1, <2>2, <2>3 DEF IInv, KeysUnique
<1>2. IInv => NoConcurrentTwins
  BY <1>1 DEF NoConcurrentTwins
<1>3. QED  BY <1>2, Invariance, PTL

\* No job is tried more often than the larger of the limit of its type and
\* the limit of the sweep.
THEOREM AttemptsStayBounded == Spec => []AttemptsBounded
<1>1. IInv => AttemptsBounded
  BY DEF IInv
<1>2. QED  BY <1>1, Invariance, PTL

-----------------------------------------------------------------------------
(* The queue implements the lifecycle of JobLifecycle.                     *)

\* What a step may do to a row, as the lifecycle sees it.
Same(r, s) == s.type = r.type /\ s.attempts = r.attempts
Moves(r, s) ==
  \/ s = r
  \/ s.status = r.status /\ Same(r, s)
  \/ r.status = "free" /\ s.status = "pending" /\ s.attempts = 0
  \/ /\ r.status = "pending" /\ s.status = "running"
     /\ s.type = r.type /\ s.attempts = r.attempts + 1
  \/ r.status = "running" /\ s.status \in {"pending", "succeeded", "failed"} /\ Same(r, s)
  \/ r.status = "failed" /\ s.status = "pending" /\ s.type = r.type /\ s.attempts = 0
  \/ r.status \in {"succeeded", "failed"} /\ s = FreeRow

RowsMove == \A j \in Job : Moves(row[j], row'[j])

LEMMA StageNames ==
  /\ StageOf["free"] = "absent" /\ StageOf["pending"] = "waiting"
  /\ StageOf["running"] = "active" /\ StageOf["succeeded"] = "done"
  /\ StageOf["failed"] = "dead"
  BY DEF StageOf

\* A move of a row is a step of its lifecycle.
LEMMA MovesAreSteps ==
  ASSUME IInv, IInv', NEW j \in Job, Moves(row[j], row'[j])
  PROVE  \/ Contract!Keep(j) \/ Contract!Admit(j) \/ Contract!Take(j) \/ Contract!Retry(j)
         \/ Contract!Settle(j) \/ Contract!Revive(j) \/ Contract!Forget(j)
<1> DEFINE r == row[j]
           s == row'[j]
<1>1. /\ r \in Row /\ s \in Row /\ RowFine(r) /\ RowFine(s)
  BY RowsFineIs, RowsFineIsPrimed DEF IInv, TypeOK, RowsFine
<1>2. /\ r.status # "free" => AttemptLimit(r.type) \in Nat \ {0}
      /\ s.status # "free" => AttemptLimit(s.type) \in Nat \ {0}
  BY <1>1, LimitPositive DEF RowFine
<1>3. CASE s.status = r.status /\ Same(r, s)
  BY <1>3 DEF Contract!Keep, Limit, Same
<1>4. CASE r.status = "free" /\ s.status = "pending" /\ s.attempts = 0
  <2>1. r.attempts = 0
    BY <1>1, <1>4 DEF RowFine, FreeRow
  <2>2. QED  BY <1>2, <1>4, <2>1, StageNames DEF Contract!Admit, Contract!Becomes, Limit
<1>5. CASE /\ r.status = "pending" /\ s.status = "running"
           /\ s.type = r.type /\ s.attempts = r.attempts + 1
  BY <1>1, <1>5, StageNames DEF Contract!Take, Contract!Becomes, Limit, RowFine
<1>6. CASE r.status = "running" /\ s.status = "pending" /\ Same(r, s)
  BY <1>1, <1>6, StageNames DEF Contract!Retry, Contract!Becomes, Limit, RowFine, Same
<1>7. CASE r.status = "running" /\ s.status \in {"succeeded", "failed"} /\ Same(r, s)
  BY <1>7, StageNames DEF Contract!Settle, Contract!Becomes, Limit, Same
<1>8. CASE r.status = "failed" /\ s.status = "pending" /\ s.type = r.type /\ s.attempts = 0
  BY <1>8, StageNames DEF Contract!Revive, Contract!Becomes, Limit
<1>9. CASE r.status \in {"succeeded", "failed"} /\ s = FreeRow
  BY <1>9, StageNames DEF Contract!Forget, Contract!Becomes, Limit, FreeRow
<1>10. QED
  BY <1>3, <1>4, <1>5, <1>6, <1>7, <1>8, <1>9 DEF Moves, Same

LEMMA InsertMoves ==
  ASSUME IInv, NEW t, NEW k, NEW due, Insert(t, k, due)
  PROVE  RowsMove
  BY InsertAdds DEF RowsMove, Moves, IInv, TypeOK, NewRow

LEMMA ApplicationMoves ==
  ASSUME IInv, Application
  PROVE  RowsMove
<1>1. ASSUME NEW t \in Type, NEW k \in Key \union {None}, NEW due \in BOOLEAN, Enqueue(t, k, due)
      PROVE  RowsMove
  BY <1>1, InsertMoves DEF Enqueue
<1>2. ASSUME NEW j \in Job, RunAtPasses(j) \/ GracePasses(j)
      PROVE  RowsMove
  BY <1>2 DEF RunAtPasses, GracePasses, RowsMove, Moves, Same, IInv, TypeOK, Row
<1>3. ASSUME NEW j \in Job, Requeue(j)
      PROVE  RowsMove
  BY <1>3 DEF Requeue, RowsMove, Moves, IInv, TypeOK, Row
<1>4. ASSUME NEW j \in Job, Purge(j)
      PROVE  RowsMove
  BY <1>4 DEF Purge, RowsMove, Moves, IInv, TypeOK
<1>5. QED  BY <1>1, <1>2, <1>3, <1>4 DEF Application

LEMMA RecoverMoves ==
  ASSUME IInv, NEW F \in SUBSET Spent, NEW R \in SUBSET Retried, Recover(F, R)
  PROVE  RowsMove
<1>1. ASSUME NEW j \in Job
      PROVE  Moves(row[j], row'[j])
  <2>1. row[j] \in Row
    BY DEF IInv, TypeOK
  <2>2. CASE j \in R
    BY <2>1, <2>2 DEF Recover, Retried, Stalled, Moves, Same, Row
  <2>3. CASE j \notin R
    BY <2>1, <2>3 DEF Recover, Spent, Stalled, Moves, Same, Row
  <2>4. QED  BY <2>2, <2>3
<1>2. QED  BY <1>1 DEF RowsMove

LEMMA WorkerMoves ==
  ASSUME IInv, NEW w \in Worker, WorkerStep(w)
  PROVE  RowsMove
<1>1. CASE row' = row
  BY <1>1 DEF RowsMove, Moves
<1>2. ASSUME NEW t \in Recurring, BootEnqueue(w, t)
      PROVE  RowsMove
  BY <1>2, InsertMoves DEF BootEnqueue
<1>3. ASSUME NEW S \in SUBSET Slot, SweepTick(w, S)
      PROVE  RowsMove
  BY <1>3, RecoverMoves DEF SweepTick
<1>4. CASE SweepFails(w)
  BY <1>4, RecoverMoves DEF SweepFails, Regular
<1>5. QED
  BY <1>1, <1>2, <1>3, <1>4 DEF WorkerStep, Start, BootDone, Tick, SlowTick, Crash

LEMMA LoopMoves ==
  ASSUME IInv, NEW l \in Lane, LoopStep(l)
  PROVE  RowsMove
<1>1. CASE row' = row
  BY <1>1 DEF RowsMove, Moves
<1>2. ASSUME NEW j \in Job, Claim(l, j)
      PROVE  RowsMove
  <2>1. row[j] \in Row /\ row[j].status = "pending"
    BY <1>2 DEF Claim, First, Claimable, DueRows, Due, IInv, TypeOK
  <2>2. Moves(row[j], row'[j])
    BY <1>2, <2>1 DEF Claim, Moves, IInv, TypeOK, Row
  <2>3. QED  BY <1>2, <2>2 DEF Claim, RowsMove, Moves, IInv, TypeOK
<1>3. ASSUME NEW status \in {"pending", "succeeded", "failed"}, Write(l, status), Executing(l)
      PROVE  RowsMove
  <2>1. /\ lane[l].job \in Job /\ row[lane[l].job] \in Row
        /\ row[lane[l].job].status = "running"
    BY <1>3 DEF IInv, TypeOK, LanesRemember, OutcomeFindsItsAttempt
  <2>2. Moves(row[lane[l].job], row'[lane[l].job])
    BY <1>3, <2>1 DEF Write, Moves, Same, IInv, TypeOK, Row
  <2>3. QED  BY <1>3, <2>1, <2>2 DEF Write, RowsMove, Moves, IInv, TypeOK
<1>4. CASE EnqueueNext(l)
  BY <1>4, InsertMoves DEF EnqueueNext
<1>5. QED
  BY <1>1, <1>2, <1>3, <1>4
  DEF LoopStep, ClaimNone, HandlerSettles, MarkSucceeded, MarkSucceededFails, HandleFailure,
      LoopThrows, Executing

\* The queue implements the lifecycle the services rely on, whatever number
\* of workers run it and whichever of them die.
THEOREM QueueImplementsLifecycle == Spec => ImplementsLifecycle
<1>1. Init => Contract!Init
  BY StageNames DEF Init, Contract!Init, Limit, FreeRow
<1>2. ASSUME IInv, IInv', [Next]_vars
      PROVE  [Contract!Next]_(Contract!lifecycle)
  <2>1. RowsMove
    <3>1. CASE UNCHANGED vars
      BY <3>1 DEF vars, RowsMove, Moves
    <3>2. QED  BY <1>2, <3>1, ApplicationMoves, WorkerMoves, LoopMoves DEF Next
  <2>2. QED  BY <1>2, <2>1, MovesAreSteps DEF RowsMove, Contract!Next
<1>3. QED  BY <1>1, <1>2, Invariance, PTL DEF Spec, ImplementsLifecycle, Contract!Spec
=============================================================================
