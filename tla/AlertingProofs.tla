---------------------------- MODULE AlertingProofs ----------------------------
(***************************************************************************)
(* Proofs about Alerting, for every set of events, issues, rules,          *)
(* deliveries and places for handlers, every limit of attempts and every   *)
(* number of faults.                                                       *)
(***************************************************************************)
EXTENDS Alerting, TLAPS

\* What a handler is at, x, fits the job j it runs.
Fits(x, j) ==
  /\ x.pc \in {"rules", "claim"} => j \in Event
  /\ x.pc = "claim" => x.rule \in Rule
  /\ x.pc \in {"send", "settle"} => j \in Delivery
  /\ x.pc = "settle" => x.verdict # "none"
  /\ x.pc = "end" => j \in Job

\* Jobs that wait have attempts left.
JobsFit(rows) ==
  /\ rows \in [Job -> JobRow]
  /\ \A j \in Job : rows[j].state = "waiting" => rows[j].tries < MaxAttempts

FormInv ==
  /\ TypeOK
  /\ JobsFit(job)
  /\ \A w \in Worker : Fits(local[w], run[w].job)

\* Runs a worker waits for are runs of active jobs, and one each.
OneRunPerJob ==
  /\ \A w \in Worker : run[w].job # None /\ ~run[w].late => job[run[w].job].state = "active"
  /\ \A v, w \in Worker :
       (v # w /\ ~run[v].late /\ ~run[w].late /\ run[v].job = run[w].job) => run[v].job = None
  /\ \A w \in Worker : run[w].late => run[w].job \in overran

\* A job appears with what it is for.
JobsAppear ==
  /\ \A e \in Event : event[e].stage \in {"new", "stored"} => job[e].state = "absent"
  /\ \A d \in Delivery :
       delivery[d].status = "none" => job[d].state = "absent" /\ delivery[d].rule = None

\* No alert is counted that no cooldown holds back from being repeated.
CooldownInv ==
  /\ OneAlertPerCooldown
  /\ \A c \in Rule \X Issue : cooldown[c] # "hot" => queued[c] = 0
  /\ CooldownHasAlert

\* A run has settled its delivery once it ends, unless it ends in a retry, and
\* finds it unsettled until then.
DeliveryInv ==
  /\ UnsettledHasJob
  /\ \A w \in Worker :
       run[w].job \in Delivery \ overran =>
         /\ local[w].pc \in {"send", "settle"} => delivery[run[w].job].status \in Unsettled
         /\ local[w].pc = "end" =>
              local[w].verdict = "retrying" \/ delivery[run[w].job].status \notin Unsettled

\* What queueAlert writes when the cooldown is free.
Queues(w, d) ==
  LET c == <<local[w].rule, IssueOf(w)>>
  IN /\ CooldownFree(w, c)
     /\ delivery[d].status = "none"
     /\ delivery' = [delivery EXCEPT ![d] =
          [status |-> "pending", rule |-> c[1], issue |-> c[2], event |-> run[w].job]]
     /\ job' = Enqueued({d})
     /\ cooldown' = [cooldown EXCEPT ![c] = "hot"]
     /\ queued' = [queued EXCEPT ![c] = queued[c] + 1]
     /\ Forget(w, c)

IInv == FormInv /\ OneRunPerJob /\ JobsAppear /\ CooldownInv /\ DeliveryInv

-----------------------------------------------------------------------------
(* The forms of the rows and of what handlers remember.                    *)

LEMMA StartFits == Start \in Local /\ \A j : Fits(Start, j)
  BY DEF Start, Local, Fits

LEMMA RowsTyped == NoRow \in JobRow /\ NewRow \in JobRow /\ NoRun \in Run
  BY ServiceJobsAssumption DEF NoRow, NewRow, NoRun, JobRow, JobState, Run

LEMMA EnqueuedTyped ==
  ASSUME FormInv, NEW J
  PROVE  JobsFit(Enqueued(J))
  BY RowsTyped, ServiceJobsAssumption DEF FormInv, JobsFit, Enqueued, NewRow

LEMMA SettledTyped ==
  ASSUME FormInv, NEW j, NEW state \in JobState, Settled(j, state),
         j \in Job /\ state = "waiting" => job[j].tries < MaxAttempts
  PROVE  JobsFit(job')
  BY DEF FormInv, JobsFit, Settled, JobRow

LEMMA FailedTyped ==
  ASSUME FormInv, NEW j, Failed(j)
  PROVE  JobsFit(job')
<1>1. (IF job[j].tries < MaxAttempts THEN "waiting" ELSE "dead") \in JobState
  BY DEF JobState
<1>2. QED  BY <1>1, SettledTyped DEF Failed

LEMMA AnswersTyped ==
  ASSUME FormInv, NEW e \in Event, NEW j \in Event \union {None}, Answers(e, j)
  PROVE  event' \in [Event -> EventRow]
<1> DEFINE x == event[e]
<1>0. x \in EventRow
  BY DEF FormInv, TypeOK
<1>1. [x EXCEPT !.stage = "answered", !.job = j] \in EventRow
  <2> HIDE DEF x
  <2>1. QED  BY <1>0 DEF EventRow
<1>2. event' = [event EXCEPT ![e] = [event[e] EXCEPT !.stage = "answered", !.job = j]]
  BY DEF Answers, FormInv, TypeOK, EventRow
<1>3. QED  BY <1>1, <1>2 DEF FormInv, TypeOK

LEMMA HandlerMoves ==
  ASSUME FormInv, NEW w \in Worker, NEW new \in Local, Fits(new, run[w].job),
         local' = [local EXCEPT ![w] = new], run' = run
  PROVE  local' \in [Worker -> Local] /\ \A v \in Worker : Fits(local'[v], run'[v].job)
  BY DEF FormInv, TypeOK

LEMMA GoesTo ==
  ASSUME FormInv, NEW w \in Worker, NEW pc \in {"rules", "send", "end"}, Goes(w, pc)
  PROVE  /\ [local[w] EXCEPT !.pc = pc] \in Local
         /\ [local[w] EXCEPT !.pc = pc].pc = pc
         /\ local' = [local EXCEPT ![w] = [local[w] EXCEPT !.pc = pc]]
<1>1. [local[w] EXCEPT !.pc = pc] \in Local /\ [local[w] EXCEPT !.pc = pc].pc = pc
  BY DEF FormInv, TypeOK, Local
<1>2. local' = [local EXCEPT ![w] = [local[w] EXCEPT !.pc = pc]]
  BY DEF Goes, FormInv, TypeOK, Local
<1>3. QED  BY <1>1, <1>2

LEMMA HandlerGoes ==
  ASSUME FormInv, NEW w \in Worker, NEW pc \in {"rules", "send", "end"},
         Fits([local[w] EXCEPT !.pc = pc], run[w].job), Goes(w, pc), run' = run
  PROVE  local' \in [Worker -> Local] /\ \A v \in Worker : Fits(local'[v], run'[v].job)
<1> DEFINE new == [local[w] EXCEPT !.pc = pc]
<1>1. new \in Local /\ local' = [local EXCEPT ![w] = new]
  BY GoesTo
<1> HIDE DEF new
<1>2. Fits(new, run[w].job)
  BY DEF new
<1>3. QED  BY <1>1, <1>2, HandlerMoves

LEMMA HandlerLeaves ==
  ASSUME FormInv, NEW w \in Worker, Resets(w), Leaves(w)
  PROVE  /\ local' \in [Worker -> Local] /\ \A v \in Worker : Fits(local'[v], run'[v].job)
         /\ run' \in [Worker -> Run]
  BY StartFits, RowsTyped DEF FormInv, TypeOK, QueueTypeOK, JobsFit, Resets, Leaves

LEMMA SettlesTyped ==
  ASSUME FormInv, NEW w \in Worker, NEW verdict \in {"retrying", "success", "failed"},
         run[w].job \in Delivery, SettlesAs(w, verdict), run' = run
  PROVE  local' \in [Worker -> Local] /\ \A v \in Worker : Fits(local'[v], run'[v].job)
<1>1. [Start EXCEPT !.pc = "settle", !.verdict = verdict] \in Local
  BY DEF Start, Local
<1>2. Fits([Start EXCEPT !.pc = "settle", !.verdict = verdict], run[w].job)
  BY DEF Start, Fits
<1>3. QED  BY <1>1, <1>2, HandlerMoves DEF SettlesAs

LEMMA FormKept ==
  ASSUME FormInv, [Next]_vars
  PROVE  FormInv'
<1>1. ASSUME NEW e \in Event, NEW i \in Issue, NEW kind \in {"new_issue", "regression", "plain"},
             Store(e, i, kind)
      PROVE  FormInv'
  <2>1. [stage |-> "stored", issue |-> i, kind |-> kind, job |-> None] \in EventRow
    BY DEF EventRow, Trigger
  <2>2. QED  BY <1>1, <2>1
                DEF Store, FormInv, TypeOK, QueueTypeOK, JobsFit, queue, rules, alerts
<1>2. ASSUME NEW e \in Event,
             Dispatch(e)
      PROVE  FormInv'
  BY <1>2, AnswersTyped, EnqueuedTyped
     DEF Dispatch, FormInv, TypeOK, QueueTypeOK, JobsFit, rules, alerts
<1>3. ASSUME NEW e \in Event,
             DispatchToWindow(e)
      PROVE  FormInv'
  <2>1. event' \in [Event -> EventRow]
    BY <1>3, AnswersTyped DEF DispatchToWindow, FormInv, TypeOK
  <2>2. JobsFit(job') /\ held' \subseteq Event
    BY <1>3, EnqueuedTyped DEF DispatchToWindow, FormInv, TypeOK, QueueTypeOK, JobsFit
  <2>3. QED  BY <1>3, <2>1, <2>2
             DEF DispatchToWindow, FormInv, TypeOK, QueueTypeOK, JobsFit, rules, alerts
<1>4. ASSUME NEW e \in Event,
             DispatchNothing(e)
      PROVE  FormInv'
  BY <1>4, AnswersTyped
     DEF DispatchNothing, FormInv, TypeOK, QueueTypeOK, JobsFit, queue, rules, alerts
<1>5. ASSUME NEW e \in Event,
             DispatchLost(e)
      PROVE  FormInv'
  <2>1. event' \in [Event -> EventRow]
    BY <1>5 DEF DispatchLost, FormInv, TypeOK, EventRow
  <2>2. faults' \in 0..MaxFaults
    BY <1>5, ServiceJobsAssumption
       DEF DispatchLost, Fault, FormInv, TypeOK, QueueTypeOK, JobsFit
  <2>3. QED  BY <1>5, <2>1, <2>2
                DEF DispatchLost, FormInv, TypeOK, QueueTypeOK, JobsFit, rules, alerts
<1>6. ASSUME NEW e \in Event,
             WindowEnds(e)
      PROVE  FormInv'
  BY <1>6
     DEF FormInv, TypeOK, QueueTypeOK, JobsFit, RuleRow, WindowEnds, queue, rules,
         alerts
<1>7. ASSUME NEW e \in Event,
             EventAges(e)
      PROVE  FormInv'
  BY <1>7
     DEF FormInv, TypeOK, QueueTypeOK, JobsFit, RuleRow, EventAges, queue, rules,
         alerts
<1>8. ASSUME NEW r \in Rule, NEW on \in TriggerSets,
             CreateRule(r, on)
      PROVE  FormInv'
  BY <1>8, AlertingAssumption
     DEF FormInv, TypeOK, QueueTypeOK, JobsFit, RuleRow, CreateRule, queue, ingest,
         alerts
<1>9. ASSUME NEW r \in Rule, NEW state \in {"on", "off"}, NEW on \in TriggerSets,
             UpdateRule(r, state, on)
      PROVE  FormInv'
  BY <1>9, AlertingAssumption
     DEF FormInv, TypeOK, QueueTypeOK, JobsFit, RuleRow, UpdateRule, Turn, queue,
         ingest, alerts
<1>10. ASSUME NEW r \in Rule,
             ClearCooldowns(r)
      PROVE  FormInv'
  BY <1>10
     DEF FormInv, TypeOK, QueueTypeOK, JobsFit, RuleRow, ClearCooldowns, queue, ingest
<1>11. ASSUME NEW r \in Rule,
             DeleteRule(r)
      PROVE  FormInv'
  BY <1>11, AlertingAssumption
     DEF FormInv, TypeOK, QueueTypeOK, JobsFit, RuleRow, DeleteRule, Turn, queue,
         ingest, alerts
<1>12. ASSUME NEW c \in Rule \X Issue,
             CooldownEnds(c)
      PROVE  FormInv'
  BY <1>12, AlertingAssumption
     DEF FormInv, TypeOK, QueueTypeOK, JobsFit, RuleRow, CooldownEnds, Turn, queue,
         ingest
<1>13. ASSUME NEW w \in Worker,
             ReadRules(w)
      PROVE  FormInv'
  <2> DEFINE new == [Start EXCEPT !.pc = "rules",
                                  !.todo = {r \in Rule : rule[r].state = "on"},
                                  !.on = [r \in Rule |-> rule[r].on],
                                  !.cold = {r \in Rule : cooldown[<<r, IssueOf(w)>>] = "cool"}]
  <2>1. new \in Local
    BY DEF Start, Local, FormInv, TypeOK, RuleRow
  <2>2. Fits(new, run[w].job)
    BY <1>13 DEF ReadRules, At, Fits, Start
  <2>3. local' \in [Worker -> Local] /\ \A v \in Worker : Fits(local'[v], run'[v].job)
    BY <1>13, <2>1, <2>2, HandlerMoves DEF ReadRules, queue
  <2>4. QED  BY <1>13, <2>3
                DEF ReadRules, FormInv, TypeOK, QueueTypeOK, JobsFit, queue, ingest,
                    rules, alerts
<1>14. ASSUME NEW w \in Worker, NEW r \in Rule,
             Evaluate(w, r)
      PROVE  FormInv'
  <2> DEFINE new == [local[w] EXCEPT !.todo = local[w].todo \ {r},
                                     !.pc = IF Matches(w, r) THEN "claim" ELSE "rules",
                                     !.rule = IF Matches(w, r) THEN r ELSE None]
  <2>1. new \in Local
    <3>1. local[w] \in Local
      BY DEF FormInv, TypeOK
    <3>2. QED  BY <3>1 DEF Local
  <2>2. Fits(new, run[w].job)
    <3>1. run[w].job \in Event
      BY <1>14 DEF Evaluate, At
    <3>2. new.pc \in {"claim", "rules"} /\ (new.pc = "claim" => new.rule \in Rule)
      BY DEF FormInv, TypeOK, Local
    <3>3. QED  BY <3>1, <3>2 DEF Fits
  <2>3. local' = [local EXCEPT ![w] = new]
    BY <1>14 DEF Evaluate, FormInv, TypeOK, Local
  <2>4. local' \in [Worker -> Local] /\ \A v \in Worker : Fits(local'[v], run'[v].job)
    BY <1>14, <2>1, <2>2, <2>3, HandlerMoves DEF Evaluate, queue
  <2>5. QED  BY <1>14, <2>4
                DEF Evaluate, FormInv, TypeOK, QueueTypeOK, JobsFit, queue, ingest,
                    rules, alerts
<1>15. ASSUME NEW w \in Worker,
             QueueAlert(w)
      PROVE  FormInv'
  <2> DEFINE c == <<local[w].rule, IssueOf(w)>>
  <2>1. c[1] \in Rule /\ c[2] \in Issue \union {None} /\ run[w].job \in Event
    BY <1>15 DEF QueueAlert, At, IssueOf, Fits, FormInv, TypeOK, EventRow
  <2>2. CASE Goes(w, "rules") /\ UNCHANGED <<job, alerts>>
    <3>1. Fits([local[w] EXCEPT !.pc = "rules"], run[w].job)
      BY <2>1 DEF Fits, FormInv, TypeOK, Local
    <3>2. QED  BY <1>15, <2>2, <3>1, HandlerGoes
               DEF QueueAlert, FormInv, TypeOK, QueueTypeOK, JobsFit, ingest, rules,
                   alerts
  <2>3. ASSUME NEW d \in Delivery,
               delivery' = [delivery EXCEPT ![d] =
                 [status |-> "pending", rule |-> c[1], issue |-> c[2], event |-> run[w].job]],
               job' = Enqueued({d}),
               cooldown' = [cooldown EXCEPT ![c] = "hot"],
               queued' = [queued EXCEPT ![c] = queued[c] + 1],
               Forget(w, c)
        PROVE  FormInv'
    <3> HIDE DEF c
    <3>1. [status |-> "pending", rule |-> c[1], issue |-> c[2], event |-> run[w].job] \in DeliveryRow
      BY <2>1 DEF DeliveryRow
    <3>2. delivery' \in [Delivery -> DeliveryRow]
      BY <2>3, <3>1 DEF FormInv, TypeOK
    <3>3. JobsFit(job')
      BY <2>3, EnqueuedTyped
    <3>4. [local[w] EXCEPT !.pc = "rules", !.rule = None] \in Local
      BY DEF FormInv, TypeOK, Local
    <3>5. Fits([local[w] EXCEPT !.pc = "rules", !.rule = None], run[w].job)
      BY <2>1 DEF Fits, FormInv, TypeOK, Local
    <3>6. \A v \in Worker : /\ [local[v] EXCEPT !.cold = local[v].cold \ {c[1]}] \in Local
                            /\ Fits([local[v] EXCEPT !.cold = local[v].cold \ {c[1]}], run[v].job)
      <4> TAKE v \in Worker
      <4>1. local[v] \in Local /\ Fits(local[v], run[v].job)
        BY DEF FormInv, TypeOK
      <4>2. [local[v] EXCEPT !.cold = local[v].cold \ {c[1]}] \in Local
        BY <4>1 DEF Local
      <4>3. QED  BY <4>1, <4>2 DEF Fits, Local
    <3>7. local' \in [Worker -> Local] /\ \A v \in Worker : Fits(local'[v], run[v].job)
      BY <2>3, <3>4, <3>5, <3>6 DEF Forget, FormInv, TypeOK
    <3>8. cooldown' \in [Rule \X Issue -> {"none", "hot", "cool"}] /\ queued' \in [Rule \X Issue -> Nat]
      <4>1. c \in Rule \X Issue => queued[c] + 1 \in Nat
        BY DEF FormInv, TypeOK
      <4>2. QED  BY <2>3, <4>1 DEF FormInv, TypeOK
    <3>9. QED  BY <1>15, <3>2, <3>3, <3>7, <3>8
               DEF QueueAlert, FormInv, TypeOK, QueueTypeOK, JobsFit, ingest, rules
  <2>4. QED  BY <1>15, <2>2, <2>3 DEF QueueAlert
<1>16. ASSUME NEW w \in Worker,
             RulesDone(w)
      PROVE  FormInv'
  <2>1. Fits([local[w] EXCEPT !.pc = "end"], run[w].job)
    BY <1>16, AlertingAssumption DEF RulesDone, At, Fits, FormInv, TypeOK, Local
  <2>2. QED  BY <1>16, <2>1, HandlerGoes
             DEF RulesDone, FormInv, TypeOK, QueueTypeOK, JobsFit, queue, ingest,
                 rules, alerts
<1>17. ASSUME NEW w \in Worker,
             ReadDelivery(w)
      PROVE  FormInv'
  <2>1. run[w].job \in Delivery
    BY <1>17 DEF ReadDelivery, At
  <2>2. CASE Goes(w, "end") \/ Goes(w, "send")
    <3>1. \A pc \in {"send", "end"} : Fits([local[w] EXCEPT !.pc = pc], run[w].job)
      BY <2>1, AlertingAssumption DEF Fits, FormInv, TypeOK, Local
    <3>2. QED  BY <1>17, <2>2, <3>1, HandlerGoes
               DEF ReadDelivery, FormInv, TypeOK, QueueTypeOK, JobsFit, queue, ingest,
                   rules, alerts
  <2>3. CASE SettlesAs(w, "failed")
    BY <1>17, <2>1, <2>3, SettlesTyped
       DEF ReadDelivery, FormInv, TypeOK, QueueTypeOK, JobsFit, queue, ingest, rules,
           alerts
  <2>4. QED  BY <1>17, <2>2, <2>3 DEF ReadDelivery
<1>18. ASSUME NEW w \in Worker, NEW outcome \in {"sent", "refused", "transient"},
             Send(w, outcome)
      PROVE  FormInv'
  <2>1. Verdict(w, outcome) \in {"retrying", "success", "failed"}
    BY DEF Verdict
  <2>2. run[w].job \in Delivery
    BY <1>18 DEF Send, At
  <2>3. QED  BY <1>18, <2>1, <2>2, SettlesTyped
             DEF Send, FormInv, TypeOK, QueueTypeOK, JobsFit, queue, ingest, rules,
                 alerts
<1>19. ASSUME NEW w \in Worker,
             Settle(w)
      PROVE  FormInv'
  <2>1. run[w].job \in Delivery /\ local[w].verdict \in {"retrying", "success", "failed"}
    BY <1>19 DEF Settle, At, Fits, FormInv, TypeOK, Local
  <2>2. delivery' \in [Delivery -> DeliveryRow]
    <3>1. ASSUME NEW x \in DeliveryRow, NEW status \in {"retrying", "success", "failed"}
          PROVE  [x EXCEPT !.status = status] \in DeliveryRow
      BY DEF DeliveryRow
    <3>2. delivery' = [delivery EXCEPT ![run[w].job] =
                         [delivery[run[w].job] EXCEPT !.status = local[w].verdict]]
      BY <1>19, <2>1 DEF Settle, FormInv, TypeOK, DeliveryRow
    <3>3. QED  BY <2>1, <3>1, <3>2 DEF FormInv, TypeOK
  <2>3. Fits([local[w] EXCEPT !.pc = "end"], run[w].job)
    BY <2>1, AlertingAssumption DEF Fits, FormInv, TypeOK, Local
  <2>4. QED  BY <1>19, <2>2, <2>3, HandlerGoes
             DEF Settle, FormInv, TypeOK, QueueTypeOK, JobsFit, queue, ingest, rules
<1>20. ASSUME NEW w \in Worker,
             End(w)
      PROVE  FormInv'
  <2>1. JobsFit(job')
    BY <1>20, FailedTyped, SettledTyped
       DEF End, Returns, Throws, JobState, FormInv, TypeOK, QueueTypeOK, JobsFit
  <2>2. QED  BY <1>20, <2>1, HandlerLeaves
             DEF End, Returns, Throws, Outside, FormInv, TypeOK, QueueTypeOK, JobsFit,
                 ingest, rules, alerts
<1>21. ASSUME NEW w \in Worker,
             Break(w)
      PROVE  FormInv'
  <2>1. JobsFit(job')
    BY <1>21, FailedTyped DEF Break, Breaks, FormInv, TypeOK, QueueTypeOK, JobsFit
  <2>2. faults' \in 0..MaxFaults
    BY <1>21, ServiceJobsAssumption
       DEF Break, Breaks, Fault, FormInv, TypeOK, QueueTypeOK, JobsFit
  <2>3. QED  BY <1>21, <2>1, <2>2, HandlerLeaves
             DEF Break, Breaks, Outside, FormInv, TypeOK, QueueTypeOK, JobsFit,
                 ingest, rules, alerts
<1>22. ASSUME NEW w \in Worker,
             Die(w)
      PROVE  FormInv'
  <2>1. faults' \in 0..MaxFaults
    BY <1>22, ServiceJobsAssumption
       DEF Die, Dies, Fault, FormInv, TypeOK, QueueTypeOK, JobsFit
  <2>2. QED  BY <1>22, <2>1, HandlerLeaves
             DEF Die, Dies, Outside, FormInv, TypeOK, QueueTypeOK, JobsFit, ingest,
                 rules, alerts
<1>23. ASSUME NEW w \in Worker,
             Overrun(w)
      PROVE  FormInv'
  <2>1. JobsFit(job')
    BY <1>23, FailedTyped DEF Overrun, Overruns
  <2>2. faults' \in 0..MaxFaults
    BY <1>23, ServiceJobsAssumption
       DEF Overrun, Overruns, Fault, FormInv, TypeOK, QueueTypeOK, JobsFit
  <2>3. run' \in [Worker -> Run] /\ \A v \in Worker : run'[v].job = run[v].job
    BY <1>23 DEF Overrun, Overruns, FormInv, TypeOK, QueueTypeOK, JobsFit, Run
  <2>4. overran' \subseteq Job
    BY <1>23 DEF Overrun, Overruns, FormInv, TypeOK, QueueTypeOK, JobsFit, Run
  <2>5. QED  BY <1>23, <2>1, <2>2, <2>3, <2>4
             DEF Overrun, Outside, FormInv, TypeOK, QueueTypeOK, JobsFit, ingest,
                 rules, alerts
<1>24. ASSUME NEW w \in Worker, NEW j \in Job,
             Begin(w, j)
      PROVE  FormInv'
  <2>1. job[j].tries + 1 \in 0..MaxAttempts
    BY <1>24, ServiceJobsAssumption
       DEF Begin, Claim, FormInv, TypeOK, QueueTypeOK, JobsFit, JobRow, JobsFit
  <2>2. JobsFit(job') /\ run' \in [Worker -> Run]
    <3>1. JobsFit(job')
      BY <1>24, <2>1 DEF Begin, Claim, FormInv, JobsFit, JobRow, JobState
    <3>2. [job |-> j, attempt |-> job[j].tries + 1, late |-> FALSE] \in Run
      BY <2>1 DEF Run
    <3>3. run' \in [Worker -> Run]
      BY <1>24, <3>2 DEF Begin, Claim, FormInv, TypeOK, QueueTypeOK
    <3>4. QED  BY <3>1, <3>3
  <2>3. local[w].pc = "start"
    <3>1. run[w].job = None /\ None \notin Job /\ None \notin Event /\ None \notin Delivery
      BY <1>24, ServiceJobsAssumption, AlertingAssumption DEF Begin, Claim, NoRun
    <3>2. local[w] \in Local /\ Fits(local[w], run[w].job)
      BY DEF FormInv, TypeOK
    <3>3. QED  BY <3>1, <3>2 DEF Fits, Local
  <2>4. \A v \in Worker \ {w} : run'[v] = run[v]
    BY <1>24 DEF Begin, Claim, FormInv, TypeOK, QueueTypeOK
  <2>5. \A v \in Worker : Fits(local'[v], run'[v].job)
    BY <1>24, <2>3, <2>4 DEF Begin, FormInv, Fits
  <2>6. QED  BY <1>24, <2>2, <2>5
             DEF Begin, Claim, Outside, FormInv, TypeOK, QueueTypeOK, JobsFit, ingest,
                 rules, alerts
<1>25. ASSUME NEW j \in Job, UNCHANGED <<Outside, local, overran>>,
             Swept(j)
      PROVE  FormInv'
  BY <1>25, FailedTyped
     DEF Swept, Outside, FormInv, TypeOK, QueueTypeOK, JobsFit, ingest, rules, alerts
<1>26. ASSUME NEW j \in Job, UNCHANGED <<Outside, local, overran>>,
             Requeued(j)
      PROVE  FormInv'
  <2>1. JobsFit(job')
    BY <1>26, RowsTyped, ServiceJobsAssumption DEF Requeued, FormInv, JobsFit, NewRow
  <2>2. QED  BY <1>26, <2>1
                DEF Requeued, Outside, FormInv, TypeOK, QueueTypeOK, JobsFit, ingest,
                    rules, alerts
<1>27. CASE UNCHANGED vars
  BY <1>27
     DEF FormInv, TypeOK, QueueTypeOK, JobsFit, RuleRow, vars, queue, ingest, rules,
         alerts
<1>28. QED
  BY <1>1, <1>2, <1>3, <1>4, <1>5, <1>6, <1>7, <1>8, <1>9, <1>10, <1>11, <1>12, <1>13,
     <1>14, <1>15, <1>16, <1>17, <1>18, <1>19, <1>20, <1>21, <1>22, <1>23, <1>24, <1>25,
     <1>26, <1>27
     DEF Next, IngestStep, RuleStep, HandlerStep, QueueStep

-----------------------------------------------------------------------------
(* The runs of a job.                                                      *)

LEMMA EnqueuedRuns ==
  ASSUME FormInv, OneRunPerJob, NEW J, job' = Enqueued(J), run' = run, overran' = overran
  PROVE  OneRunPerJob'
<1>1. \A j \in Job : job[j].state = "active" => job'[j].state = "active"
  BY DEF Enqueued, Live
<1>2. \A w \in Worker : run[w].job # None => run[w].job \in Job
  BY DEF FormInv, TypeOK, QueueTypeOK, Run
<1>3. QED  BY <1>1, <1>2 DEF OneRunPerJob

LEMMA LeavingRuns ==
  ASSUME FormInv, OneRunPerJob, NEW w \in Worker, Leaves(w), overran' = overran,
         \A j \in Job : job'[j] = job[j] \/ (j = run[w].job /\ ~run[w].late)
  PROVE  OneRunPerJob'
<1>1. run'[w] = NoRun /\ \A v \in Worker \ {w} : run'[v] = run[v]
  BY DEF Leaves, FormInv, TypeOK, QueueTypeOK
<1>2. \A v \in Worker : run[v].job # None => run[v].job \in Job
  BY DEF FormInv, TypeOK, QueueTypeOK, Run
<1>3. QED  BY <1>1, <1>2 DEF OneRunPerJob, NoRun

LEMMA FailedChanges ==
  ASSUME FormInv, NEW j, Failed(j)
  PROVE  \A i \in Job \ {j} : job'[i] = job[i]
  BY DEF Failed, Settled, FormInv, JobsFit

LEMMA RunsKept ==
  ASSUME FormInv, OneRunPerJob, [Next]_vars
  PROVE  OneRunPerJob'
<1>1. ASSUME NEW e \in Event, NEW i \in Issue, NEW kind \in {"new_issue", "regression", "plain"},
             Store(e, i, kind)
      PROVE  OneRunPerJob'
  BY <1>1 DEF OneRunPerJob, Store, queue
<1>2. ASSUME NEW e \in Event,
             Dispatch(e)
      PROVE  OneRunPerJob'
  BY <1>2, EnqueuedRuns DEF Dispatch
<1>3. ASSUME NEW e \in Event,
             DispatchToWindow(e)
      PROVE  OneRunPerJob'
  <2>1. CASE job' = Enqueued({e})
    BY <1>3, <2>1, EnqueuedRuns DEF DispatchToWindow
  <2>2. CASE UNCHANGED job
    BY <1>3, <2>2 DEF DispatchToWindow, OneRunPerJob
  <2>3. QED  BY <1>3, <2>1, <2>2 DEF DispatchToWindow
<1>4. ASSUME NEW e \in Event,
             DispatchNothing(e)
      PROVE  OneRunPerJob'
  BY <1>4 DEF OneRunPerJob, DispatchNothing, Answers, queue
<1>5. ASSUME NEW e \in Event,
             DispatchLost(e)
      PROVE  OneRunPerJob'
  BY <1>5 DEF OneRunPerJob, DispatchLost, Fault, queue
<1>6. ASSUME NEW e \in Event,
             WindowEnds(e)
      PROVE  OneRunPerJob'
  BY <1>6 DEF OneRunPerJob, WindowEnds, queue
<1>7. ASSUME NEW e \in Event,
             EventAges(e)
      PROVE  OneRunPerJob'
  BY <1>7 DEF OneRunPerJob, EventAges, queue
<1>8. ASSUME NEW r \in Rule, NEW on \in TriggerSets,
             CreateRule(r, on)
      PROVE  OneRunPerJob'
  BY <1>8 DEF OneRunPerJob, CreateRule, queue
<1>9. ASSUME NEW r \in Rule, NEW state \in {"on", "off"}, NEW on \in TriggerSets,
             UpdateRule(r, state, on)
      PROVE  OneRunPerJob'
  BY <1>9 DEF OneRunPerJob, UpdateRule, Turn, queue
<1>10. ASSUME NEW r \in Rule,
             ClearCooldowns(r)
      PROVE  OneRunPerJob'
  BY <1>10 DEF OneRunPerJob, ClearCooldowns, queue
<1>11. ASSUME NEW r \in Rule,
             DeleteRule(r)
      PROVE  OneRunPerJob'
  BY <1>11 DEF OneRunPerJob, DeleteRule, Turn, queue
<1>12. ASSUME NEW c \in Rule \X Issue,
             CooldownEnds(c)
      PROVE  OneRunPerJob'
  BY <1>12 DEF OneRunPerJob, CooldownEnds, Turn, queue
<1>13. ASSUME NEW w \in Worker,
             ReadRules(w)
      PROVE  OneRunPerJob'
  BY <1>13 DEF OneRunPerJob, ReadRules, At, queue
<1>14. ASSUME NEW w \in Worker, NEW r \in Rule,
             Evaluate(w, r)
      PROVE  OneRunPerJob'
  BY <1>14 DEF OneRunPerJob, Evaluate, At, queue
<1>15. ASSUME NEW w \in Worker,
             QueueAlert(w)
      PROVE  OneRunPerJob'
  <2>1. CASE \E d \in Delivery : job' = Enqueued({d})
    BY <1>15, <2>1, EnqueuedRuns DEF QueueAlert
  <2>2. CASE UNCHANGED job
    BY <1>15, <2>2 DEF QueueAlert, OneRunPerJob
  <2>3. QED  BY <1>15, <2>1, <2>2 DEF QueueAlert
<1>16. ASSUME NEW w \in Worker,
             RulesDone(w)
      PROVE  OneRunPerJob'
  BY <1>16 DEF OneRunPerJob, RulesDone, At, Goes, queue
<1>17. ASSUME NEW w \in Worker,
             ReadDelivery(w)
      PROVE  OneRunPerJob'
  BY <1>17 DEF OneRunPerJob, ReadDelivery, At, Goes, SettlesAs, queue
<1>18. ASSUME NEW w \in Worker, NEW outcome \in {"sent", "refused", "transient"},
             Send(w, outcome)
      PROVE  OneRunPerJob'
  BY <1>18 DEF OneRunPerJob, Send, At, SettlesAs, Verdict, queue
<1>19. ASSUME NEW w \in Worker,
             Settle(w)
      PROVE  OneRunPerJob'
  BY <1>19 DEF OneRunPerJob, Settle, At, Goes, queue
<1>20. ASSUME NEW w \in Worker,
             End(w)
      PROVE  OneRunPerJob'
  <2>1. \A j \in Job : job'[j] = job[j] \/ (j = run[w].job /\ ~run[w].late)
    BY <1>20, FailedChanges DEF End, Returns, Throws, Settled, FormInv, JobsFit
  <2>2. QED  BY <1>20, <2>1, LeavingRuns DEF End, Returns, Throws
<1>21. ASSUME NEW w \in Worker,
             Break(w)
      PROVE  OneRunPerJob'
  <2>1. \A j \in Job : job'[j] = job[j] \/ (j = run[w].job /\ ~run[w].late)
    BY <1>21, FailedChanges DEF Break, Breaks
  <2>2. QED  BY <1>21, <2>1, LeavingRuns DEF Break, Breaks
<1>22. ASSUME NEW w \in Worker,
             Die(w)
      PROVE  OneRunPerJob'
  BY <1>22, LeavingRuns DEF Die, Dies
<1>23. ASSUME NEW w \in Worker,
             Overrun(w)
      PROVE  OneRunPerJob'
  <2>1. run'[w].late /\ run'[w].job = run[w].job /\ \A v \in Worker \ {w} : run'[v] = run[v]
    BY <1>23 DEF Overrun, Overruns, FormInv, TypeOK, QueueTypeOK, Run
  <2>2. \A j \in Job \ {run[w].job} : job'[j] = job[j]
    BY <1>23, FailedChanges DEF Overrun, Overruns
  <2>3. \A v \in Worker : run[v].job # None => run[v].job \in Job
    BY DEF FormInv, TypeOK, QueueTypeOK, Run
  <2>4. overran' = overran \union {run[w].job}
    BY <1>23 DEF Overrun
  <2>5. ~run[w].late /\ run[w].job # None
    BY <1>23 DEF Overrun, Overruns
  <2>6. QED  BY <2>1, <2>2, <2>3, <2>4, <2>5 DEF OneRunPerJob
<1>24. ASSUME NEW w \in Worker, NEW j \in Job,
             Begin(w, j)
      PROVE  OneRunPerJob'
  <2>1. run'[w].job = j /\ ~run'[w].late /\ \A v \in Worker \ {w} : run'[v] = run[v]
    BY <1>24 DEF Begin, Claim, FormInv, TypeOK, QueueTypeOK
  <2>2. job'[j].state = "active" /\ \A i \in Job \ {j} : job'[i] = job[i]
    BY <1>24 DEF Begin, Claim, FormInv, JobsFit
  <2>3. \A v \in Worker : run[v].job # None => run[v].job \in Job
    BY DEF FormInv, TypeOK, QueueTypeOK, Run
  <2>4. \A v \in Worker : run[v].job = j => run[v].late
    BY <1>24, ServiceJobsAssumption DEF Begin, Claim, OneRunPerJob
  <2>5. overran' = overran
    BY <1>24 DEF Begin
  <2>6. QED  BY <2>1, <2>2, <2>3, <2>4, <2>5 DEF OneRunPerJob
<1>25. ASSUME NEW j \in Job, UNCHANGED <<Outside, local, overran>>,
             Swept(j)
      PROVE  OneRunPerJob'
  <2>1. \A i \in Job \ {j} : job'[i] = job[i]
    BY <1>25, FailedChanges DEF Swept
  <2>2. \A v \in Worker : run[v].job # None => run[v].job \in Job
    BY DEF FormInv, TypeOK, QueueTypeOK, Run
  <2>3. QED  BY <1>25, <2>1, <2>2 DEF Swept, Runs, OneRunPerJob
<1>26. ASSUME NEW j \in Job, UNCHANGED <<Outside, local, overran>>,
             Requeued(j)
      PROVE  OneRunPerJob'
  <2>1. \A i \in Job \ {j} : job'[i] = job[i]
    BY <1>26 DEF Requeued, FormInv, JobsFit
  <2>2. \A v \in Worker : run[v].job # None => run[v].job \in Job
    BY DEF FormInv, TypeOK, QueueTypeOK, Run
  <2>3. QED  BY <1>26, <2>1, <2>2 DEF Requeued, OneRunPerJob
<1>27. CASE UNCHANGED vars
  BY <1>27 DEF OneRunPerJob, vars, queue
<1>28. QED
  BY <1>1, <1>2, <1>3, <1>4, <1>5, <1>6, <1>7, <1>8, <1>9, <1>10, <1>11, <1>12, <1>13,
     <1>14, <1>15, <1>16, <1>17, <1>18, <1>19, <1>20, <1>21, <1>22, <1>23, <1>24, <1>25,
     <1>26, <1>27
     DEF Next, IngestStep, RuleStep, HandlerStep, QueueStep

-----------------------------------------------------------------------------
(* Jobs appear with what they are for.                                     *)

LEMMA AbsentStays ==
  ASSUME FormInv, JobsAppear, UNCHANGED <<event, delivery>>,
         \A j \in Job : job[j].state = "absent" => job'[j] = job[j]
  PROVE  JobsAppear'
  BY AlertingAssumption DEF JobsAppear

LEMMA AlertQueued ==
  ASSUME NEW w \in Worker, QueueAlert(w)
  PROVE  (\E d \in Delivery : Queues(w, d)) \/ UNCHANGED <<job, alerts>>
  BY DEF QueueAlert, Queues

LEMMA EnqueuedOthers ==
  ASSUME FormInv, NEW j, job' = Enqueued({j})
  PROVE  \A i \in Job \ {j} : job'[i] = job[i]
  BY DEF Enqueued, FormInv, JobsFit

LEMMA AppearKept ==
  ASSUME FormInv, OneRunPerJob, JobsAppear, [Next]_vars
  PROVE  JobsAppear'
<1>1. ASSUME NEW e \in Event, NEW i \in Issue, NEW kind \in {"new_issue", "regression", "plain"},
             Store(e, i, kind)
      PROVE  JobsAppear'
  BY <1>1 DEF JobsAppear, FormInv, TypeOK, Store, queue, rules, alerts
<1>2. ASSUME NEW e \in Event,
             Dispatch(e)
      PROVE  JobsAppear'
  <2>1. event'[e].stage = "answered" /\ \A f \in Event \ {e} : event'[f] = event[f]
    BY <1>2 DEF Dispatch, Answers, FormInv, TypeOK, EventRow
  <2>2. \A i \in Job \ {e} : job'[i] = job[i]
    BY <1>2, EnqueuedOthers DEF Dispatch
  <2>3. e \notin Delivery /\ Event \subseteq Job /\ Delivery \subseteq Job
    BY AlertingAssumption
  <2>4. delivery' = delivery
    BY <1>2 DEF Dispatch, alerts
  <2>5. QED  BY <2>1, <2>2, <2>3, <2>4 DEF JobsAppear
<1>3. ASSUME NEW e \in Event,
             DispatchToWindow(e)
      PROVE  JobsAppear'
  <2>1. event'[e].stage = "answered" /\ \A f \in Event \ {e} : event'[f] = event[f]
    BY <1>3 DEF DispatchToWindow, Answers, FormInv, TypeOK, EventRow
  <2>2. \A i \in Job \ {e} : job'[i] = job[i]
    BY <1>3, EnqueuedOthers DEF DispatchToWindow
  <2>3. e \notin Delivery /\ Event \subseteq Job /\ Delivery \subseteq Job
    BY AlertingAssumption
  <2>4. delivery' = delivery
    BY <1>3 DEF DispatchToWindow, alerts
  <2>5. QED  BY <2>1, <2>2, <2>3, <2>4 DEF JobsAppear
<1>4. ASSUME NEW e \in Event,
             DispatchNothing(e)
      PROVE  JobsAppear'
  BY <1>4 DEF JobsAppear, FormInv, TypeOK, DispatchNothing, Answers, queue, alerts
<1>5. ASSUME NEW e \in Event,
             DispatchLost(e)
      PROVE  JobsAppear'
  BY <1>5 DEF JobsAppear, FormInv, TypeOK, DispatchLost, Fault, rules, alerts
<1>6. ASSUME NEW e \in Event,
             WindowEnds(e)
      PROVE  JobsAppear'
  BY <1>6 DEF JobsAppear, FormInv, TypeOK, WindowEnds, queue, rules, alerts
<1>7. ASSUME NEW e \in Event,
             EventAges(e)
      PROVE  JobsAppear'
  BY <1>7 DEF JobsAppear, FormInv, TypeOK, EventAges, queue, rules, alerts
<1>8. ASSUME NEW r \in Rule, NEW on \in TriggerSets,
             CreateRule(r, on)
      PROVE  JobsAppear'
  BY <1>8 DEF JobsAppear, FormInv, TypeOK, CreateRule, queue, ingest, alerts
<1>9. ASSUME NEW r \in Rule, NEW state \in {"on", "off"}, NEW on \in TriggerSets,
             UpdateRule(r, state, on)
      PROVE  JobsAppear'
  BY <1>9 DEF JobsAppear, FormInv, TypeOK, UpdateRule, Turn, queue, ingest, alerts
<1>10. ASSUME NEW r \in Rule,
             ClearCooldowns(r)
      PROVE  JobsAppear'
  BY <1>10 DEF JobsAppear, FormInv, TypeOK, ClearCooldowns, queue, ingest
<1>11. ASSUME NEW r \in Rule,
             DeleteRule(r)
      PROVE  JobsAppear'
  BY <1>11 DEF JobsAppear, FormInv, TypeOK, DeleteRule, Turn, queue, ingest, alerts
<1>12. ASSUME NEW c \in Rule \X Issue,
             CooldownEnds(c)
      PROVE  JobsAppear'
  BY <1>12 DEF JobsAppear, FormInv, TypeOK, CooldownEnds, Turn, queue, ingest
<1>13. ASSUME NEW w \in Worker,
             ReadRules(w)
      PROVE  JobsAppear'
  BY <1>13 DEF JobsAppear, FormInv, TypeOK, ReadRules, At, queue, ingest, alerts
<1>14. ASSUME NEW w \in Worker, NEW r \in Rule,
             Evaluate(w, r)
      PROVE  JobsAppear'
  BY <1>14 DEF JobsAppear, FormInv, TypeOK, Evaluate, At, queue, ingest, alerts
<1>15. ASSUME NEW w \in Worker,
             QueueAlert(w)
      PROVE  JobsAppear'
  <2>1. CASE UNCHANGED <<job, alerts>>
    BY <1>15, <2>1, AbsentStays DEF QueueAlert, ingest, alerts
  <2>2. ASSUME NEW d \in Delivery, Queues(w, d)
        PROVE  JobsAppear'
    <3>1. delivery'[d].status = "pending" /\ \A f \in Delivery \ {d} : delivery'[f] = delivery[f]
      BY <2>2 DEF Queues, FormInv, TypeOK
    <3>2. \A i \in Job \ {d} : job'[i] = job[i]
      BY <2>2, EnqueuedOthers DEF Queues
    <3>3. d \notin Event /\ Event \subseteq Job /\ Delivery \subseteq Job
      BY AlertingAssumption
    <3>4. event' = event
      BY <1>15 DEF QueueAlert, ingest
    <3>5. QED  BY <3>1, <3>2, <3>3, <3>4 DEF JobsAppear
  <2>3. QED  BY <1>15, <2>1, <2>2, AlertQueued
<1>16. ASSUME NEW w \in Worker,
             RulesDone(w)
      PROVE  JobsAppear'
  BY <1>16 DEF JobsAppear, FormInv, TypeOK, RulesDone, At, Goes, queue, ingest, alerts
<1>17. ASSUME NEW w \in Worker,
             ReadDelivery(w)
      PROVE  JobsAppear'
  BY <1>17
     DEF JobsAppear, FormInv, TypeOK, ReadDelivery, At, Goes, SettlesAs, queue,
         ingest, alerts
<1>18. ASSUME NEW w \in Worker, NEW outcome \in {"sent", "refused", "transient"},
             Send(w, outcome)
      PROVE  JobsAppear'
  BY <1>18
     DEF JobsAppear, FormInv, TypeOK, Send, At, SettlesAs, Verdict, queue, ingest,
         alerts
<1>19. ASSUME NEW w \in Worker,
             Settle(w)
      PROVE  JobsAppear'
  <2>1. run[w].job \in Delivery /\ local[w].verdict # "none"
    BY <1>19 DEF Settle, At, FormInv, Fits
  <2>2. /\ delivery'[run[w].job].status # "none"
        /\ \A d \in Delivery \ {run[w].job} : delivery'[d] = delivery[d]
    BY <1>19, <2>1 DEF Settle, FormInv, TypeOK, DeliveryRow
  <2>3. QED  BY <1>19, <2>1, <2>2 DEF Settle, JobsAppear, queue, ingest
<1>20. ASSUME NEW w \in Worker,
             End(w)
      PROVE  JobsAppear'
  <2>1. \A j \in Job : job[j].state = "absent" => job'[j] = job[j]
    BY <1>20, FailedChanges, ServiceJobsAssumption
       DEF End, Returns, Throws, Settled, Fits, OneRunPerJob, FormInv, JobsFit
  <2>2. QED  BY <1>20, <2>1, AbsentStays DEF End, Outside, ingest, alerts
<1>21. ASSUME NEW w \in Worker,
             Break(w)
      PROVE  JobsAppear'
  <2>1. \A j \in Job : job[j].state = "absent" => job'[j] = job[j]
    BY <1>21, FailedChanges DEF Break, Breaks, OneRunPerJob, FormInv, JobsFit
  <2>2. QED  BY <1>21, <2>1, AbsentStays DEF Break, Outside, ingest, alerts
<1>22. ASSUME NEW w \in Worker,
             Die(w)
      PROVE  JobsAppear'
  BY <1>22 DEF Die, Dies, Outside, JobsAppear, ingest, alerts
<1>23. ASSUME NEW w \in Worker,
             Overrun(w)
      PROVE  JobsAppear'
  <2>1. \A j \in Job : job[j].state = "absent" => job'[j] = job[j]
    BY <1>23, FailedChanges DEF Overrun, Overruns, OneRunPerJob, FormInv, JobsFit
  <2>2. QED  BY <1>23, <2>1, AbsentStays DEF Overrun, Outside, ingest, alerts
<1>24. ASSUME NEW w \in Worker, NEW j \in Job,
             Begin(w, j)
      PROVE  JobsAppear'
  <2>1. \A k \in Job : job[k].state = "absent" => job'[k] = job[k]
    BY <1>24, FailedChanges DEF Begin, Claim, OneRunPerJob, FormInv, JobsFit
  <2>2. QED  BY <1>24, <2>1, AbsentStays DEF Begin, Outside, ingest, alerts
<1>25. ASSUME NEW j \in Job, UNCHANGED <<Outside, local, overran>>,
             Swept(j)
      PROVE  JobsAppear'
  <2>1. \A k \in Job : job[k].state = "absent" => job'[k] = job[k]
    BY <1>25, FailedChanges DEF Swept, OneRunPerJob, FormInv, JobsFit
  <2>2. QED  BY <1>25, <2>1, AbsentStays DEF Outside, ingest, alerts
<1>26. ASSUME NEW j \in Job, UNCHANGED <<Outside, local, overran>>,
             Requeued(j)
      PROVE  JobsAppear'
  <2>1. \A k \in Job : job[k].state = "absent" => job'[k] = job[k]
    BY <1>26, FailedChanges DEF Requeued, OneRunPerJob, FormInv, JobsFit
  <2>2. QED  BY <1>26, <2>1, AbsentStays DEF Outside, ingest, alerts
<1>27. CASE UNCHANGED vars
  BY <1>27 DEF JobsAppear, FormInv, TypeOK, vars, queue, ingest, alerts
<1>28. QED
  BY <1>1, <1>2, <1>3, <1>4, <1>5, <1>6, <1>7, <1>8, <1>9, <1>10, <1>11, <1>12, <1>13,
     <1>14, <1>15, <1>16, <1>17, <1>18, <1>19, <1>20, <1>21, <1>22, <1>23, <1>24, <1>25,
     <1>26, <1>27
     DEF Next, IngestStep, RuleStep, HandlerStep, QueueStep

-----------------------------------------------------------------------------
(* Cooldowns and alerts.                                                   *)

LEMMA AlertsStay ==
  ASSUME CooldownInv, UNCHANGED <<cooldown, queued>>,
         \A d \in Delivery : /\ delivery'[d].rule = delivery[d].rule
                             /\ delivery'[d].issue = delivery[d].issue
                             /\ job[d].state # "absent" => job'[d].state # "absent"
  PROVE  CooldownInv'
  BY DEF CooldownInv, OneAlertPerCooldown, CooldownHasAlert

LEMMA EnqueuedPresent ==
  ASSUME FormInv, NEW J, job' = Enqueued(J)
  PROVE  \A j \in Job : job[j].state # "absent" => job'[j].state # "absent"
  BY DEF Enqueued, NewRow

LEMMA FailedPresent ==
  ASSUME FormInv, NEW j, Failed(j)
  PROVE  \A i \in Job : job[i].state # "absent" => job'[i].state # "absent"
  BY DEF Failed, Settled, FormInv, JobsFit, JobRow

LEMMA CooldownKept ==
  ASSUME FormInv, OneRunPerJob, JobsAppear, CooldownInv, [Next]_vars
  PROVE  CooldownInv'
<1>1. ASSUME NEW e \in Event, NEW i \in Issue, NEW kind \in {"new_issue", "regression", "plain"},
             Store(e, i, kind)
      PROVE  CooldownInv'
  BY <1>1
     DEF CooldownInv, OneAlertPerCooldown, CooldownHasAlert, Store, queue, rules,
         alerts
<1>2. ASSUME NEW e \in Event,
             Dispatch(e)
      PROVE  CooldownInv'
  <2>1. \A d \in Delivery : job[d].state # "absent" => job'[d].state # "absent"
    BY <1>2, EnqueuedPresent, FailedPresent, AlertingAssumption
       DEF Dispatch, FormInv, JobsFit, JobRow
  <2>2. QED  BY <1>2, <2>1, AlertsStay DEF Dispatch, alerts
<1>3. ASSUME NEW e \in Event,
             DispatchToWindow(e)
      PROVE  CooldownInv'
  <2>1. \A d \in Delivery : job[d].state # "absent" => job'[d].state # "absent"
    BY <1>3, EnqueuedPresent, FailedPresent, AlertingAssumption
       DEF DispatchToWindow, FormInv, JobsFit, JobRow
  <2>2. QED  BY <1>3, <2>1, AlertsStay DEF DispatchToWindow, alerts
<1>4. ASSUME NEW e \in Event,
             DispatchNothing(e)
      PROVE  CooldownInv'
  BY <1>4
     DEF CooldownInv, OneAlertPerCooldown, CooldownHasAlert, DispatchNothing, Answers,
         queue, alerts
<1>5. ASSUME NEW e \in Event,
             DispatchLost(e)
      PROVE  CooldownInv'
  BY <1>5
     DEF CooldownInv, OneAlertPerCooldown, CooldownHasAlert, DispatchLost, Fault,
         rules, alerts
<1>6. ASSUME NEW e \in Event,
             WindowEnds(e)
      PROVE  CooldownInv'
  BY <1>6
     DEF CooldownInv, OneAlertPerCooldown, CooldownHasAlert, WindowEnds, queue, rules,
         alerts
<1>7. ASSUME NEW e \in Event,
             EventAges(e)
      PROVE  CooldownInv'
  BY <1>7
     DEF CooldownInv, OneAlertPerCooldown, CooldownHasAlert, EventAges, queue, rules,
         alerts
<1>8. ASSUME NEW r \in Rule, NEW on \in TriggerSets,
             CreateRule(r, on)
      PROVE  CooldownInv'
  BY <1>8
     DEF CooldownInv, OneAlertPerCooldown, CooldownHasAlert, CreateRule, queue,
         ingest, alerts
<1>9. ASSUME NEW r \in Rule, NEW state \in {"on", "off"}, NEW on \in TriggerSets,
             UpdateRule(r, state, on)
      PROVE  CooldownInv'
  BY <1>9
     DEF CooldownInv, OneAlertPerCooldown, CooldownHasAlert, UpdateRule, Turn, queue,
         alerts
<1>10. ASSUME NEW r \in Rule,
             ClearCooldowns(r)
      PROVE  CooldownInv'
  <2>1. \A c \in Rule \X Issue : IF c[1] = r THEN cooldown'[c] = "none" /\ queued'[c] = 0
                                 ELSE cooldown'[c] = cooldown[c] /\ queued'[c] = queued[c]
    BY <1>10 DEF ClearCooldowns
  <2>2. UNCHANGED <<job, delivery>>
    BY <1>10 DEF ClearCooldowns, queue
  <2>3. QED  BY <2>1, <2>2 DEF CooldownInv, OneAlertPerCooldown, CooldownHasAlert
<1>11. ASSUME NEW r \in Rule,
             DeleteRule(r)
      PROVE  CooldownInv'
  BY <1>11
     DEF CooldownInv, OneAlertPerCooldown, CooldownHasAlert, DeleteRule, Turn, queue,
         alerts
<1>12. ASSUME NEW c \in Rule \X Issue,
             CooldownEnds(c)
      PROVE  CooldownInv'
  <2>1. /\ cooldown'[c] = "cool" /\ queued'[c] = 0 /\ cooldown[c] # "none"
        /\ \A b \in (Rule \X Issue) \ {c} : cooldown'[b] = cooldown[b] /\ queued'[b] = queued[b]
    BY <1>12 DEF CooldownEnds, FormInv, TypeOK
  <2>2. UNCHANGED <<job, delivery>>
    BY <1>12 DEF CooldownEnds, queue
  <2>3. QED  BY <2>1, <2>2 DEF CooldownInv, OneAlertPerCooldown, CooldownHasAlert
<1>13. ASSUME NEW w \in Worker,
             ReadRules(w)
      PROVE  CooldownInv'
  BY <1>13
     DEF CooldownInv, OneAlertPerCooldown, CooldownHasAlert, ReadRules, At, queue,
         ingest, alerts
<1>14. ASSUME NEW w \in Worker, NEW r \in Rule,
             Evaluate(w, r)
      PROVE  CooldownInv'
  BY <1>14
     DEF CooldownInv, OneAlertPerCooldown, CooldownHasAlert, Evaluate, At, queue,
         ingest, alerts
<1>15. ASSUME NEW w \in Worker,
             QueueAlert(w)
      PROVE  CooldownInv'
  <2>1. CASE UNCHANGED <<job, alerts>>
    BY <2>1, AlertsStay DEF alerts
  <2>2. ASSUME NEW d \in Delivery, Queues(w, d)
        PROVE  CooldownInv'
    <3> DEFINE c == <<local[w].rule, IssueOf(w)>>
    <3>1. cooldown[c] # "hot"
      BY <2>2 DEF Queues, CooldownFree
    <3>2. \A b \in Rule \X Issue : b = c => cooldown'[b] = "hot" /\ queued'[b] = queued[b] + 1
      BY <2>2 DEF Queues, FormInv, TypeOK
    <3>3. \A b \in Rule \X Issue : b # c => cooldown'[b] = cooldown[b] /\ queued'[b] = queued[b]
      BY <2>2 DEF Queues, FormInv, TypeOK
    <3>4. delivery'[d].rule = c[1] /\ delivery'[d].issue = c[2]
      BY <2>2 DEF Queues, FormInv, TypeOK
    <3>5. \A f \in Delivery \ {d} : delivery'[f] = delivery[f]
      BY <2>2 DEF Queues, FormInv, TypeOK
    <3>6. delivery[d].rule \notin Rule
      BY <2>2, AlertingAssumption DEF Queues, JobsAppear
    <3>7. job'[d].state # "absent" /\ \A f \in Delivery : job[f].state # "absent" => job'[f].state # "absent"
      BY <2>2, EnqueuedPresent, AlertingAssumption DEF Queues, Enqueued, Live, NewRow
    <3> HIDE DEF c
    <3>8. OneAlertPerCooldown' /\ \A b \in Rule \X Issue : cooldown'[b] # "hot" => queued'[b] = 0
      BY <3>1, <3>2, <3>3 DEF CooldownInv, OneAlertPerCooldown
    <3>9. CooldownHasAlert'
      <4> SUFFICES ASSUME NEW b \in Rule \X Issue, cooldown'[b] # "none"
                   PROVE  \E f \in Delivery : /\ delivery'[f].rule = b[1] /\ delivery'[f].issue = b[2]
                                              /\ job'[f].state # "absent"
        BY DEF CooldownHasAlert
      <4>1. CASE b = c
        BY <4>1, <3>4, <3>7
      <4>2. CASE b # c
        <5>1. PICK f \in Delivery : /\ delivery[f].rule = b[1] /\ delivery[f].issue = b[2]
                                    /\ job[f].state # "absent"
          BY <4>2, <3>3 DEF CooldownInv, CooldownHasAlert
        <5>2. f # d
          BY <5>1, <3>6
        <5>3. QED  BY <5>1, <5>2, <3>5, <3>7
      <4>3. QED  BY <4>1, <4>2
    <3>10. QED  BY <3>8, <3>9 DEF CooldownInv
  <2>3. QED  BY <1>15, <2>1, <2>2, AlertQueued
<1>16. ASSUME NEW w \in Worker,
             RulesDone(w)
      PROVE  CooldownInv'
  BY <1>16
     DEF CooldownInv, OneAlertPerCooldown, CooldownHasAlert, RulesDone, At, Goes,
         queue, ingest, alerts
<1>17. ASSUME NEW w \in Worker,
             ReadDelivery(w)
      PROVE  CooldownInv'
  BY <1>17
     DEF CooldownInv, OneAlertPerCooldown, CooldownHasAlert, ReadDelivery, At, Goes,
         SettlesAs, queue, ingest, alerts
<1>18. ASSUME NEW w \in Worker, NEW outcome \in {"sent", "refused", "transient"},
             Send(w, outcome)
      PROVE  CooldownInv'
  BY <1>18
     DEF CooldownInv, OneAlertPerCooldown, CooldownHasAlert, Send, At, SettlesAs,
         Verdict, queue, ingest, alerts
<1>19. ASSUME NEW w \in Worker,
             Settle(w)
      PROVE  CooldownInv'
  <2>1. \A d \in Delivery : delivery'[d].rule = delivery[d].rule /\ delivery'[d].issue = delivery[d].issue
    BY <1>19 DEF Settle, FormInv, TypeOK, DeliveryRow
  <2>2. QED  BY <1>19, <2>1, AlertsStay DEF Settle, queue
<1>20. ASSUME NEW w \in Worker,
             End(w)
      PROVE  CooldownInv'
  <2>1. \A d \in Delivery : job[d].state # "absent" => job'[d].state # "absent"
    BY <1>20, EnqueuedPresent, FailedPresent, AlertingAssumption
       DEF End, Returns, Throws, Settled, FormInv, JobsFit, JobRow
  <2>2. QED  BY <1>20, <2>1, AlertsStay DEF End, Outside, alerts
<1>21. ASSUME NEW w \in Worker,
             Break(w)
      PROVE  CooldownInv'
  <2>1. \A d \in Delivery : job[d].state # "absent" => job'[d].state # "absent"
    BY <1>21, EnqueuedPresent, FailedPresent, AlertingAssumption
       DEF Break, Breaks, FormInv, JobsFit, JobRow
  <2>2. QED  BY <1>21, <2>1, AlertsStay DEF Break, Outside, alerts
<1>22. ASSUME NEW w \in Worker,
             Die(w)
      PROVE  CooldownInv'
  BY <1>22, AlertsStay DEF Die, Dies, Outside, alerts
<1>23. ASSUME NEW w \in Worker,
             Overrun(w)
      PROVE  CooldownInv'
  <2>1. \A d \in Delivery : job[d].state # "absent" => job'[d].state # "absent"
    BY <1>23, EnqueuedPresent, FailedPresent, AlertingAssumption
       DEF Overrun, Overruns, FormInv, JobsFit, JobRow
  <2>2. QED  BY <1>23, <2>1, AlertsStay DEF Overrun, Outside, alerts
<1>24. ASSUME NEW w \in Worker, NEW j \in Job,
             Begin(w, j)
      PROVE  CooldownInv'
  <2>1. \A d \in Delivery : job[d].state # "absent" => job'[d].state # "absent"
    BY <1>24, EnqueuedPresent, FailedPresent, AlertingAssumption
       DEF Begin, Claim, FormInv, JobsFit, JobRow
  <2>2. QED  BY <1>24, <2>1, AlertsStay DEF Begin, Outside, alerts
<1>25. ASSUME NEW j \in Job, UNCHANGED <<Outside, local, overran>>,
             Swept(j)
      PROVE  CooldownInv'
  <2>1. \A d \in Delivery : job[d].state # "absent" => job'[d].state # "absent"
    BY <1>25, EnqueuedPresent, FailedPresent, AlertingAssumption
       DEF Swept, FormInv, JobsFit, JobRow
  <2>2. QED  BY <1>25, <2>1, AlertsStay DEF Outside, alerts
<1>26. ASSUME NEW j \in Job, UNCHANGED <<Outside, local, overran>>,
             Requeued(j)
      PROVE  CooldownInv'
  <2>1. \A d \in Delivery : job[d].state # "absent" => job'[d].state # "absent"
    BY <1>26, EnqueuedPresent, FailedPresent, AlertingAssumption
       DEF Requeued, NewRow, FormInv, JobsFit, JobRow
  <2>2. QED  BY <1>26, <2>1, AlertsStay DEF Outside, alerts
<1>27. CASE UNCHANGED vars
  BY <1>27
     DEF CooldownInv, OneAlertPerCooldown, CooldownHasAlert, vars, queue, ingest,
         alerts
<1>28. QED
  BY <1>1, <1>2, <1>3, <1>4, <1>5, <1>6, <1>7, <1>8, <1>9, <1>10, <1>11, <1>12, <1>13,
     <1>14, <1>15, <1>16, <1>17, <1>18, <1>19, <1>20, <1>21, <1>22, <1>23, <1>24, <1>25,
     <1>26, <1>27
     DEF Next, IngestStep, RuleStep, HandlerStep, QueueStep

-----------------------------------------------------------------------------
(* The settlement of deliveries.                                           *)

LEMMA OwnRun ==
  ASSUME FormInv, OneRunPerJob, NEW w \in Worker, run[w].job \in Job \ overran
  PROVE  /\ job[run[w].job].state = "active" /\ ~run[w].late
         /\ \A v \in Worker \ {w} : run[v].job # run[w].job
  BY ServiceJobsAssumption DEF OneRunPerJob

LEMMA FailedState ==
  ASSUME FormInv, NEW j, Failed(j)
  PROVE  \A i \in Job : job'[i] = job[i] \/ job'[i].state \in {"waiting", "dead"}
  BY DEF Failed, Settled, FormInv, JobsFit, JobRow

LEMMA JobMoves ==
  ASSUME DeliveryInv, UNCHANGED <<run, local, delivery, overran>>,
         \A d \in Delivery : job'[d] = job[d] \/ job'[d].state \in {"waiting", "active", "dead"}
  PROVE  DeliveryInv'
  BY DEF DeliveryInv, UnsettledHasJob

LEMMA LeavingDelivery ==
  ASSUME FormInv, DeliveryInv, NEW w \in Worker, Leaves(w), Resets(w),
         UNCHANGED <<delivery, overran>>,
         \A d \in Delivery \ overran : \/ job'[d] = job[d] \/ job'[d].state \in {"waiting", "dead"}
                                       \/ delivery[d].status \notin Unsettled
  PROVE  DeliveryInv'
<1>1. local'[w].pc = "start" /\ \A v \in Worker \ {w} : local'[v] = local[v] /\ run'[v] = run[v]
  BY DEF Leaves, Resets, Start, FormInv, TypeOK, QueueTypeOK
<1>2. QED  BY <1>1 DEF DeliveryInv, UnsettledHasJob

LEMMA HandlerStays ==
  ASSUME FormInv, OneRunPerJob, DeliveryInv, NEW w \in Worker, NEW new \in Local,
         local' = [local EXCEPT ![w] = new], UNCHANGED <<queue, delivery, overran>>,
         run[w].job \in Delivery \ overran =>
           /\ new.pc \in {"send", "settle"} => delivery[run[w].job].status \in Unsettled
           /\ new.pc = "end" =>
                new.verdict = "retrying" \/ delivery[run[w].job].status \notin Unsettled
  PROVE  DeliveryInv'
<1>1. local'[w] = new /\ \A v \in Worker \ {w} : local'[v] = local[v]
  BY DEF FormInv, TypeOK
<1>2. QED  BY <1>1 DEF DeliveryInv, UnsettledHasJob, queue

LEMMA DeliveryKept ==
  ASSUME FormInv, OneRunPerJob, JobsAppear, DeliveryInv, [Next]_vars
  PROVE  DeliveryInv'
<1>1. ASSUME NEW e \in Event, NEW i \in Issue, NEW kind \in {"new_issue", "regression", "plain"},
             Store(e, i, kind)
      PROVE  DeliveryInv'
  BY <1>1
     DEF DeliveryInv, UnsettledHasJob, Unsettled, FormInv, TypeOK, QueueTypeOK, Local,
         Store, queue, rules, alerts
<1>2. ASSUME NEW e \in Event,
             Dispatch(e)
      PROVE  DeliveryInv'
  <2>1. \A d \in Delivery : job'[d] = job[d]
    BY <1>2, EnqueuedOthers, AlertingAssumption DEF Dispatch
  <2>2. QED  BY <1>2, <2>1, JobMoves DEF Dispatch, alerts
<1>3. ASSUME NEW e \in Event,
             DispatchToWindow(e)
      PROVE  DeliveryInv'
  <2>1. \A d \in Delivery : job'[d] = job[d]
    BY <1>3, EnqueuedOthers, AlertingAssumption DEF DispatchToWindow
  <2>2. QED  BY <1>3, <2>1, JobMoves DEF DispatchToWindow, alerts
<1>4. ASSUME NEW e \in Event,
             DispatchNothing(e)
      PROVE  DeliveryInv'
  BY <1>4
     DEF DeliveryInv, UnsettledHasJob, Unsettled, FormInv, TypeOK, QueueTypeOK, Local,
         DispatchNothing, Answers, queue, rules, alerts
<1>5. ASSUME NEW e \in Event,
             DispatchLost(e)
      PROVE  DeliveryInv'
  BY <1>5
     DEF DeliveryInv, UnsettledHasJob, Unsettled, FormInv, TypeOK, QueueTypeOK, Local,
         DispatchLost, Fault, rules, alerts
<1>6. ASSUME NEW e \in Event,
             WindowEnds(e)
      PROVE  DeliveryInv'
  BY <1>6
     DEF DeliveryInv, UnsettledHasJob, Unsettled, FormInv, TypeOK, QueueTypeOK, Local,
         WindowEnds, queue, rules, alerts
<1>7. ASSUME NEW e \in Event,
             EventAges(e)
      PROVE  DeliveryInv'
  BY <1>7
     DEF DeliveryInv, UnsettledHasJob, Unsettled, FormInv, TypeOK, QueueTypeOK, Local,
         EventAges, queue, rules, alerts
<1>8. ASSUME NEW r \in Rule, NEW on \in TriggerSets,
             CreateRule(r, on)
      PROVE  DeliveryInv'
  BY <1>8
     DEF DeliveryInv, UnsettledHasJob, Unsettled, FormInv, TypeOK, QueueTypeOK, Local,
         CreateRule, queue, ingest, rules, alerts
<1>9. ASSUME NEW r \in Rule, NEW state \in {"on", "off"}, NEW on \in TriggerSets,
             UpdateRule(r, state, on)
      PROVE  DeliveryInv'
  BY <1>9
     DEF DeliveryInv, UnsettledHasJob, Unsettled, FormInv, TypeOK, QueueTypeOK, Local,
         UpdateRule, Turn, queue, ingest, rules, alerts
<1>10. ASSUME NEW r \in Rule,
             ClearCooldowns(r)
      PROVE  DeliveryInv'
  BY <1>10
     DEF DeliveryInv, UnsettledHasJob, Unsettled, FormInv, TypeOK, QueueTypeOK, Local,
         ClearCooldowns, queue, ingest
<1>11. ASSUME NEW r \in Rule,
             DeleteRule(r)
      PROVE  DeliveryInv'
  BY <1>11
     DEF DeliveryInv, UnsettledHasJob, Unsettled, FormInv, TypeOK, QueueTypeOK, Local,
         DeleteRule, Turn, queue, ingest, rules, alerts
<1>12. ASSUME NEW c \in Rule \X Issue,
             CooldownEnds(c)
      PROVE  DeliveryInv'
  BY <1>12
     DEF DeliveryInv, UnsettledHasJob, Unsettled, FormInv, TypeOK, QueueTypeOK, Local,
         CooldownEnds, Turn, queue, ingest
<1>13. ASSUME NEW w \in Worker,
             ReadRules(w)
      PROVE  DeliveryInv'
  BY <1>13
     DEF DeliveryInv, UnsettledHasJob, Unsettled, FormInv, TypeOK, QueueTypeOK, Local,
         Start, ReadRules, At, queue, ingest, rules, alerts
<1>14. ASSUME NEW w \in Worker, NEW r \in Rule,
             Evaluate(w, r)
      PROVE  DeliveryInv'
  BY <1>14
     DEF DeliveryInv, UnsettledHasJob, Unsettled, FormInv, TypeOK, QueueTypeOK, Local,
         Evaluate, At, queue, ingest, rules, alerts
<1>15. ASSUME NEW w \in Worker,
             QueueAlert(w)
      PROVE  DeliveryInv'
  <2>1. run[w].job \notin Delivery /\ UNCHANGED <<run, overran>>
    BY <1>15, AlertingAssumption DEF QueueAlert, At
  <2>2. CASE Goes(w, "rules") /\ UNCHANGED <<job, alerts>>
    <3>1. \A v \in Worker \ {w} : local'[v] = local[v]
      BY <2>2 DEF Goes, FormInv, TypeOK
    <3>2. QED  BY <2>1, <2>2, <3>1 DEF DeliveryInv, UnsettledHasJob, alerts
  <2>3. ASSUME NEW d \in Delivery, Queues(w, d)
        PROVE  DeliveryInv'
    <3>1. \A v \in Worker \ {w} : local'[v].pc = local[v].pc /\ local'[v].verdict = local[v].verdict
      BY <2>3 DEF Queues, Forget, FormInv, TypeOK, Local
    <3>2. \A f \in Delivery \ {d} : delivery'[f] = delivery[f] /\ job'[f] = job[f]
      BY <2>3, EnqueuedOthers, AlertingAssumption DEF Queues, FormInv, TypeOK
    <3>3. job'[d].state = "waiting"
      BY <2>3, AlertingAssumption DEF Queues, JobsAppear, Enqueued, Live, NewRow
    <3>4. \A v \in Worker : run[v].job = d => d \in overran
      BY <2>3, OwnRun, AlertingAssumption DEF Queues, JobsAppear
    <3>5. QED  BY <2>1, <3>1, <3>2, <3>3, <3>4 DEF DeliveryInv, UnsettledHasJob
  <2>4. QED  BY <1>15, <2>2, <2>3 DEF QueueAlert, Queues
<1>16. ASSUME NEW w \in Worker,
             RulesDone(w)
      PROVE  DeliveryInv'
  BY <1>16, AlertingAssumption
     DEF DeliveryInv, UnsettledHasJob, Unsettled, FormInv, TypeOK, QueueTypeOK, Local,
         RulesDone, At, Goes, queue, ingest, rules, alerts
<1>17. ASSUME NEW w \in Worker,
             ReadDelivery(w)
      PROVE  DeliveryInv'
  <2>1. CASE delivery[run[w].job].status \notin Unsettled
    BY <1>17, <2>1, GoesTo, HandlerStays DEF ReadDelivery, alerts
  <2>2. CASE delivery[run[w].job].status \in Unsettled /\ Goes(w, "send")
    BY <1>17, <2>2, GoesTo, HandlerStays DEF ReadDelivery, alerts
  <2>3. CASE delivery[run[w].job].status \in Unsettled /\ SettlesAs(w, "failed")
    <3>1. [Start EXCEPT !.pc = "settle", !.verdict = "failed"] \in Local
      BY DEF Start, Local
    <3>2. [Start EXCEPT !.pc = "settle", !.verdict = "failed"].pc = "settle"
      BY DEF Start
    <3>3. QED  BY <1>17, <2>3, <3>1, <3>2, HandlerStays
                  DEF ReadDelivery, SettlesAs, alerts
  <2>4. QED  BY <1>17, <2>1, <2>2, <2>3 DEF ReadDelivery
<1>18. ASSUME NEW w \in Worker, NEW outcome \in {"sent", "refused", "transient"},
             Send(w, outcome)
      PROVE  DeliveryInv'
  BY <1>18
     DEF DeliveryInv, UnsettledHasJob, Unsettled, FormInv, TypeOK, QueueTypeOK, Local,
         Start, Send, At, SettlesAs, Verdict, queue, ingest, rules, alerts
<1>19. ASSUME NEW w \in Worker,
             Settle(w)
      PROVE  DeliveryInv'
  <2> DEFINE d == run[w].job
  <2>1. d \in Delivery /\ local[w].verdict \in {"retrying", "success", "failed"}
    BY <1>19 DEF Settle, At, Fits, FormInv, TypeOK, Local
  <2>2. delivery'[d].status = local[w].verdict /\ \A f \in Delivery \ {d} : delivery'[f] = delivery[f]
    BY <1>19, <2>1 DEF Settle, FormInv, TypeOK, DeliveryRow
  <2>3. /\ local'[w].pc = "end" /\ local'[w].verdict = local[w].verdict
        /\ \A v \in Worker \ {w} : local'[v] = local[v]
    BY <1>19 DEF Settle, Goes, FormInv, TypeOK, Local
  <2>4. d \notin overran => job[d].state = "active" /\ \A v \in Worker \ {w} : run[v].job # d
    BY <2>1, OwnRun, AlertingAssumption
  <2>5. UNCHANGED <<job, run, overran>>
    BY <1>19 DEF Settle, queue
  <2> HIDE DEF d
  <2>6. QED  BY <2>1, <2>2, <2>3, <2>4, <2>5
                DEF DeliveryInv, UnsettledHasJob, Unsettled, d
<1>20. ASSUME NEW w \in Worker,
             End(w)
      PROVE  DeliveryInv'
  <2>1. CASE Throws(w)
    BY <1>20, <2>1, FailedState, LeavingDelivery, AlertingAssumption
       DEF End, Throws, Outside, alerts
  <2>2. CASE Returns(w) /\ local[w].verdict # "retrying"
    <3>1. run[w].job \in Delivery \ overran => delivery[run[w].job].status \notin Unsettled
      BY <1>20, <2>2 DEF End, DeliveryInv
    <3>2. \A d \in Delivery \ {run[w].job} : job'[d] = job[d]
      BY <2>2, AlertingAssumption DEF Returns, Settled, FormInv, JobsFit
    <3>3. QED  BY <1>20, <2>2, <3>1, <3>2, LeavingDelivery
                  DEF End, Returns, Outside, alerts
  <2>3. QED  BY <1>20, <2>1, <2>2 DEF End
<1>21. ASSUME NEW w \in Worker,
             Break(w)
      PROVE  DeliveryInv'
  BY <1>21, FailedState, LeavingDelivery, AlertingAssumption
     DEF Break, Breaks, Outside, alerts
<1>22. ASSUME NEW w \in Worker,
             Die(w)
      PROVE  DeliveryInv'
  BY <1>22
     DEF DeliveryInv, UnsettledHasJob, Unsettled, FormInv, TypeOK, QueueTypeOK, Local,
         Start, Die, Dies, Fault, Leaves, Resets, Outside, ingest, rules, alerts
<1>23. ASSUME NEW w \in Worker,
             Overrun(w)
      PROVE  DeliveryInv'
  <2>1. \A v \in Worker : run'[v].job = run[v].job
    BY <1>23 DEF Overrun, Overruns, FormInv, TypeOK, QueueTypeOK, Run
  <2>2. \A d \in Delivery : job'[d] = job[d] \/ job'[d].state \in {"waiting", "dead"}
    BY <1>23, FailedState, AlertingAssumption DEF Overrun, Overruns
  <2>3. QED  BY <1>23, <2>1, <2>2
                DEF Overrun, Outside, alerts, DeliveryInv, UnsettledHasJob
<1>24. ASSUME NEW w \in Worker, NEW j \in Job,
             Begin(w, j)
      PROVE  DeliveryInv'
  <2>1. local[w].pc = "start"
    BY <1>24, ServiceJobsAssumption, AlertingAssumption
       DEF Begin, Claim, NoRun, FormInv, TypeOK, Fits, Local
  <2>2. \A v \in Worker \ {w} : run'[v] = run[v]
    BY <1>24 DEF Begin, Claim, FormInv, TypeOK, QueueTypeOK
  <2>3. job'[j].state = "active" /\ \A i \in Job \ {j} : job'[i] = job[i]
    BY <1>24 DEF Begin, Claim, FormInv, JobsFit
  <2>4. QED  BY <1>24, <2>1, <2>2, <2>3, AlertingAssumption
             DEF Begin, Outside, alerts, DeliveryInv, UnsettledHasJob
<1>25. ASSUME NEW j \in Job, UNCHANGED <<Outside, local, overran>>,
             Swept(j)
      PROVE  DeliveryInv'
  BY <1>25, FailedState, JobMoves, AlertingAssumption DEF Swept, Outside, alerts
<1>26. ASSUME NEW j \in Job, UNCHANGED <<Outside, local, overran>>,
             Requeued(j)
      PROVE  DeliveryInv'
  <2>1. \A i \in Job : job'[i] = job[i] \/ job'[i].state = "waiting"
    BY <1>26 DEF Requeued, NewRow, FormInv, JobsFit
  <2>2. QED  BY <1>26, <2>1, JobMoves, AlertingAssumption DEF Requeued, Outside, alerts
<1>27. CASE UNCHANGED vars
  BY <1>27
     DEF DeliveryInv, UnsettledHasJob, Unsettled, FormInv, TypeOK, QueueTypeOK, Local,
         vars, queue, ingest, alerts
<1>28. QED
  BY <1>1, <1>2, <1>3, <1>4, <1>5, <1>6, <1>7, <1>8, <1>9, <1>10, <1>11, <1>12, <1>13,
     <1>14, <1>15, <1>16, <1>17, <1>18, <1>19, <1>20, <1>21, <1>22, <1>23, <1>24, <1>25,
     <1>26, <1>27
     DEF Next, IngestStep, RuleStep, HandlerStep, QueueStep

-----------------------------------------------------------------------------
(* The invariant.                                                          *)

LEMMA InitHolds ==
  ASSUME Init
  PROVE  IInv
<1>1. FormInv
  BY StartFits, RowsTyped, ServiceJobsAssumption, AlertingAssumption
     DEF Init, QueueInit, FormInv, TypeOK, QueueTypeOK, JobsFit, NoRow, EventRow,
         RuleRow, DeliveryRow, Trigger
<1>2. OneRunPerJob
  BY DEF Init, QueueInit, OneRunPerJob, NoRun
<1>3. JobsAppear
  BY AlertingAssumption DEF Init, QueueInit, JobsAppear, NoRow
<1>4. CooldownInv
  BY DEF Init, CooldownInv, OneAlertPerCooldown, CooldownHasAlert
<1>5. DeliveryInv
  BY DEF Init, DeliveryInv, UnsettledHasJob, Unsettled, Start
<1>6. QED  BY <1>1, <1>2, <1>3, <1>4, <1>5 DEF IInv

LEMMA Invariance == Spec => []IInv
<1>1. Init => IInv
  BY InitHolds
<1>2. IInv /\ [Next]_vars => IInv'
  BY FormKept, RunsKept, AppearKept, CooldownKept, DeliveryKept DEF IInv
<1>3. QED  BY <1>1, <1>2, PTL DEF Spec

-----------------------------------------------------------------------------
(* The theorems.                                                           *)

\* Tables, runs and what handlers remember keep their form.
THEOREM TypeCorrect == Spec => []TypeOK
<1>1. IInv => TypeOK
  BY DEF IInv, FormInv
<1>2. QED  BY <1>1, Invariance, PTL

\* claimCooldown lets one alert through until the cooldown ends, however many
\* runs of however many jobs handle the issue at once.
THEOREM OneAlertTheorem == Spec => []OneAlertPerCooldown
<1>1. IInv => OneAlertPerCooldown
  BY DEF IInv, CooldownInv
<1>2. QED  BY <1>1, Invariance, PTL

\* queueAlert commits the cooldown with the delivery and its job: no cooldown
\* silences a rule that queued nothing.
THEOREM CooldownAlertTheorem == Spec => []CooldownHasAlert
<1>1. IInv => CooldownHasAlert
  BY DEF IInv, CooldownInv
<1>2. QED  BY <1>1, Invariance, PTL

\* A delivery that waits for its outcome has a job that will bring it, or one
\* that is listed as failed: the handler throws whenever it leaves the
\* delivery unsettled.
THEOREM UnsettledTheorem == Spec => []UnsettledHasJob
<1>1. IInv => UnsettledHasJob
  BY DEF IInv, DeliveryInv
<1>2. QED  BY <1>1, Invariance, PTL

LEMMA SettledStep ==
  ASSUME FormInv, OneRunPerJob, DeliveryInv,
         NEW d \in Delivery \ overran, delivery[d].status \in {"success", "failed"}, [Next]_vars
  PROVE  delivery'[d] = delivery[d]
<1>1. ASSUME NEW e \in Event, NEW i \in Issue, NEW kind \in {"new_issue", "regression", "plain"},
             Store(e, i, kind)
      PROVE  delivery'[d] = delivery[d]
  BY <1>1 DEF Unsettled, Store, queue, alerts
<1>2. ASSUME NEW e \in Event,
             Dispatch(e)
      PROVE  delivery'[d] = delivery[d]
  BY <1>2 DEF Unsettled, Dispatch, Answers, queue, alerts
<1>3. ASSUME NEW e \in Event,
             DispatchToWindow(e)
      PROVE  delivery'[d] = delivery[d]
  BY <1>3 DEF Unsettled, DispatchToWindow, Answers, queue, alerts
<1>4. ASSUME NEW e \in Event,
             DispatchNothing(e)
      PROVE  delivery'[d] = delivery[d]
  BY <1>4 DEF Unsettled, DispatchNothing, Answers, queue, alerts
<1>5. ASSUME NEW e \in Event,
             DispatchLost(e)
      PROVE  delivery'[d] = delivery[d]
  BY <1>5 DEF Unsettled, DispatchLost, Fault, queue, alerts
<1>6. ASSUME NEW e \in Event,
             WindowEnds(e)
      PROVE  delivery'[d] = delivery[d]
  BY <1>6 DEF Unsettled, WindowEnds, queue, alerts
<1>7. ASSUME NEW e \in Event,
             EventAges(e)
      PROVE  delivery'[d] = delivery[d]
  BY <1>7 DEF Unsettled, EventAges, queue, alerts
<1>8. ASSUME NEW r \in Rule, NEW on \in TriggerSets,
             CreateRule(r, on)
      PROVE  delivery'[d] = delivery[d]
  BY <1>8 DEF Unsettled, CreateRule, queue, alerts
<1>9. ASSUME NEW r \in Rule, NEW state \in {"on", "off"}, NEW on \in TriggerSets,
             UpdateRule(r, state, on)
      PROVE  delivery'[d] = delivery[d]
  BY <1>9 DEF Unsettled, UpdateRule, Turn, queue, alerts
<1>10. ASSUME NEW r \in Rule,
             ClearCooldowns(r)
      PROVE  delivery'[d] = delivery[d]
  BY <1>10 DEF Unsettled, ClearCooldowns, queue, alerts
<1>11. ASSUME NEW r \in Rule,
             DeleteRule(r)
      PROVE  delivery'[d] = delivery[d]
  BY <1>11 DEF Unsettled, DeleteRule, Turn, queue, alerts
<1>12. ASSUME NEW c \in Rule \X Issue,
             CooldownEnds(c)
      PROVE  delivery'[d] = delivery[d]
  BY <1>12 DEF Unsettled, CooldownEnds, Turn, queue, alerts
<1>13. ASSUME NEW w \in Worker,
             ReadRules(w)
      PROVE  delivery'[d] = delivery[d]
  BY <1>13 DEF Unsettled, ReadRules, At, queue, alerts
<1>14. ASSUME NEW w \in Worker, NEW r \in Rule,
             Evaluate(w, r)
      PROVE  delivery'[d] = delivery[d]
  BY <1>14 DEF Unsettled, Evaluate, At, queue, alerts
<1>15. ASSUME NEW w \in Worker,
             QueueAlert(w)
      PROVE  delivery'[d] = delivery[d]
  <2>1. CASE UNCHANGED <<job, alerts>>
    BY <2>1 DEF alerts
  <2>2. ASSUME NEW f \in Delivery, Queues(w, f)
        PROVE  delivery'[d] = delivery[d]
    BY <2>2 DEF Queues, FormInv, TypeOK
  <2>3. QED  BY <1>15, <2>1, <2>2, AlertQueued
<1>16. ASSUME NEW w \in Worker,
             RulesDone(w)
      PROVE  delivery'[d] = delivery[d]
  BY <1>16 DEF RulesDone, At, Goes, queue, alerts
<1>17. ASSUME NEW w \in Worker,
             ReadDelivery(w)
      PROVE  delivery'[d] = delivery[d]
  BY <1>17 DEF Unsettled, ReadDelivery, At, Goes, SettlesAs, queue, alerts
<1>18. ASSUME NEW w \in Worker, NEW outcome \in {"sent", "refused", "transient"},
             Send(w, outcome)
      PROVE  delivery'[d] = delivery[d]
  BY <1>18 DEF Send, At, SettlesAs, Verdict, queue, alerts
<1>19. ASSUME NEW w \in Worker,
             Settle(w)
      PROVE  delivery'[d] = delivery[d]
  <2>1. run[w].job \in Delivery
    BY <1>19 DEF Settle, At
  <2>2. run[w].job # d
    BY <1>19 DEF Settle, At, DeliveryInv, Unsettled
  <2>3. QED  BY <1>19, <2>1, <2>2 DEF Settle, FormInv, TypeOK
<1>20. ASSUME NEW w \in Worker,
             End(w)
      PROVE  delivery'[d] = delivery[d]
  BY <1>20 DEF End, Returns, Throws, Leaves, Resets, Outside, alerts
<1>21. ASSUME NEW w \in Worker,
             Break(w)
      PROVE  delivery'[d] = delivery[d]
  BY <1>21 DEF Break, Breaks, Fault, Leaves, Resets, Outside, alerts
<1>22. ASSUME NEW w \in Worker,
             Die(w)
      PROVE  delivery'[d] = delivery[d]
  BY <1>22 DEF Die, Dies, Fault, Leaves, Resets, Outside, alerts
<1>23. ASSUME NEW w \in Worker,
             Overrun(w)
      PROVE  delivery'[d] = delivery[d]
  BY <1>23 DEF Overrun, Overruns, Fault, Outside, alerts
<1>24. ASSUME NEW w \in Worker, NEW j \in Job,
             Begin(w, j)
      PROVE  delivery'[d] = delivery[d]
  BY <1>24 DEF Begin, Claim, Outside, alerts
<1>25. ASSUME NEW j \in Job, UNCHANGED <<Outside, local, overran>>,
             Swept(j)
      PROVE  delivery'[d] = delivery[d]
  BY <1>25 DEF Unsettled, Swept, Outside, queue, alerts
<1>26. ASSUME NEW j \in Job, UNCHANGED <<Outside, local, overran>>,
             Requeued(j)
      PROVE  delivery'[d] = delivery[d]
  BY <1>26 DEF Unsettled, Requeued, Outside, queue, alerts
<1>27. CASE UNCHANGED vars
  BY <1>27 DEF Unsettled, vars, queue, alerts
<1>28. QED
  BY <1>1, <1>2, <1>3, <1>4, <1>5, <1>6, <1>7, <1>8, <1>9, <1>10, <1>11, <1>12, <1>13,
     <1>14, <1>15, <1>16, <1>17, <1>18, <1>19, <1>20, <1>21, <1>22, <1>23, <1>24, <1>25,
     <1>26, <1>27
     DEF Next, IngestStep, RuleStep, HandlerStep, QueueStep

\* The job of a settled delivery may be retried, swept or requeued: the status
\* is read first and nothing is sent or written again.
THEOREM SettledTheorem == Spec => SettledIsFinal
<1>1. IInv /\ [Next]_vars =>
        [\A d \in Delivery \ overran :
           delivery[d].status \in {"success", "failed"} => delivery'[d] = delivery[d]]_vars
  BY SettledStep DEF IInv
<1>2. QED  BY <1>1, Invariance, PTL DEF Spec, SettledIsFinal

-----------------------------------------------------------------------------
(* The jobs follow the lifecycle of JobLifecycle.                          *)

\* What a step may do to a row, as the lifecycle sees it.
Moves(r, s) ==
  \/ s = r
  \/ r.state \in {"absent", "dead"} /\ s = NewRow
  \/ r.state = "waiting" /\ s = [state |-> "active", tries |-> r.tries + 1]
  \/ /\ r.state = "active" /\ s.tries = r.tries
     /\ s.state \in {"done", "dead"} \/ (s.state = "waiting" /\ r.tries < MaxAttempts)

RowsMove == \A j \in Job : Moves(job[j], job'[j])

\* A move of a row is a step of its lifecycle.
LEMMA MovesAreSteps ==
  ASSUME FormInv, FormInv', NEW j \in Job, Moves(job[j], job'[j])
  PROVE  \/ Lifecycle!Keep(j) \/ Lifecycle!Admit(j) \/ Lifecycle!Take(j) \/ Lifecycle!Retry(j)
         \/ Lifecycle!Settle(j) \/ Lifecycle!Revive(j) \/ Lifecycle!Forget(j)
<1> DEFINE r == job[j]
           s == job'[j]
<1>1. r \in JobRow /\ s \in JobRow /\ (r.state = "waiting" => r.tries < MaxAttempts)
  BY DEF FormInv, JobsFit
<1>2. MaxAttempts \in Nat \ {0}
  BY ServiceJobsAssumption
<1>3. CASE s = r
  BY <1>3 DEF Lifecycle!Keep
<1>4. CASE r.state = "absent" /\ s = NewRow
  BY <1>2, <1>4 DEF Lifecycle!Admit, Lifecycle!Becomes, NewRow
<1>5. CASE r.state = "dead" /\ s = NewRow
  BY <1>5 DEF Lifecycle!Revive, Lifecycle!Becomes, NewRow
<1>6. CASE r.state = "waiting" /\ s = [state |-> "active", tries |-> r.tries + 1]
  BY <1>1, <1>6 DEF Lifecycle!Take, Lifecycle!Becomes
<1>7. CASE r.state = "active" /\ s.tries = r.tries /\ s.state \in {"done", "dead"}
  BY <1>7 DEF Lifecycle!Settle, Lifecycle!Becomes
<1>8. CASE /\ r.state = "active" /\ s.tries = r.tries
           /\ s.state = "waiting" /\ r.tries < MaxAttempts
  BY <1>8 DEF Lifecycle!Retry, Lifecycle!Becomes
<1>9. QED  BY <1>3, <1>4, <1>5, <1>6, <1>7, <1>8 DEF Moves

LEMMA EnqueuedMoves ==
  ASSUME FormInv, NEW j \in Job, job[j].state = "absent", job' = Enqueued({j})
  PROVE  RowsMove
  BY DEF RowsMove, Moves, Enqueued, FormInv, JobsFit

LEMMA SettledMoves ==
  ASSUME FormInv, NEW j \in Job, job[j].state = "active",
         Settled(j, "done") \/ Failed(j)
  PROVE  RowsMove
<1>1. job[j] \in JobRow /\ \A i \in Job \ {j} : job'[i] = job[i]
  BY DEF Settled, Failed, FormInv, JobsFit
<1>2. CASE Settled(j, "done")
  <2>1. job'[j] = [job[j] EXCEPT !.state = "done"]
    BY <1>2 DEF Settled, FormInv, JobsFit
  <2>2. QED  BY <1>1, <2>1 DEF RowsMove, Moves, JobRow
<1>3. CASE Failed(j)
  <2>1. job'[j] = [job[j] EXCEPT !.state = IF job[j].tries < MaxAttempts THEN "waiting"
                                                                        ELSE "dead"]
    BY <1>3 DEF Failed, Settled, FormInv, JobsFit
  <2>2. QED  BY <1>1, <2>1 DEF RowsMove, Moves, JobRow
<1>4. QED  BY <1>2, <1>3

\* The outcome of a run is written to a job that is active.
LEMMA OutcomeMoves ==
  ASSUME FormInv, OneRunPerJob, NEW w \in Worker, run[w].job # None,
         IF run[w].late THEN UNCHANGED job
         ELSE Settled(run[w].job, "done") \/ Failed(run[w].job)
  PROVE  RowsMove
<1>1. CASE run[w].late
  BY <1>1 DEF RowsMove, Moves
<1>2. CASE ~run[w].late
  <2>1. run[w].job \in Job /\ job[run[w].job].state = "active"
    BY <1>2 DEF OneRunPerJob, FormInv, TypeOK, QueueTypeOK, Run
  <2>2. QED  BY <1>2, <2>1, SettledMoves
<1>3. QED  BY <1>1, <1>2

LEMMA IngestMoves ==
  ASSUME FormInv, JobsAppear, NEW e \in Event, IngestStep(e)
  PROVE  RowsMove
<1>1. CASE job' = job
  BY <1>1 DEF RowsMove, Moves
<1>2. CASE Dispatch(e) \/ DispatchToWindow(e)
  <2>1. e \in Job /\ job[e].state = "absent"
    BY <1>2, AlertingAssumption DEF Dispatch, DispatchToWindow, JobsAppear
  <2>2. job' = job \/ job' = Enqueued({e})
    BY <1>2 DEF Dispatch, DispatchToWindow
  <2>3. QED  BY <1>1, <2>1, <2>2, EnqueuedMoves
<1>3. QED
  BY <1>1, <1>2 DEF IngestStep, Store, DispatchNothing, DispatchLost, WindowEnds, EventAges, queue

LEMMA HandlerMovesRows ==
  ASSUME FormInv, OneRunPerJob, JobsAppear, NEW w \in Worker, HandlerStep(w)
  PROVE  RowsMove
<1>1. CASE job' = job
  BY <1>1 DEF RowsMove, Moves
<1>2. CASE QueueAlert(w)
  <2>1. ASSUME NEW d \in Delivery, Queues(w, d)
        PROVE  RowsMove
    <3>1. d \in Job /\ job[d].state = "absent" /\ job' = Enqueued({d})
      BY <2>1, AlertingAssumption DEF Queues, JobsAppear
    <3>2. QED  BY <3>1, EnqueuedMoves
  <2>2. QED  BY <1>1, <1>2, <2>1, AlertQueued
<1>3. CASE End(w)
  <2>1. run[w].job # None
    BY <1>3, ServiceJobsAssumption DEF End, FormInv, Fits
  <2>2. IF run[w].late THEN UNCHANGED job
        ELSE Settled(run[w].job, "done") \/ Failed(run[w].job)
    BY <1>3 DEF End, Returns, Throws
  <2>3. QED  BY <2>1, <2>2, OutcomeMoves
<1>4. QED
  BY <1>1, <1>2, <1>3
     DEF HandlerStep, ReadRules, Evaluate, RulesDone, ReadDelivery, Send, Settle, queue

LEMMA QueueMoves ==
  ASSUME FormInv, OneRunPerJob, QueueStep
  PROVE  RowsMove
<1>1. ASSUME NEW w \in Worker, Break(w) \/ Die(w) \/ Overrun(w)
      PROVE  RowsMove
  <2>1. /\ run[w].job # None
        /\ job' = job \/ (IF run[w].late THEN UNCHANGED job ELSE Failed(run[w].job))
    BY <1>1 DEF Break, Breaks, Die, Dies, Overrun, Overruns
  <2>2. CASE job' = job
    BY <2>2 DEF RowsMove, Moves
  <2>3. QED  BY <2>1, <2>2, OutcomeMoves
<1>2. ASSUME NEW w \in Worker, NEW j \in Job, Begin(w, j)
      PROVE  RowsMove
  BY <1>2 DEF Begin, Claim, RowsMove, Moves, FormInv, JobsFit
<1>3. ASSUME NEW j \in Job, Swept(j)
      PROVE  RowsMove
  BY <1>3, SettledMoves DEF Swept
<1>4. ASSUME NEW j \in Job, Requeued(j)
      PROVE  RowsMove
  BY <1>4 DEF Requeued, RowsMove, Moves, FormInv, JobsFit
<1>5. QED  BY <1>1, <1>2, <1>3, <1>4 DEF QueueStep

\* Whatever events, rules, retries, sweeps and requeues do, each job of
\* alerting moves as JobQueue promises: what enqueues one finds no row that
\* was done with its key already.
THEOREM AlertingFollowsLifecycle == Spec => UsesLifecycle
<1>1. Init => Lifecycle!Init
  BY DEF Init, QueueInit, NoRow, Lifecycle!Init
<1>2. ASSUME IInv, IInv', [Next]_vars
      PROVE  [Lifecycle!Next]_(Lifecycle!lifecycle)
  <2>1. RowsMove
    <3>1. CASE job' = job
      BY <3>1 DEF RowsMove, Moves
    <3>2. ASSUME NEW r \in Rule, RuleStep(r)
          PROVE  job' = job
      BY <3>2 DEF RuleStep, CreateRule, UpdateRule, ClearCooldowns, DeleteRule, queue
    <3>3. ASSUME NEW c \in Rule \X Issue, CooldownEnds(c)
          PROVE  job' = job
      BY <3>3 DEF CooldownEnds, queue
    <3>4. QED
      BY <1>2, <3>1, <3>2, <3>3, IngestMoves, HandlerMovesRows, QueueMoves
         DEF IInv, Next, vars, queue
  <2>2. QED  BY <1>2, <2>1, MovesAreSteps DEF IInv, RowsMove, Lifecycle!Next
<1>3. QED  BY <1>1, <1>2, Invariance, PTL DEF Spec, UsesLifecycle, Lifecycle!Spec
=============================================================================
