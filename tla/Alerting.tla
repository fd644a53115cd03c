------------------------------- MODULE Alerting -------------------------------
(***************************************************************************)
(* Issue alerts, from the event that may trigger one to its delivery.      *)
(*                                                                         *)
(* The ingest request that stored an event enqueues the post-ingest job    *)
(* once its transaction is committed.  That job runs the active rules of   *)
(* the project: in one transaction per rule it claims the cooldown of the  *)
(* rule for the issue and queues a delivery with its job.  The delivery    *)
(* job sends the alert and records how that ended.                         *)
(*                                                                         *)
(* Time is abstracted to what the statements compare: a cooldown is hot    *)
(* until cooldown_minutes have passed, an event is recent until it leaves  *)
(* the threshold window, and the job of a 5 s window is held until its end.*)
(***************************************************************************)
EXTENDS ServiceJobs, FiniteSets

CONSTANTS
  Event, Issue, Rule,
  Delivery,     \* identifiers of delivery rows
  TriggerSets,  \* the sets of triggers a rule may be given
  Threshold,    \* the threshold of every rule that has one
  MaxTurns      \* bound: cooldowns that end and rules that change

Trigger == {"new_issue", "regression", "event_threshold"}

ASSUME AlertingAssumption ==
  /\ Job = Event \union Delivery
  /\ Event \intersect Delivery = {}
  /\ None \notin Issue \union Rule \union Event
  /\ TriggerSets \subseteq SUBSET Trigger
  /\ Threshold \in Nat \ {0}
  /\ MaxTurns \in Nat

VARIABLES
  event,     \* each event, on its way through ingest
  recent,    \* stored events within the threshold window
  held,      \* window jobs that are not due yet
  rule,      \* alert_rules
  clearing,  \* rules updated whose cooldowns are still to be deleted
  cooldown,  \* alert_issue_cooldowns
  delivery,  \* alert_deliveries
  local,     \* what each handler run has read
  turns,     \* cooldowns ended and rules changed so far
  queued,    \* history: alerts since the cooldown last let one through
  overran    \* history: jobs of which a run outlived its timeout

ingest == <<event, recent, held>>
rules == <<rule, clearing, turns>>
alerts == <<cooldown, delivery, queued>>
vars == <<queue, ingest, rules, alerts, local, overran>>

EventRow == [stage : {"new", "stored", "answered", "lost"},
             issue : Issue \union {None},
             kind : Trigger \union {"plain"},
             job : Event \union {None}]
RuleRow == [state : {"none", "on", "off", "deleted"}, on : SUBSET Trigger]
DeliveryRow == [status : {"none", "pending", "retrying", "success", "failed"},
                rule : Rule \union {None}, issue : Issue \union {None},
                event : Event \union {None}]
Local == [pc : {"start", "rules", "claim", "send", "settle", "end"},
          todo : SUBSET Rule,
          on : [Rule -> SUBSET Trigger],
          cold : SUBSET Rule,
          rule : Rule \union {None},
          verdict : {"none", "retrying", "success", "failed"}]

Start == [pc |-> "start", todo |-> {}, on |-> [r \in Rule |-> {}], cold |-> {},
          rule |-> None, verdict |-> "none"]

TypeOK ==
  /\ QueueTypeOK
  /\ event \in [Event -> EventRow]
  /\ recent \subseteq Event /\ held \subseteq Event
  /\ rule \in [Rule -> RuleRow]
  /\ clearing \subseteq Rule
  /\ cooldown \in [Rule \X Issue -> {"none", "hot", "cool"}]
  /\ delivery \in [Delivery -> DeliveryRow]
  /\ local \in [Worker -> Local]
  /\ turns \in 0..MaxTurns
  /\ queued \in [Rule \X Issue -> Nat]
  /\ overran \subseteq Job

Init ==
  /\ QueueInit
  /\ event = [e \in Event |-> [stage |-> "new", issue |-> None, kind |-> "plain", job |-> None]]
  /\ recent = {} /\ held = {}
  /\ rule = [r \in Rule |-> [state |-> "none", on |-> {}]]
  /\ clearing = {}
  /\ cooldown = [c \in Rule \X Issue |-> "none"]
  /\ delivery = [d \in Delivery |->
                   [status |-> "none", rule |-> None, issue |-> None, event |-> None]]
  /\ local = [w \in Worker |-> Start]
  /\ turns = 0
  /\ queued = [c \in Rule \X Issue |-> 0]
  /\ overran = {}

-----------------------------------------------------------------------------
(* Ingest.                                                                 *)

EventsOf(i) == {e \in Event : event[e].issue = i}

\* The transaction of an event, which decides whether it created its issue
\* or reopened it; IssueTracking has the details.
Store(e, i, kind) ==
  /\ event[e].stage = "new"
  /\ (kind = "new_issue") <=> (EventsOf(i) = {})
  /\ event' = [event EXCEPT ![e] = [stage |-> "stored", issue |-> i, kind |-> kind,
                                    job |-> None]]
  /\ recent' = recent \union {e}
  /\ UNCHANGED <<queue, held, rules, alerts, local, overran>>

Answers(e, j) == event' = [event EXCEPT ![e].stage = "answered", ![e].job = j]

\* Mutant: the answer is sent before the job is enqueued.
DispatchAfterAnswer(e) ==
  /\ event[e].stage = "stored" /\ event[e].kind # "plain"
  /\ Answers(e, None)
  /\ UNCHANGED <<queue, recent, held, rules, alerts, local, overran>>

\* A new or regressed issue gets a job of its own at once.
Dispatch(e) ==
  /\ event[e].stage = "stored" /\ event[e].kind # "plain"
  /\ Answers(e, e)
  /\ job' = Enqueued({e})
  /\ UNCHANGED <<run, faults, recent, held, rules, alerts, local, overran>>

\* Any other event only matters to threshold rules: the window its issue has
\* open takes it, or it opens one.
DispatchToWindow(e) ==
  /\ event[e].stage = "stored" /\ event[e].kind = "plain"
  /\ LET open == {h \in held : event[h].issue = event[e].issue}
     IN \/ \E h \in open : Answers(e, h) /\ UNCHANGED <<job, held>>
        \/ /\ open = {}
           /\ Answers(e, e)
           /\ job' = Enqueued({e})
           /\ held' = held \union {e}
  /\ UNCHANGED <<run, faults, recent, rules, alerts, local, overran>>

\* hasThresholdRules, as cached with the key, was false.
DispatchNothing(e) ==
  /\ event[e].stage = "stored" /\ event[e].kind = "plain"
  /\ Answers(e, None)
  /\ UNCHANGED <<queue, recent, held, rules, alerts, local, overran>>

\* The process dies, or the enqueue fails, after the commit.  An SDK that
\* sends the event again gets the answer of a duplicate.
DispatchLost(e) ==
  /\ event[e].stage = "stored"
  /\ Fault
  /\ event' = [event EXCEPT ![e].stage = "lost"]
  /\ UNCHANGED <<job, run, recent, held, rules, alerts, local, overran>>

WindowEnds(e) ==
  /\ e \in held
  /\ held' = held \ {e}
  /\ UNCHANGED <<queue, event, recent, rules, alerts, local, overran>>

EventAges(e) ==
  /\ e \in recent
  /\ recent' = recent \ {e}
  /\ UNCHANGED <<queue, event, held, rules, alerts, local, overran>>

-----------------------------------------------------------------------------
(* Rules.                                                                  *)

Turn == turns < MaxTurns /\ turns' = turns + 1

CreateRule(r, on) ==
  /\ rule[r].state = "none"
  /\ rule' = [rule EXCEPT ![r] = [state |-> "on", on |-> on]]
  /\ UNCHANGED <<queue, ingest, clearing, turns, alerts, local, overran>>

\* updateRule writes the rule, and then deletes its cooldowns.
UpdateRule(r, state, on) ==
  /\ rule[r].state \in {"on", "off"}
  /\ Turn
  /\ rule' = [rule EXCEPT ![r] = [state |-> state, on |-> on]]
  /\ clearing' = clearing \union {r}
  /\ UNCHANGED <<queue, ingest, alerts, local, overran>>

ClearCooldowns(r) ==
  /\ r \in clearing
  /\ clearing' = clearing \ {r}
  /\ cooldown' = [c \in Rule \X Issue |-> IF c[1] = r THEN "none" ELSE cooldown[c]]
  /\ queued' = [c \in Rule \X Issue |-> IF c[1] = r THEN 0 ELSE queued[c]]
  /\ UNCHANGED <<queue, ingest, rule, turns, delivery, local, overran>>

\* The cooldowns of a deleted rule stay behind.
DeleteRule(r) ==
  /\ rule[r].state \in {"on", "off"}
  /\ Turn
  /\ rule' = [rule EXCEPT ![r] = [state |-> "deleted", on |-> {}]]
  /\ UNCHANGED <<queue, ingest, clearing, alerts, local, overran>>

CooldownEnds(c) ==
  /\ cooldown[c] = "hot"
  /\ Turn
  /\ cooldown' = [cooldown EXCEPT ![c] = "cool"]
  /\ queued' = [queued EXCEPT ![c] = 0]
  /\ UNCHANGED <<queue, ingest, rule, clearing, delivery, local, overran>>

-----------------------------------------------------------------------------
(* The post-ingest job.                                                    *)

At(w, J, pc) == run[w].job \in J /\ local[w].pc = pc
IssueOf(w) == event[run[w].job].issue
Goes(w, pc) == local' = [local EXCEPT ![w].pc = pc]

\* handleEvent reads the active rules and the clock once.
ReadRules(w) ==
  /\ At(w, Event, "start")
  /\ local' = [local EXCEPT ![w] =
       [Start EXCEPT !.pc = "rules",
                     !.todo = {r \in Rule : rule[r].state = "on"},
                     !.on = [r \in Rule |-> rule[r].on],
                     !.cold = {r \in Rule : cooldown[<<r, IssueOf(w)>>] = "cool"}]]
  /\ UNCHANGED <<queue, ingest, rules, alerts, overran>>

\* countRecentEvents and matchingTriggerTypes: the event that is handled
\* decides but for the threshold, which looks at the table.
Matches(w, r) ==
  \/ event[run[w].job].kind \in local[w].on[r]
  \/ /\ "event_threshold" \in local[w].on[r]
     /\ Cardinality(EventsOf(IssueOf(w)) \intersect recent) >= Threshold

Evaluate(w, r) ==
  /\ At(w, Event, "rules") /\ r \in local[w].todo
  /\ local' = [local EXCEPT
       ![w].todo = local[w].todo \ {r},
       ![w].pc = IF Matches(w, r) THEN "claim" ELSE "rules",
       ![w].rule = IF Matches(w, r) THEN r ELSE None]
  /\ UNCHANGED <<queue, ingest, rules, alerts, overran>>

\* Mutant: the upsert without its setWhere, which always updates.
CooldownFreeOnConflict(w, c) == cooldown[c] \in {"none", "hot", "cool"}

\* The upsert of claimCooldown writes a row when there is none, or when the
\* row has been cold since before the clock was read.
CooldownFree(w, c) ==
  \/ cooldown[c] = "none"
  \/ cooldown[c] = "cool" /\ c[1] \in local[w].cold

\* What every other run has read of this cooldown is no longer so.
Forget(w, c) ==
  local' = [v \in Worker |->
    IF v = w THEN [local[w] EXCEPT !.pc = "rules", !.rule = None]
    ELSE IF run[v].job \in Event /\ event[run[v].job].issue = c[2]
    THEN [local[v] EXCEPT !.cold = local[v].cold \ {c[1]}]
    ELSE local[v]]

\* Mutant: the cooldown commits on its own and the statement after it fails.
QueueAlertApart(w) ==
  /\ At(w, Event, "claim")
  /\ LET c == <<local[w].rule, IssueOf(w)>>
     IN /\ CooldownFree(w, c)
        /\ cooldown' = [cooldown EXCEPT ![c] = "hot"]
  /\ Breaks(w)
  /\ local' = [local EXCEPT ![w] = Start]
  /\ UNCHANGED <<delivery, queued, ingest, rules, overran>>

\* One transaction per rule: the cooldown, the delivery and its job.
QueueAlert(w) ==
  /\ At(w, Event, "claim")
  /\ LET c == <<local[w].rule, IssueOf(w)>>
     IN IF CooldownFree(w, c)
        THEN \E d \in Delivery :
               /\ delivery[d].status = "none"
               /\ delivery' = [delivery EXCEPT ![d] =
                    [status |-> "pending", rule |-> c[1], issue |-> c[2],
                     event |-> run[w].job]]
               /\ job' = Enqueued({d})
               /\ cooldown' = [cooldown EXCEPT ![c] = "hot"]
               /\ queued' = [queued EXCEPT ![c] = queued[c] + 1]
               /\ Forget(w, c)
        ELSE Goes(w, "rules") /\ UNCHANGED <<job, alerts>>
  /\ UNCHANGED <<run, faults, ingest, rules, overran>>

RulesDone(w) ==
  /\ At(w, Event, "rules") /\ local[w].todo = {}
  /\ Goes(w, "end")
  /\ UNCHANGED <<queue, ingest, rules, alerts, overran>>

-----------------------------------------------------------------------------
(* The delivery job.                                                       *)

Unsettled == {"pending", "retrying"}
RuleOf(d) == rule[delivery[d].rule]

SettlesAs(w, verdict) ==
  local' = [local EXCEPT ![w] = [Start EXCEPT !.pc = "settle", !.verdict = verdict]]

\* Mutant: a retried job that does not look at the status of its delivery.
ReadDeliveryAgain(w) ==
  /\ At(w, Delivery, "start")
  /\ Goes(w, "send")
  /\ UNCHANGED <<queue, ingest, rules, alerts, overran>>

\* A delivery that is settled is left alone; without its rule it has failed.
ReadDelivery(w) ==
  /\ At(w, Delivery, "start")
  /\ LET d == run[w].job
     IN IF delivery[d].status \notin Unsettled THEN Goes(w, "end")
        ELSE IF RuleOf(d).state = "deleted" THEN SettlesAs(w, "failed")
        ELSE Goes(w, "send")
  /\ UNCHANGED <<queue, ingest, rules, alerts, overran>>

\* The answer of the destination, or none before the timeout.
Verdict(w, outcome) ==
  IF outcome = "sent" THEN "success"
  ELSE IF outcome = "transient" /\ run[w].attempt < MaxAttempts THEN "retrying"
  ELSE "failed"

Send(w, outcome) ==
  /\ At(w, Delivery, "send")
  /\ SettlesAs(w, Verdict(w, outcome))
  /\ UNCHANGED <<queue, ingest, rules, alerts, overran>>

\* The update selects by id alone.
Settle(w) ==
  /\ At(w, Delivery, "settle")
  /\ delivery' = [delivery EXCEPT ![run[w].job].status = local[w].verdict]
  /\ Goes(w, "end")
  /\ UNCHANGED <<queue, ingest, rules, cooldown, queued, overran>>

-----------------------------------------------------------------------------
(* How runs begin and end.                                                 *)

Resets(w) == local' = [local EXCEPT ![w] = Start]
Outside == <<ingest, rules, alerts>>

Begin(w, j) ==
  /\ j \notin held
  /\ Claim(w, j)
  /\ UNCHANGED <<Outside, local, overran>>

\* Mutant: the handler does not throw when the delivery is to be retried.
EndQuietly(w) ==
  /\ local[w].pc = "end"
  /\ Returns(w)
  /\ Resets(w)
  /\ UNCHANGED <<Outside, overran>>

\* A delivery that is to be retried ends with AlertDeliveryRetryError.
End(w) ==
  /\ local[w].pc = "end"
  /\ IF local[w].verdict = "retrying" THEN Throws(w) ELSE Returns(w)
  /\ Resets(w)
  /\ UNCHANGED <<Outside, overran>>

Break(w) == Breaks(w) /\ Resets(w) /\ UNCHANGED <<Outside, overran>>
Die(w) == Dies(w) /\ Resets(w) /\ UNCHANGED <<Outside, overran>>
Overrun(w) ==
  /\ Overruns(w)
  /\ overran' = overran \union {run[w].job}
  /\ UNCHANGED <<Outside, local>>

IngestStep(e) ==
  \/ \E i \in Issue, kind \in {"new_issue", "regression", "plain"} : Store(e, i, kind)
  \/ Dispatch(e) \/ DispatchToWindow(e) \/ DispatchNothing(e) \/ DispatchLost(e)
  \/ WindowEnds(e) \/ EventAges(e)

RuleStep(r) ==
  \/ \E on \in TriggerSets : CreateRule(r, on)
  \/ \E state \in {"on", "off"}, on \in TriggerSets : UpdateRule(r, state, on)
  \/ ClearCooldowns(r)
  \/ DeleteRule(r)

HandlerStep(w) ==
  \/ ReadRules(w)
  \/ \E r \in Rule : Evaluate(w, r)
  \/ QueueAlert(w)
  \/ RulesDone(w)
  \/ ReadDelivery(w)
  \/ \E outcome \in {"sent", "refused", "transient"} : Send(w, outcome)
  \/ Settle(w)
  \/ End(w)

QueueStep ==
  \/ \E w \in Worker : Break(w) \/ Die(w) \/ Overrun(w)
  \/ \E w \in Worker, j \in Job : Begin(w, j)
  \/ \E j \in Job : (Swept(j) \/ Requeued(j)) /\ UNCHANGED <<Outside, local, overran>>

Next ==
  \/ \E e \in Event : IngestStep(e)
  \/ \E r \in Rule : RuleStep(r)
  \/ \E c \in Rule \X Issue : CooldownEnds(c)
  \/ \E w \in Worker : HandlerStep(w)
  \/ QueueStep

Spec == Init /\ [][Next]_vars

-----------------------------------------------------------------------------
(* Fairness.  An ingest request goes on, windows close, workers are        *)
(* restarted, poll, sweep and get on with what they run.  Nothing obliges  *)
(* anyone to send an event, to touch a rule or to requeue a job.           *)

Fairness ==
  /\ \A e \in Event :
       /\ WF_vars(Dispatch(e) \/ DispatchToWindow(e) \/ DispatchNothing(e))
       /\ WF_vars(WindowEnds(e))
  /\ \A w \in Worker : WF_vars(HandlerStep(w))
  /\ \A j \in Job :
       /\ WF_vars(\E w \in Worker : Begin(w, j))
       /\ WF_vars(Swept(j) /\ UNCHANGED <<Outside, local, overran>>)

FairSpec == Spec /\ Fairness

-----------------------------------------------------------------------------
(* What alerting promises.                                                 *)

\* However many events, retries and workers handle an issue at once, a rule
\* queues one alert for it until its cooldown has passed or its rule was
\* edited.
OneAlertPerCooldown == \A c \in Rule \X Issue : queued[c] <= 1

\* A cooldown never silences a rule that has not spoken: where one is held,
\* the alert that started it was queued, with its job.
CooldownHasAlert ==
  \A c \in Rule \X Issue :
    cooldown[c] # "none" =>
      \E d \in Delivery :
        delivery[d].rule = c[1] /\ delivery[d].issue = c[2] /\ job[d].state # "absent"

\* A delivery that is not settled still has a job to settle it, or one that
\* failed for good and shows among the failed jobs.  It is not settled by a
\* run that outlived its timeout alone, which the code does not guard.
UnsettledHasJob ==
  \A d \in Delivery \ overran :
    (delivery[d].status \in Unsettled) => job[d].state \in {"waiting", "active", "dead"}

\* While runs stay within their timeout, a settled delivery stays as it is,
\* whatever is retried, swept or requeued.
SettledIsFinal ==
  [][\A d \in Delivery \ overran :
       delivery[d].status \in {"success", "failed"} => delivery'[d] = delivery[d]]_vars

\* The post-ingest and delivery jobs keep to the lifecycle of the queue.
UsesLifecycle == Lifecycle!Spec

\* The event that created or reopened an issue raises the alert of every rule
\* that stays active for it, unless its ingest request died before it could
\* enqueue the job, or the job failed for good.
Asked(e, r) == rule[r].state = "on" /\ event[e].kind \in rule[r].on
EventuallyAlerted ==
  \A e \in Event, r \in Rule :
    []((event[e].stage = "stored" /\ []Asked(e, r)) =>
         <>(\/ event[e].stage = "lost" \/ job[e].state = "dead"
            \/ cooldown[<<r, event[e].issue>>] # "none"))

\* Every alert that was queued ends sent or failed, unless its job failed for
\* good or a run of it outlived its timeout.
EveryAlertSettles ==
  \A d \in Delivery :
    (delivery[d].status \in Unsettled)
      ~> (delivery[d].status \notin Unsettled \/ job[d].state = "dead" \/ d \in overran)

-----------------------------------------------------------------------------
(* What a comment of the code says and the code does not do.               *)

\* "never both or neither": one event raises one alert of a rule at most.
OneAlertPerEvent ==
  \A c, d \in Delivery :
    (c # d /\ delivery[c].status # "none" /\ delivery[d].status # "none")
      => <<delivery[c].rule, delivery[c].event>> # <<delivery[d].rule, delivery[d].event>>
=============================================================================
