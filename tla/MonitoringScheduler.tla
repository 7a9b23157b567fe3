-------------------------- MODULE MonitoringScheduler --------------------------
(***************************************************************************)
(* Scheduled monitoring: the hourly trigger of the Worker evaluates the    *)
(* due alert rules of all organizations and notifies their destinations    *)
(* (src/monitoring-runner.js with its store, monitoring.js and             *)
(* notifications.js).                                                      *)
(*                                                                         *)
(* An invocation awaits at every store, warehouse and provider call.  It   *)
(* may overlap the next one, may be triggered twice, and may end anywhere: *)
(* nothing in the loop catches an exception, and an isolate may vanish.    *)
(* Only what is in the store survives, and only the unique key of claim    *)
(* keeps two invocations from evaluating the same window.                  *)
(*                                                                         *)
(* Modelled with a persistent store, whose rule ids are unique over all    *)
(* organizations; with an ephemeral one the scheduler skips every run.     *)
(***************************************************************************)
EXTENDS Integers, SequencesExt

CONSTANTS
    Rules,         \* ids of the monitoring rules
    RuleRecords,   \* what an administrator may save under an id
    Destinations,  \* ids of verified destinations
    Invocations,   \* invocations of the scheduler that may overlap
    Batch,         \* rows listDue returns at most (LIMIT 100)
    Fragile,       \* rules whose evaluation may throw
    Aborts,        \* whether the store may fail or the isolate be evicted
    MaxHour        \* bound: the last hour of the clock

ASSUME AbortsAssumption == Aborts \in BOOLEAN

ASSUME BoundsAssumption == IsFiniteSet(Rules) /\ Batch \in Nat /\ MaxHour \in Nat

VARIABLES
    clock,         \* the hour of the latest trigger
    rules,         \* monitoring_rules: the record saved under each id
    claims,        \* monitoring_runs: the <<rule, window>> that have a row
    completions,   \* its completed rows, in the order of completed_at
    deliveries,    \* notification_deliveries
    attempts,      \* calls of a provider for each <<rule, window, destination>>
    arrived,       \* notifications that reached their destination
    listed,        \* history: the destinations of the rule that claimed each window
    invocation     \* what each invocation holds between two of its awaits

vars == <<clock, rules, claims, completions, deliveries, attempts, arrived, listed, invocation>>

Hours == 0..MaxHour

\* Delivery is tried at most this often (deliverNotification).
MaxAttempts == 3

\* Of a rule we keep its kind ("missing_data" or any business alert), the hours
\* its cadence spans, its cooldown in hours, its destinations in their order (one
\* may be listed several times), and the two columns listDue selects on.
RuleRecord ==
    [kind: {"business", "missing_data"}, period: Nat \ {0}, cooldown: Nat,
     destinations: Seq(Destinations), enabled: BOOLEAN, nextRun: Nat]

ASSUME RuleRecordsAssumption ==
    RuleRecords \subseteq {rule \in RuleRecord : Len(rule.destinations) \in 1..5}

Due == [id: Rules, rule: RuleRecords]

\* An invocation works on the head of its queue; alert is its evaluation, left
\* the destinations still to tell, attempt the next call of the provider for
\* the first of them, status the result of the last.
Invocation ==
    [pc: {"idle", "looping", "running", "sending", "recording", "completing", "done", "failed"},
     now: Hours, queue: Seq(Due), alert: BOOLEAN, left: Seq(Destinations),
     attempt: 1..MaxAttempts, status: {"delivered", "dead_letter"}]

Started(pc, now, queue) ==
    [pc |-> pc, now |-> now, queue |-> queue, alert |-> FALSE, left |-> <<>>,
     attempt |-> 1, status |-> "delivered"]

TypeOK ==
    /\ clock \in Hours
    /\ rules \in [Rules -> RuleRecords]
    /\ claims \subseteq Rules \X Hours
    /\ completions \in
         Seq([rule: Rules, window: Hours, alert: BOOLEAN, at: Hours, cooldown: Nat])
    /\ deliveries \in
         Seq([rule: Rules, window: Hours, destination: Destinations,
              status: {"delivered", "dead_letter"}])
    /\ attempts \in [Rules \X Hours \X Destinations -> Nat]
    /\ arrived \subseteq [rule: Rules, window: Hours, destination: Destinations, at: Hours]
    /\ listed \in [Rules \X Hours -> Seq(Destinations)]
    /\ invocation \in [Invocations -> Invocation]

-----------------------------------------------------------------------------
(***************************************************************************)
(* Evaluation.                                                             *)
(***************************************************************************)
\* monitoringWindow: the start of the window of the rule that holds the hour.
WindowStart(rule, now) == now - (now % rule.period)

\* The runs of a rule that alerted.
Triggered(id) ==
    {k \in DOMAIN completions : completions[k].rule = id /\ completions[k].alert}

\* Mutant: the order of the triggered runs is forgotten.
FirstTriggered(id) == {k \in Triggered(id) : \A j \in Triggered(id) : k <= j}

\* The one that completed last, if there is any.
LatestTriggered(id) == {k \in Triggered(id) : \A j \in Triggered(id) : j <= k}

IsCoolingDown(id, rule, now) ==
    /\ rule.cooldown # 0
    /\ \E k \in LatestTriggered(id) : now - completions[k].at < rule.cooldown

\* evaluateAlert: a rule alerts when its condition is met (of a missing_data
\* rule: the freshness is one of its statuses), a business rule on fresh data
\* only, and neither inside its cooldown.
Triggers(id, rule, now, fresh, met) ==
    /\ met
    /\ rule.kind = "business" => fresh
    /\ ~IsCoolingDown(id, rule, now)

-----------------------------------------------------------------------------
Init ==
    /\ clock = 0
    /\ rules \in [Rules -> RuleRecords]
    /\ claims = {}
    /\ completions = <<>>
    /\ deliveries = <<>>
    /\ attempts = [key \in Rules \X Hours \X Destinations |-> 0]
    /\ arrived = {}
    /\ listed = [w \in Rules \X Hours |-> <<>>]
    /\ invocation = [i \in Invocations |-> Started("idle", 0, <<>>)]

\* listDue: enabled rules whose next_run_at has come, the earliest first, of
\* equals any first, Batch at most.  Nothing but saveRule moves next_run_at.
DueLists(now) ==
    LET due == {id \in Rules : rules[id].enabled /\ rules[id].nextRun <= now}
        InOrder(ids) == \A j, k \in DOMAIN ids :
                            j < k => rules[ids[j]].nextRun <= rules[ids[k]].nextRun
    IN {[k \in 1..Min({Batch, Len(ids)}) |-> [id |-> ids[k], rule |-> rules[ids[k]]]] :
            ids \in {order \in SetToSeqs(due) : InOrder(order)}}

\* The hourly trigger: it may come twice, and before the last one has ended.
Trigger(i) ==
    /\ invocation[i].pc \in {"idle", "done", "failed"}
    /\ \E now \in {clock, clock + 1} :
           /\ now \in Hours
           /\ clock' = now
           /\ \E queue \in DueLists(now) :
                  invocation' = [invocation EXCEPT ![i] = Started("looping", now, queue)]
    /\ UNCHANGED <<rules, claims, completions, deliveries, attempts, arrived, listed>>

\* saveRule, by POST /v1/monitoring/rules: insert or replace.
SaveRule(id, rule) ==
    /\ rules' = [rules EXCEPT ![id] = rule]
    /\ UNCHANGED <<clock, claims, completions, deliveries, attempts, arrived, listed, invocation>>

Window(i) == <<Head(invocation[i].queue).id,
               WindowStart(Head(invocation[i].queue).rule, invocation[i].now)>>

\* Mutant: the insert finds no conflict.
ClaimAnyway(i) ==
    /\ invocation[i].pc = "looping"
    /\ invocation[i].queue # <<>>
    /\ claims' = claims \cup {Window(i)}
    /\ listed' = [listed EXCEPT ![Window(i)] = Head(invocation[i].queue).rule.destinations]
    /\ invocation' = [invocation EXCEPT ![i].pc = "running"]
    /\ UNCHANGED <<clock, rules, completions, deliveries, attempts, arrived>>

\* claim: INSERT INTO monitoring_runs succeeds.
Claim(i) ==
    /\ invocation[i].pc = "looping"
    /\ invocation[i].queue # <<>>
    /\ Window(i) \notin claims
    /\ claims' = claims \cup {Window(i)}
    /\ listed' = [listed EXCEPT ![Window(i)] = Head(invocation[i].queue).rule.destinations]
    /\ invocation' = [invocation EXCEPT ![i].pc = "running"]
    /\ UNCHANGED <<clock, rules, completions, deliveries, attempts, arrived>>

\* claim: unique violation 23505, continue with the next rule.
Skip(i) ==
    /\ invocation[i].pc = "looping"
    /\ invocation[i].queue # <<>>
    /\ Window(i) \in claims
    /\ invocation' = [invocation EXCEPT ![i].queue = Tail(@)]
    /\ UNCHANGED <<clock, rules, claims, completions, deliveries, attempts, arrived, listed>>

\* The answer of the warehouse is in; the latest triggered run is read and the
\* rule, as it was when listDue returned it, evaluated.
Evaluate(i) ==
    /\ invocation[i].pc = "running"
    /\ LET due == Head(invocation[i].queue) IN
       \E fresh, met \in BOOLEAN :
           LET alert == Triggers(due.id, due.rule, invocation[i].now, fresh, met) IN
           invocation' = [invocation EXCEPT
               ![i].pc = IF alert THEN "sending" ELSE "completing",
               ![i].alert = alert,
               ![i].left = IF alert THEN due.rule.destinations ELSE <<>>,
               ![i].attempt = 1]
    /\ UNCHANGED <<clock, rules, claims, completions, deliveries, attempts, arrived, listed>>

\* Mutant: the result of a failed last call is taken for a delivery.
SendOptimistic(i) ==
    /\ invocation[i].pc = "sending"
    /\ LET id == Window(i)[1]
           window == Window(i)[2]
           destination == Head(invocation[i].left)
           Outcome(status) == [invocation EXCEPT ![i].pc = "recording", ![i].status = status]
       IN \E reaches, answers \in BOOLEAN :
             /\ answers => reaches
             /\ attempts' = [attempts EXCEPT ![<<id, window, destination>>] = @ + 1]
             /\ arrived' = IF ~reaches THEN arrived
                           ELSE arrived \cup {[rule |-> id, window |-> window,
                                    destination |-> destination, at |-> invocation[i].now]}
             /\ invocation' = IF answers THEN Outcome("delivered")
                              ELSE IF invocation[i].attempt # MaxAttempts
                              THEN [invocation EXCEPT ![i].attempt = @ + 1]
                              ELSE Outcome("delivered")
    /\ UNCHANGED <<clock, rules, claims, completions, deliveries, listed>>

\* Mutant: one call too many.
SendOnceMore(i) ==
    /\ invocation[i].pc = "sending"
    /\ LET id == Window(i)[1]
           window == Window(i)[2]
           destination == Head(invocation[i].left)
           Outcome(status) == [invocation EXCEPT ![i].pc = "recording", ![i].status = status]
       IN \E reaches, answers \in BOOLEAN :
             /\ answers => reaches
             /\ attempts' = [attempts EXCEPT ![<<id, window, destination>>] = @ + 1]
             /\ arrived' = IF ~reaches THEN arrived
                           ELSE arrived \cup {[rule |-> id, window |-> window,
                                    destination |-> destination, at |-> invocation[i].now]}
             /\ invocation' = IF answers THEN Outcome("delivered")
                              ELSE IF invocation[i].attempt <= MaxAttempts
                              THEN [invocation EXCEPT ![i].attempt = @ + 1]
                              ELSE Outcome("dead_letter")
    /\ UNCHANGED <<clock, rules, claims, completions, deliveries, listed>>

\* One call of the provider: the notification reaches its destination or not,
\* and a call that reached it may still answer an error.
Send(i) ==
    /\ invocation[i].pc = "sending"
    /\ LET id == Window(i)[1]
           window == Window(i)[2]
           destination == Head(invocation[i].left)
           Outcome(status) == [invocation EXCEPT ![i].pc = "recording", ![i].status = status]
       IN \E reaches, answers \in BOOLEAN :
             /\ answers => reaches
             /\ attempts' = [attempts EXCEPT ![<<id, window, destination>>] = @ + 1]
             /\ arrived' = IF ~reaches THEN arrived
                           ELSE arrived \cup {[rule |-> id, window |-> window,
                                    destination |-> destination, at |-> invocation[i].now]}
             /\ invocation' = IF answers THEN Outcome("delivered")
                              ELSE IF invocation[i].attempt < MaxAttempts
                              THEN [invocation EXCEPT ![i].attempt = @ + 1]
                              ELSE Outcome("dead_letter")
    /\ UNCHANGED <<clock, rules, claims, completions, deliveries, listed>>

\* recordDelivery, then the next destination.
Record(i) ==
    /\ invocation[i].pc = "recording"
    /\ deliveries' = Append(deliveries,
           [rule |-> Window(i)[1], window |-> Window(i)[2],
            destination |-> Head(invocation[i].left), status |-> invocation[i].status])
    /\ invocation' = [invocation EXCEPT
           ![i].left = Tail(@),
           ![i].attempt = 1,
           ![i].pc = IF Tail(invocation[i].left) = <<>> THEN "completing" ELSE "sending"]
    /\ UNCHANGED <<clock, rules, claims, completions, attempts, arrived, listed>>

\* Mutant: the loop returns after its first record.
CompleteReturning(i) ==
    /\ invocation[i].pc = "completing"
    /\ completions' = Append(completions,
           [rule |-> Window(i)[1], window |-> Window(i)[2], alert |-> invocation[i].alert,
            at |-> invocation[i].now, cooldown |-> Head(invocation[i].queue).rule.cooldown])
    /\ invocation' = [invocation EXCEPT
           ![i].pc = "looping",
           ![i].queue = <<>>,
           ![i].alert = FALSE]
    /\ UNCHANGED <<clock, rules, claims, deliveries, attempts, arrived, listed>>

\* complete: the run and its evaluation are stored.
Complete(i) ==
    /\ invocation[i].pc = "completing"
    /\ completions' = Append(completions,
           [rule |-> Window(i)[1], window |-> Window(i)[2], alert |-> invocation[i].alert,
            at |-> invocation[i].now, cooldown |-> Head(invocation[i].queue).rule.cooldown])
    /\ invocation' = [invocation EXCEPT
           ![i].pc = "looping",
           ![i].queue = Tail(@),
           ![i].alert = FALSE]
    /\ UNCHANGED <<clock, rules, claims, deliveries, attempts, arrived, listed>>

\* The loop is over: the brief is composed and returned.
Finish(i) ==
    /\ invocation[i].pc = "looping"
    /\ invocation[i].queue = <<>>
    /\ invocation' = [invocation EXCEPT ![i] = Started("done", 0, <<>>)]
    /\ UNCHANGED <<clock, rules, claims, completions, deliveries, attempts, arrived, listed>>

\* The evaluation throws (the question has no answer, the baseline is too
\* short, the value is no number): nothing catches it, so the claim stays and
\* the rest of the queue is left.
Throw(i) ==
    /\ invocation[i].pc = "running"
    /\ Head(invocation[i].queue).id \in Fragile
    /\ invocation' = [invocation EXCEPT ![i] = Started("failed", 0, <<>>)]
    /\ UNCHANGED <<clock, rules, claims, completions, deliveries, attempts, arrived, listed>>

\* The store or an adapter throws, or the isolate is evicted, at any await.
Abort(i) ==
    /\ Aborts
    /\ invocation[i].pc \notin {"idle", "done", "failed"}
    /\ invocation' = [invocation EXCEPT ![i] = Started("failed", 0, <<>>)]
    /\ UNCHANGED <<clock, rules, claims, completions, deliveries, attempts, arrived, listed>>

\* What an invocation does by itself, and its calls of a provider.
Work(i) ==
    Claim(i) \/ Skip(i) \/ Evaluate(i) \/ Throw(i) \/ Record(i) \/ Complete(i) \/ Finish(i)

Progress(i) == Work(i) \/ Send(i)

Next ==
    \/ \E i \in Invocations : Trigger(i) \/ Progress(i) \/ Abort(i)
    \/ \E id \in Rules, rule \in RuleRecords : SaveRule(id, rule)

Spec == Init /\ [][Next]_vars

\* An invocation that is not evicted goes on: the statements of the store and
\* the queries of the warehouse have a timeout.  The call of a provider has
\* none, so nothing is said of its return.
FairSpec == Spec /\ \A i \in Invocations : WF_vars(Work(i))

\* Moreover each provider answers, or fails, every call.
AnsweringSpec == FairSpec /\ \A i \in Invocations : WF_vars(Send(i))

\* And the trigger comes again and again.
HourlySpec == AnsweringSpec /\ \A i \in Invocations : WF_vars(Trigger(i))

-----------------------------------------------------------------------------
(***************************************************************************)
(* Properties.                                                             *)
(***************************************************************************)

\* How often a sequence holds an element.
Times(list, element) == Cardinality({m \in DOMAIN list : list[m] = element})

\* What is known of a window w = <<rule, window>>: its calls of a destination,
\* the records of their outcomes, whether a notification arrived, and whether the
\* window is completed.
Tries(w, destination) == attempts[<<w[1], w[2], destination>>]

Recorded(w, destination, status) ==
    Times(deliveries, [rule |-> w[1], window |-> w[2],
                       destination |-> destination, status |-> status])

Arrived(w, destination) ==
    \E n \in arrived : <<n.rule, n.window, n.destination>> = <<w[1], w[2], destination>>

Completed(w) == \E k \in DOMAIN completions : <<completions[k].rule, completions[k].window>> = w

\* The invocation has the rule in its queue, for this window of it.
Queued(i, id, window) ==
    \E k \in DOMAIN invocation[i].queue :
        LET due == invocation[i].queue[k] IN
        due.id = id /\ WindowStart(due.rule, invocation[i].now) = window

\* Delivery retries are bounded to three attempts: for one window of one rule a
\* destination is called three times at most, for each time the rule that
\* claimed the window lists it, however many invocations overlap, are repeated
\* or die, and whatever the rule is edited to.
AttemptsBounded ==
    \A w \in Rules \X Hours, destination \in Destinations :
        Tries(w, destination) <= MaxAttempts * Times(listed[w], destination)

\* The delivery history is true: what it calls delivered has arrived, and behind
\* its records of a destination stand three calls for each dead letter and one
\* for each delivery.
DeliveriesTrue ==
    \A w \in Rules \X Hours, destination \in Destinations :
        /\ Recorded(w, destination, "delivered") > 0 => Arrived(w, destination)
        /\ Tries(w, destination) >= MaxAttempts * Recorded(w, destination, "dead_letter")
                                     + Recorded(w, destination, "delivered")

\* The cooldown holds between recorded alerts: of two completed runs of a rule
\* that alerted, the later is at least its cooldown after the earlier, even
\* when invocations died in between.  (Invocations that overlap break it.)
AlertsSpaced ==
    \A j, k \in DOMAIN completions :
        /\ j < k /\ completions[j].rule = completions[k].rule
        /\ completions[j].alert /\ completions[k].alert
        => completions[k].at - completions[j].at >= completions[k].cooldown

\* Cooldowns and window keys prevent repeated notifications: a destination is
\* not notified of a rule twice within the cooldown of the rule.
NoRepeatInCooldown ==
    \A n, o \in arrived :
        /\ n.rule = o.rule /\ n.destination = o.destination
        /\ n.at < o.at
        => o.at - n.at >= rules[n.rule].cooldown

\* Every run of the scheduler produces a brief: an invocation that begins to
\* evaluate rules ends by composing it.
EveryRunBriefed ==
    \A i \in Invocations : invocation[i].pc = "running" ~> invocation[i].pc = "done"

\* Every rule an invocation has in its queue is evaluated for its window, by that
\* invocation or by the one that claimed the window first.  The one exception is
\* a provider that never answers: the invocation that calls it stops there, and
\* the rule, if it is in the queue of this invocation, may be left for good.
EveryDueRuleEvaluated ==
    \A id \in Rules, window \in Hours :
        (\E i \in Invocations : Queued(i, id, window))
        ~> \/ Completed(<<id, window>>)
           \/ \E i \in Invocations : [](Queued(i, id, window) /\ invocation[i].pc = "sending")

\* The Worker runs hourly and claims a window of each rule: once nobody edits
\* the rules any more, each one that is enabled and due is claimed at last.
EveryRuleClaimed ==
    \A saved \in [Rules -> RuleRecords] : \A id \in Rules :
        <>[](rules = saved /\ saved[id].enabled /\ saved[id].nextRun <= clock)
            => <>(\E window \in Hours : <<id, window>> \in claims)

-----------------------------------------------------------------------------
\* The ledger the scheduler promises to keep.
Alerted(w) == \E k \in DOMAIN completions :
    <<completions[k].rule, completions[k].window>> = w /\ completions[k].alert

WindowState(w) ==
    IF w \notin claims THEN "unclaimed"
    ELSE IF ~Completed(w) THEN "running"
    ELSE IF Alerted(w) THEN "alerted" ELSE "quiet"

Ledger == INSTANCE AlertLedger WITH
    Windows <- Hours,
    Lists <- {rule.destinations : rule \in RuleRecords},
    window <- [w \in Rules \X Hours |-> WindowState(w)]

LedgerSpec == Ledger!Spec
=============================================================================
