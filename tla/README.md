# A verification development of Metricmind

Metricmind (`src/`) answers business questions from a warehouse with governed
metric definitions. It is a Cloudflare Worker: stateless JavaScript handlers over
Postgres tables, any number of which run at once in different isolates. Nothing in
the program locks; what keeps handlers apart are a revision compared on save, a
unique key inserted before work begins, and the order of the awaits in each
handler. These TLA+ modules model that part of the program and the analyses it
computes, TLC checks them on small instances, and TLAPS proves every safety property
that TLC checks, and every refinement, for every size; liveness stays with TLC.

Paths are relative to the directory that holds `src/` and `tla/`; the program's
own sources are in `src/src/`.

## 1. The system

### Components, their state and operations

| Component | Files | State | Operations that change it |
|---|---|---|---|
| Semantic governance | `semantic-governance`, `semantic-audit`, `semantic-catalog`, `semantic-store`, `metadata-store`, `worker` | the catalog snapshot of an organization (metrics, versions with status and definition, validation runs, audit events) and its revision: `semantic_catalog_snapshots` | draft, submit, validate, verify, activate: load, compute, save under the revision |
| Scheduled monitoring | `monitoring-runner`, `monitoring-store`, `monitoring`, `notifications`, `app-worker` | `monitoring_rules`, `monitoring_runs`, `notification_deliveries` | hourly trigger, save a rule, claim a window, evaluate, send, record, complete |
| Investigations | `investigation-review`, `investigation-store`, `metadata-store`, `worker` | `investigation_records` | insert a record, append a review |
| Authentication, authorization | `auth`, `authorization` | memberships and tokens (written elsewhere) | token to principal, or a refusal |
| Rate limiting | `rate-limit` | buckets in the memory of each isolate | count a request, purge |
| Warehouse access | `postgres-adapter`, `executor` | one read-only transaction per query | connect, begin, set, query, rollback, end |
| Interpretation, planning, compilation | `interpreter`, `semantic-resolver`, `planner`, `time`, `semantic-compiler`, `compiler`, `sql-policy`, `semantic-validation` | none | pure functions from a question and a catalog to SQL |
| Investigation engine | `investigation-engine`, `-planner`, `-compiler` | none | queries, contributions, ranking, confidence |
| Results | `verifier`, `composer`, `freshness`, `data-source`, `pipeline` | none | check a result, word an answer |
| Advanced analytics | `funnel-analytics`, `retention-analytics`, `advanced-measures`, `advanced-routes` | none | validate specifications, compile, check results |
| Shell | `config`, `errors`, `observability`, `readiness`, `frontend`, `scripts/`, `supabase/` | none | configuration, logging, a page, build checks |

### How they interact

`app-worker` limits the rate and routes a request to the advanced, the monitoring
or the API worker. The API worker authenticates, loads the catalog **once**, and
every later step of the handler uses that snapshot: the semantic mutations change
a copy of it and save the copy; a question or an investigation resolves, plans and
compiles with it and waits for the warehouse. The scheduler is triggered by cron,
loads the catalogs of the rules' organizations, and asks the same pipeline. The
components share state only through the tables; no table is shared by two of the
three stateful components, except that everyone reads the catalog.

### What is hard

* **Interleaving.** A handler reads, awaits (a table, the warehouse for up to
  30 s, a notification provider), and writes. Anything may happen between.
* **Failure.** A handler can end at any await: an error nobody catches, an
  evicted isolate. Only what it has written remains.
* **Retries and repeats.** A provider may deliver and fail to answer; a trigger
  may come twice or overlap the last one. (That cron invocations may overlap is
  an assumption about the platform, made on the safe side: the unique key in
  `monitoring_runs` is there for it.)
* **Order.** Validation runs are stamped before their query and attached after
  it; monitoring runs are ordered by one clock and compared with another.

The full list of hazards, each at its line with the properties that guard it, is
in `PROJECT.json`.

### What makes each component correct

* *Governance*: one active version per metric, also in every candidate that is on
  its way to the store; no lost update; history never rewritten; the status of
  every version explained by the log; verification only on the latest run; runs
  only for catalogs they fit; what is committed permitted by the role its actor has, or
  had when the request began; the active versions compile (this one fails).
* *Monitoring*: a window is handled once; bounded attempts; a true history; a
  cooldown between alerts; every due rule evaluated, unless a provider never answers;
  a brief for every run; no starvation (the last two and the cooldown between
  *notifications* fail).
* *Investigations*: no record replaced by another; reviews only appended (fails
  for two reviewers at once).
* *Gate and questions*: never more than the limit for one token in one window of
  one isolate, no more than one window's buckets above the threshold (their number within
  a window has no bound in the code), removed members kept out; an answer names a version
  that was active in its lifetime, and a fresh one is fresh.
* *Adapter*: a client is ended on every path, the first error is the one told, and a
  result is read only in a read-only transaction with both its deadlines.
* *Periods*: whole local days that are over.
* *Investigations*: segments add up to the metric, a concentration explains the
  change, every observation and hypothesis cites evidence, all of it there (but for
  the hypothesis that nothing could be broken down), high confidence is earned, and every
  investigation ends.
* *Funnels and retention*: ordered steps within their windows; only mature cohorts.

## 2. Modules

| Module | Models | Checked with |
|---|---|---|
| `SemanticGovernance` | the catalog, its revision and the handlers of `worker.js` that change it | `MCSemanticGovernance` |
| `MetricRegistry` | what governance promises: each operation one atomic step | as `RegistrySpec` |
| `SemanticGovernanceProofs` | theorems about `SemanticGovernance` | TLAPS |
| `MonitoringScheduler` | the scheduler, its store, evaluation and delivery | `MCMonitoringScheduler` |
| `AlertLedger` | what monitoring promises of one window of one rule | as `LedgerSpec` |
| `MonitoringSchedulerProofs` | theorems about `MonitoringScheduler` | TLAPS |
| `InvestigationReviews` | investigation records and their reviews | `MCInvestigationReviews` |
| `InvestigationReviewsProofs` | theorems about it | TLAPS |
| `RequestGate` | the rate limit and authentication, with tokens and memberships | composed in `QuestionService` |
| `QuestionService` | a question from its arrival to its answer | `MCQuestionService` |
| `QuestionServiceProofs` | theorems about both | TLAPS |
| `WarehouseQuery` | what a query of the warehouse promises | as `PromiseSpec` |
| `WarehouseAdapter` | the transaction of `postgres-adapter.js`, await by await | composed in `AdvancedAnalytics` |
| `WarehouseAdapterProofs` | theorems about it | TLAPS |
| `LocalTime` | the periods of `time.js` | composed in `AdvancedAnalytics` |
| `LocalTimeProofs` | theorems about it | TLAPS |
| `InvestigationEngine` | an investigation of a count metric over the adapter | composed in `AdvancedAnalytics` |
| `AdvancedAnalytics` | funnels and retention, and all analytic handlers together | `MCAnalyses` |
| `AnalysesProofs` | theorems about them | TLAPS |
| `Induction` | least elements, induction and recursion over sets, sums, sorted sequences, for the proofs of the analyses | TLAPS |

### `SemanticGovernance`

`catalog` and `revision` are the row of `semantic_catalog_snapshots`; `request[r]`
is what handler `r` holds across an await; `clock` counts the readings of
`new Date()`. `role` is `organization_memberships`, and `overtaken` a history of which
requests in flight saw the role of their actor change. A handler is a few steps:

* `Authenticate` reads the role of the actor, once; `ChangeMembership` is an
  administrator who gives an actor another, at any moment. (Where memberships are
  embedded in tokens, the role is as old as the token; see `RequestGate`.)
* `CreateDraft`, `Submit`, `Verify`, `Activate` are permitted by the role that was
  read (`Authorized`), load the catalog and compute the candidate (`Drafted`, `Submitted`, `Verified`, `Activated`, one for each function
  of `semantic-governance.js` and `semantic-audit.js`, with its audit event), then
  wait in `saving`. Loading and computing is one step because nothing is awaited
  in between except the body of the request.
* `StartValidation` loads the catalog, compiles the preview (`Compiles`, the checks
  of `resolveDependencies` and the compiler on the catalog in which the version is
  the active one), reads the clock and waits for the warehouse;
  `FinishValidation` attaches the run to the *snapshot*.
* `Save` is `UPDATE ... WHERE revision = expected`, after `validateSemanticCatalog`.
* `Abandon` is every other end: a conflict (409), an error, an eviction.

A refused request writes nothing and is a stuttering step. A definition is reduced
to its entity, whether its source is allowlisted, and the two metrics of a ratio:
what the validator and the compiler can object to across versions. The other
fields (predicates, dimensions, hash) are checked within one version and never
change, so a candidate with a bad one is simply refused.
`getActiveMetricVersion` finds the only active version.

### `MonitoringScheduler`

`rules`, `claims`, `completions` and `deliveries` are the tables: `claims` the keys
of `monitoring_runs`, `completions` its completed rows in the order of
`completed_at`. `attempts` and `arrived` record the calls of providers and what
reached a destination, `listed` the destinations of the rule that claimed each window;
no action reads these three. `invocation[i]` is the local state of
`runMonitoringSchedules` and `runRule`: the queue `listDue` returned, the
evaluation, the destinations left. `Trigger` is `scheduled` and `listDue` (rules of
equal `next_run_at` in any order), `Claim` and `Skip` the insert and its unique
violation, `Evaluate` the answer, the latest triggered run and `evaluateAlert`,
`Send` one call of a provider (it may arrive and not be answered), `Record` and
`Complete` the two writes, `Finish` the brief. `Throw` is an evaluation that fails
and `Abort` an error or eviction at any await: nothing in the loop catches
either. Time is in whole hours; a window is a multiple of the hours of the cadence,
and hour 0 begins a day and a week. A rule may list a destination several times, as the
validator lets it: it is then told several times, with three attempts each, and what is
bounded is said of each time it is listed. `AlertLedger` is the promise for one window:
claimed once, for a list; each destination told at most as often as it is listed; closed
quietly when nobody was told, as an alert when all were. The store is the Postgres one. The ephemeral
one makes the scheduler return at once. The statement of `saveRule` names a
conflict target the schema lacks (see the hazards); `SaveRule` is the insert or
update it is meant to do.

### `InvestigationReviews`

`records` is the table `investigation_records` of one organization. An id is a
metric and a millisecond. `StartInvestigation` takes the id, `SaveInvestigation`
inserts after the queries (a used id is a conflict and ends in `Abandon`);
`ReviewInvestigation` loads the record and appends to the copy,
`UpdateInvestigation` writes the copy back, whatever the record has become.

### `RequestGate` and `QuestionService`

`buckets` is the map of `rate-limit.js` in the memory of one isolate, keyed by token
(with one organization, and one address for each user); `admitted` is a history of what
was let through in the window. `Count` is `memoryLimit`: the bucket is counted up,
also for a request it refuses, and with more than `MaxBuckets` buckets those of
earlier windows go. `Accepted` is the expiry with its skew and `ActiveMember` the
membership, from the table or from the claims of the token, by the `mode` of the
deployment. Time, new tokens and memberships are external actions.

A question is one action for each stretch between two awaits: `Arrive` (the limiter),
`Verify` and `Resolve` (`auth.js`), `Load` (the snapshot of the catalog), `Measure`
(the body and the clock), `Ask` (the freshness is in, the data is asked for), `Answer`.
Each may fail instead. The catalog is reduced to the number of the active version
and the warehouse to its latest ingestion; of a query only what `WarehouseQuery`
promises is used. What the words of a question mean is not modelled: any question
may be refused at `Ask`.

### `WarehouseQuery` and `WarehouseAdapter`

`call[c]` is the local state of `PostgresQueryAdapter.query` in handler `c`, `session[c]`
what the server holds for it, `warehouse` the events there are. `StartQuery` is the
checks and the client factory; `Proceed` an await that succeeds, `Read` the query, with
the rows of that moment, `AwaitFails` an await that throws, *whether or not the
server carried the statement out*; `Undo` is `rollbackQuietly` and `Close`
`closeQuietly`. `Classified` maps a Postgres code to a public error. Postgres
drops the transaction of a closed socket. `WarehouseQuery` is the promise: begun,
guarded by the transaction and both deadlines, read once, answered or failed, and
nothing left. `QueryState` maps the adapter to it; a session that is left maps to
`"leaked"`, which no promised query ever is.

### `LocalTime`

Instants are hours of UTC, dates are days, a zone is one offset until its clocks
change and another from then on. `ZonedMidnight` is the code's: midnight of UTC, less
what the zone is ahead *at that time*. `MidnightExact` and `ClocksSteady` say where
that is right.

### `InvestigationEngine` and `AdvancedAnalytics`

A `scenario` is the request and what it meets: events in the warehouse and on their
way, columns there and columns restricted, zone and clock. `investigation[c]` is what
the handler of `POST /v1/investigations` has gathered; one action takes the answer of
one query and starts the next: `Measured` (freshness), `Discovered` (columns;
with a required one missing, discovery ends early), `Counted` (events), then
`PlanInvestigation` (health, dimensions, period), `Baselined` (the metric in both
periods), `BrokenDown` (one dimension). Every query is a transaction of its own and
reads the warehouse of its own moment; `since` keeps what the baseline read. `Ranked` is
the segments in the order the code sorts them in. Of what
`composeInvestigation` writes, `Evidence`, `Observations`, `Hypotheses`, `Status` and `Confidence`
are operators over the gathered state, since nothing is awaited any more. What SQL
computes is given as sets and cardinalities of rows: `SegmentRows` is the grouping,
`Limited` its `ORDER BY` and `LIMIT`, with any choice among equals.

The comparison of two periods is grouped by period, so a period without rows has no
row in the result, and `verifyResult` refuses it (`Comparable`).

A preview of a funnel or a retention is one query: `BeginPreview` checks the request
and resolves its period, `Previewed` takes the rows. `Completing` follows the nested
`EXISTS` of `compileFunnel` step by step; `RetentionRows` the cohorts, the activity
and the maturity of `compileRetention`. The zone of a retention is the definition's,
its period is resolved in the body's: they are independent, as in the code.

## 3. Runs

`Bounds` are the constants of the .cfg. The definitions marked *Mutant* in the
modules are versions of an action with a plausible mistake; each property is known
to fail under one of them on the run's own instance (`PROJECT.json`, "mutants").

| Run | Question | Result |
|---|---|---|
| `SemanticLifecycle` | do racing handlers keep the catalog, and implement the registry? | holds |
| `SemanticRatios` | do the active versions always compile? | **no**: see 6 |
| `MonitoringOverlap` | overlapping, repeated and dying invocations and an edited rule: one claim, bounded attempts, a true history, the ledger? | holds |
| `MonitoringSerial` | are recorded alerts a cooldown apart when invocations follow one another? | holds |
| `MonitoringServed` | is every due rule evaluated by somebody? | holds, uninterrupted |
| `MonitoringRepeats` | can a destination be notified twice in a cooldown? | **yes** |
| `MonitoringBriefs` | does every run compose its brief? | **no** |
| `MonitoringStarves` | is every enabled, due rule claimed in the end? | **no** |
| `InvestigationRecords` | can an investigation replace another? | no |
| `InvestigationReviewsRace` | are reviews append-only? | **no**, of two at once one is lost |
| `QuestionPath` | does a question pass only within the limit and as a member, and is its answer governed and as fresh as it says? | holds |
| `Analyses` | do investigations, funnels and retentions, over an adapter any await of which may fail, keep the adapter's promise, say only what the data says, and end? | holds |

### Bounds, and why they are enough

* `SemanticLifecycle`: two handlers (each property about a race involves the one
  that saves and the one that held an older snapshot; the store compares with one
  number, so a third handler meets nothing new), three metrics (a ratio needs
  two others), two versions of each, six commits. Six are enough to draft, submit,
  validate, verify and activate one version *and* let another operation overtake
  any of them. The editor is made an approver and back while the first four commits
  are made (`MaxReform`), so that a draft, a query and a verification can each be
  overtaken. Clients ask about the second versions (`Asked`): those of the seed are
  active, and could only be validated again. Two readings of the clock make two validations race. The drafts
  are two ratios over each other's metrics and a malformed one. `MaxSkew = 0`:
  see 5. Handlers are symmetric.
* `SemanticRatios`: ten commits activate two ratios one after the other.
* `MonitoringOverlap`: two invocations, one rule edited between an hourly threshold
  with one destination and a two-hour rule that lists the same destination twice, so
  that a window can be asked for under both cadences, and who claims it decides how often
  the destination may be told; two hours. Lists of different destinations are covered by
  the proofs. `MonitoringSerial`: one invocation at a time,
  four hours with a cooldown of two, so that three alerts could be placed; a rule
  switched on and off. `MonitoringServed`: two rules and two invocations, each
  triggered again and again; the provider may stop answering.
* `MonitoringStarves`: a batch of 1 with 2 rules stands for 100 with 101. With
  `Batch = 2` the property holds.
* `InvestigationRecords`: two handlers, one metric, two milliseconds, two reviews
  each, two investigators and a viewer who must not get in.
* `QuestionPath`: two handlers of one user (a race is between one question and one
  change of what it reads, or between two counts of one bucket), two tokens, a limit
  of one request, one bucket before old ones are deleted, three readings of the clock
  in windows of two, so that the window, a token and the data can each lapse; two
  versions; all three modes. A bucket counts to two, one above the limit.
* `Analyses`: one handler, because handlers share nothing but the warehouse, and what
  another could do to it, more events, is an action of its own. About 1500
  scenarios: every subset of five rows of the two periods, with a sixth that may
  arrive at any moment, counted and counted distinctly; segments that moved against
  each other; every way of asking for dimensions with columns missing or restricted, limits in and
  out of range, a dimension asked for twice, and none at all to divide by;
  every subset of six events for funnels of three steps and of two equal ones; every
  subset of seven for daily and weekly retention in two zones, and a monthly one;
  every kind of period at five times in six zones (Kolkata, Los Angeles, New York
  and, twice, Sydney around a change of clocks, Amman where midnight comes twice).
  Three rows per result cut some breakdowns, 30 days refuse some months. Two codes of
  errors are one the adapter classifies by itself and one that is a timeout.

The bounds `MaxVersion`, `MaxRevision`, `MaxClock`, `MaxHour`, `MaxTime` and
`MaxReviews` cap counters that the program does not. Only the governance model can
stop (at `MaxRevision`), and the analyses, whose handler serves one request and ends:
only there is deadlock not checked.

## 4. Fairness

Governance and investigations are checked for safety under no fairness at all.
`FairSpec` gives each invocation weak fairness of `Work`, all its steps but the call of a
provider: the runtime continues a handler it has not evicted, and these awaits end,
because the store gives its queries a timeout of 5 s and the warehouse adapter bounds
connecting and querying. The call of a provider (`Send`, notifications.js:13) has no timeout, and
no fairness is assumed of it: `EveryDueRuleEvaluated`, checked under `FairSpec`, names
the provider that never answers as its one exception. `AnsweringSpec` adds that providers
answer or fail, and `HourlySpec` that the trigger keeps coming; only the runs that
show a violation use them, where an assumption more makes the result stronger:
`MonitoringBriefs` and `MonitoringStarves` fail even when every provider answers. No
fairness is assumed of `Throw` or `Abort` in themselves; `Throw` is one of the ways an
invocation may work, so a fragile rule may, and need not, throw.

The analyses have weak fairness of `Serve(c)`, the steps of a handler that has begun:
connecting and every statement have a timeout, in the client or in the server. (The import of
the driver and the closing of the client have none of their own; that they end is
assumed.) Nothing is assumed about an await succeeding. Questions are checked for safety only.

## 5. Proofs

### The catalog

`SemanticGovernanceProofs` proves for any metrics, entities, actors, handlers and
bounds (assumed is `MaxVersion \in Nat \ {0}`, and that memberships give roles and that
clients name versions):

| Theorem | States |
|---|---|
| `Invariant` | `Spec => []IInv`, the inductive invariant |
| `TypeCorrect` | `[]TypeOK` |
| `OneActive` | `[]OneActiveVersion`, of the store and of every candidate |
| `NoLost` | `[]NoLostUpdate` |
| `History` | `HistoryKept` |
| `RunsFit` | `RunsFitCatalog` |
| `RolesBind` | `RoleChangesBind`: a commit is permitted to its actor by the role it has then, or by the one it had when the request began |
| `AuditExplains` | `[]AuditExplainsStatus` |
| `VerifiedOnNewest` | a version becomes verified only while its newest run passed, whatever the clocks |
| `RunsInOrder` | `[]RunsChronological`, when clocks agree (`MaxSkew = 0`) |
| `VerifiedOnLatest` | `VerifiedOnLatestRun`, when clocks agree |
| `ImplementsRegistry` | `RegistrySpec`, when clocks agree: the handlers implement `MetricRegistry` |

**The argument.** `TypeOK` and `NoLostUpdate` are not inductive: a save writes what
a handler has held, so one must know how that relates to the store *now*. `IInv`
says for each handler that the revision it read is at most the current one, that
its catalog is valid, and that **while the two revisions are equal** the snapshot
of a validation is the stored catalog and a candidate is one operation (`Step`)
away from it. A save changes the revision, so for every other handler the premise
becomes false; for the saving one the comparison makes it true. Hence every commit
is a `Step` of the stored catalog (`CommitStep`), and the action properties follow
from lemmas about single operations (`StepValid`, `StepAudit`, `StepHistory`,
`StepRuns`), none of which mentions concurrency. Roles need an
invariant of their own: a request that no change of role overtook still has the right
it was given, and a candidate ends with an event of the actor who asked for it
(`RoleInv`). Nothing relates the author of a version with its approver: an editor who
is made an approver may verify and activate its own draft, in the code and in the
model.

*The log.* `AuditExplainsStatus` computes a status from the last event that moved a
version and from whether a version of its metric was activated since. Both are about
the whole log, but an event appended at its end either is the last one or leaves the
answer as it was (`StatusAfter`). So it suffices that each operation sets exactly the
status its event says, and on activation exactly the active version of the same
metric to `superseded` (`ExplainedKept`). `validated` moves nothing.

*The clocks.* The runs of a version are stamped before their query and attached after
it. `TimesInv` says that a catalog, stored or held, has its runs in order and in the
past, **and** that what a validating handler has read is older than the time it
stamped. When its save succeeds, nobody attached a run in between, so its run is newer
than all it is put behind. This needs clocks that agree. The newest run is then the last
one, and so the verdict of the registry. Each commit is one step of the registry
(`DraftRefines` to `ValidateRefines`) and everything else a stutter. `VerifiedOnNewest`
is what remains if clocks disagree.

### Scheduled monitoring

`MonitoringSchedulerProofs`, for any rules, destinations, invocations and bounds
(`RuleRecordsAssumption`, that a rule lists one to five destinations, different or not, and
`BoundsAssumption`: finitely many rules, since `listDue` puts them in an order):

| Theorem | States |
|---|---|
| `SchedulerTypeCorrect` | `[]TypeOK` |
| `AttemptsAreBounded` | `[]AttemptsBounded`: three calls at most for each time the destination is listed |
| `DeliveryHistoryIsTrue` | `[]DeliveriesTrue`: what is recorded as delivered arrived, and every record has its calls behind it |
| `SchedulerKeepsLedger` | `LedgerSpec`: the scheduler implements `AlertLedger` |
| `RecordedAlertsAreSpaced` | `[]AlertsSpaced`, when invocations come one after another (`Serial`) |

**The argument.** Invocations share no lock; the unique key of `monitoring_runs` does
the work. `SchedulerInv` says that a window nobody claimed has left no trace
(`Untouched`), that two invocations at work are on different windows (`Apart`), and that
each has done to its own window exactly what its stage says (`OnTrack`). Since a destination
may be listed several times, what is said are *balances*: for each destination, what
was told and what is left is what was listed (`Remaining`); the calls are those the records
stand for, three for each dead letter and one to three for each delivery, and those of
the destination at hand (`Accounted`); before the first call nobody was told or tried
(`Untold`), and before the run is closed all that are listed were told if it alerted, and
nobody if it did not (`Concluded`). That the balances move by one with each call and
each record rests on a few lemmas about counting in sequences (`TimesAppend`, `TimesTail`,
`RecordedAppend`). A step
touches one window (`OnlyOf`), which is nobody else's (`Elsewhere`), so each action is
proved for its own invocation alone (`WorkStep`, `RestStep`). A window whose worker died
stays claimed and is touched by nobody again: that is why neither `Abort` nor a
repeated trigger can add a fourth attempt to a notification. It is also why such an alert is lost.

The ledger is a function of claims, completions and deliveries; `Claim`, `Record` and
`Complete` are its steps and all others stutter. That a destination is told no more often
than it is listed, and that a run is closed as an alert only when all were told, is the
balance of `Remaining`.

The cooldown reads one run only, the one completed last. That it stands for all of them
needs that completions are in the order of the times they were evaluated at, and that
the clock waits for an invocation (`Chronological`, `OnTime`); both are false of
invocations that overlap, which is why the theorem assumes `Serial`, and the run
`MonitoringSerial` has one invocation.

### Investigation records

`InvestigationReviewsProofs`, for any metrics, actors, handlers and bounds
(`BoundAssumption`): `ReviewsTypeCorrect` and `InvestigationsAreKept`
(`InvestigationsKept`). An update writes back a whole record, read earlier. What it
needs to be harmless to the investigation, though not to the reviews, is `CopyKept`: the
copy a handler holds has the requester the stored record has *now*, and its id is in
use, so that no insert can come between.

### The warehouse adapter

`WarehouseAdapterProofs`, for any callers, codes and events:

| Theorem | States |
|---|---|
| `AdapterInvariant`, `AdapterTypeCorrect` | the inductive invariant, and the types |
| `ClientsAreReleased` | `[]ClientsReleased` |
| `FirstErrorIsThrown` | `[]FirstErrorThrown` |
| `AdapterKeepsPromise` | `PromiseSpec`: the adapter implements `WarehouseQuery` |

While nothing has failed the session is exactly as guarded as the awaits so far made
it (`SessionAt`), and there is a client to end as soon as there may be a session. After
a failure what the server holds is unknown, since the statement that failed may have
been carried out: then the promise rests on `Close` and not on `Undo`. What is thrown
is what went wrong first. The refinement has one lemma for each kind of step, each naming
the abstract step it makes or that it is a stutter.

### Periods

`LocalTimeProofs`: `MidnightIsLocal` (the code's midnight is a local one exactly when
the offset it used is the one in force there), `MidnightIsOver` (where clocks change by an
hour, and not about it, the midnight of a date that has begun is local and not in the
future), `PrecedingAbuts`.

### The analyses

`AnalysesProofs`, for any handlers, events, dimensions and requests:

| Theorem | States |
|---|---|
| `AnalysesUseAdapter` | every behaviour of the analyses is one of the adapter |
| `AnalysesReleaseClients`, `AnalysesTellFirstError`, `AnalysesKeepPromise` | so its promises hold of them |
| `AnalysesTypeCorrect` | `[]TypeOK` |
| `PeriodsAreComplete` | `[]PeriodsComplete` |
| `HighConfidenceIsEarned` | `[]HighConfidenceEarned` |
| `AlwaysHolding` | `[]Holding`, the inductive invariant of an investigation |
| `SegmentsAlwaysReconcile` | `[]SegmentsReconcile` |
| `ClaimsAlwaysCite` | `[]ClaimsCiteEvidence` |
| `ConcentrationAlwaysExplains` | `[]ConcentrationExplains` |
| `FunnelsAreOrdered` | `[]FunnelOrdered` |
| `RetentionIsMatured` | `[]RetentionMatured` |

The assumptions are on the constants, and TLC evaluates them on the instance:
`DataSourceAssumption` (finitely many events with a time and a segment for every
dimension), `ScenarioAssumption` (requests as the routes admit them, clocks that change by an
hour, a calendar that begins before the month before the first date anybody asks about) and
`CalendarAssumption` (months are at least 28 days apart).

**The argument.** Three invariants say what a handler has at each stage. `Gathering`: its
period ends with dates that have begun, and past discovery its columns and freshness
are known. `Holding`: the metric is *of the rows `since`*, and each breakdown is of rows
that hold those, since nothing leaves the warehouse; a query under way has read
them too (`HasRead`). `Showing`: what a preview shows was computed of the rows its
query read, for a valid request. The rest is about what is computed:

* *Segments add up.* The rows of a period are partitioned by their segments, so the sum
  of the counts is the count of all (`CountsAdd`), in whatever order they are listed
  (`SumFunctionAdds`). A breakdown exceeds the metric by rows that arrived since, at most.
* *A concentration explains.* The named segment has half of the *total* movement, while
  the claim is about the *net* one. The net movement is at most the total
  (`SumsCompare`), so half of the total is half of the net; and no other segment has
  more, since it and the named one are two terms of the same sum (`TwoOfSum`). The
  hypothesis may come from another breakdown of the dimension than the one it is
  compared with; with nothing arriving and nothing cut both have the same segments
  (`WholeKept`, `SameWhileQuiet`), as `Ranked` is determined by the set.
* *Claims cite.* However many there are and whichever six are kept, every hypothesis
  is one of five kinds (`HypothesesFrom`), and each cites at least one piece of evidence of the
  same investigation (`HypothesisCites`), as each observation does (`ObservationsCite`). One
  kind, that the segmentation is insufficient, cites the breakdowns there are, and so
  nothing when there are none: the property excepts exactly that.
* *Funnels.* A row completes step `k` exactly when it ends a chain of `k` ordered rows of one
  user, each within the window of the one before: by induction on the steps (`ChainsReach`).
* *Retention.* A cohort is mature when the calendar counts more periods than are asked
  for. Counted months lie in different blocks of 28 days, so that many of them take as many
  times 28 days (`MonthsTakeTime`), and truncating the end goes back, never forward.

### `Induction`

The provers take no lemma with an operator as its parameter. Here what is to be shown of
all numbers (or all finite sets) is stated as membership in a *set* of numbers
(`NaturalInduction`, `FiniteInduction`), which follows from the well-foundedness of `<` and
of strict inclusion. From it come the existence of sums over finite sets and of the
functions `Completing` defines by recursion (`Recursion`), that a finite set can be listed
in any order that is total and transitive (`SortedSequence`), and what `Min`, `Max`, `SumFunction` and
`FlattenSeq` of the community modules return.

### Questions

`QuestionServiceProofs`, for any users, handlers and bounds (`GateAssumption`,
`ServiceAssumption`): `ServiceTypeCorrect`, `RateIsLimited`, `MemoryIsBounded`,
`AnswersAreGoverned`, `FreshIsFresh`, `RemovedAreKeptOut`. The limit is not inductive:
what is needed is that what was admitted in this window is counted in a bucket *of
this window* that is still there (`GateInv`), and that is why a deletion of such
a bucket would break it. That a removed member is kept out needs that a token which
says "member" was issued to one, so that whoever is none any more lapsed since. For
handlers, `Holds` relates what each has read to the present, stage by stage.

### Only model-checked

Two liveness properties, `EveryDueRuleEvaluated` and `EveryAnalysisEnds`: the proof system does
not reason about fairness and `ENABLED`. Every other property of a passing run is stated
by a theorem. Three of the theorems about the catalog need clocks that agree, and
`RecordedAlertsAreSpaced` needs invocations that follow one another: the properties are false
otherwise, and the runs make the same assumptions.

### A caveat

`VerifiedOnLatestRun` deserves its caveat. The code takes for the latest run the
one with the newest `createdAt`, stamped by the isolate before the query. Two
isolates whose clocks disagree, or two runs in one millisecond, can make an
older run the latest. The run and `VerifiedOnLatest` assume neither happens;
`VerifiedOnNewest` assumes nothing, and says only that the newest *stamp* passed.

## 6. What disagrees with the documentation

1. **Nested ratios become active** (`SemanticRatios`). Activation never looks at the
   ratios that use the metric, nor compiles the version again. While all metrics are
   counts, m1 = m2/m3 and m2 = m1/m3 are drafted, validated (each preview compiles)
   and verified; then one is activated after the other, and from then on questions
   about m1 and m2 fail with `NESTED_RATIO_UNSUPPORTED`.
2. **Repeated notifications** (`MonitoringRepeats`). The cooldown reads completed
   runs, and a notification leaves before its run is completed.
3. **No brief** (`MonitoringBriefs`). A rule that throws ends the invocation; the
   rules behind it are left and the claim stays `running`.
4. **Starvation** (`MonitoringStarves`). `next_run_at` is never advanced, so the first
   100 rules are selected each hour.
5. **Lost reviews** (`InvestigationReviewsRace`). `update` compares nothing.

`PROJECT.json` quotes the lines of the documents. Three more, found while modelling
the analyses and excepted in the statement of a property or in an action:

6. **Nothing is not compared with nothing.** `src/docs/PHASE3.md:50` says "A zero net
   movement produces `status: no_change`"; a count without rows in either period
   gives `INCOMPLETE_COMPARISON` instead, and so does one that fell to zero, which one
   would most like to have investigated (`Comparable`).
7. **Midnights an hour off.** Where clocks change between midnight of UTC and local
   midnight, `zonedMidnight` is an hour off (Sydney), and where midnight comes twice it may
   be either (Amman); `PeriodsComplete` excepts such dates. The default zone has none.
8. **The preceding period is equal in hours, not in days.** Across a change of clocks it
   begins at 23:00 or 01:00.

## 7. Plan

Done: 1. `SemanticGovernance` with `MetricRegistry` and its proofs.
2. `MonitoringScheduler` with `AlertLedger`. 3. `InvestigationReviews`.

4. `WarehouseAdapter` with `WarehouseQuery`, `RequestGate`, and their proofs.
5. The algorithms of the analyses: `LocalTime`, `InvestigationEngine`,
`AdvancedAnalytics`, over the adapter. 6. `QuestionService`: an answer is governed by
the catalog it was read from. The proofs of monitoring and of investigation records.
7. The proofs of the log, of the order of runs and of the registry; `Induction`, and with
it the proofs of what the analyses compute.

Next, in this order:

8. *Proofs.* What `TimesInv` becomes under a bounded skew, that is, by how much an older
   run can be the latest; that `Ranked` keeps the segments that moved most.
9. *Model.* Investigations of ratio metrics; the arithmetic of the alert kinds in
   `monitoring.js`.

Runs stay few: one for each question, with small instances that each finish in a
few minutes.

## 8. Not modelled, and why

SQL text and its policy (`sql-policy.js`, the text produced by the compilers), what the
words of a question mean (`semantic-resolver.js`, `interpreter.js`), the wording of
answers, the page, logging, configuration and the read-only routes: they keep no
state and their correctness is about strings. Row level security and the tables of
the migrations that no code under `src/src/` writes. The arithmetic of the alert
kinds is a free Boolean for now. Ratio metrics in investigations, and the previews of
measures and joins. The bindings (`BindingMonitoringStore`, `RATE_LIMITER`, `EXECUTOR`
and the others) delegate to a host object that is another program.

## Running

    tlc -workers 2 -config SemanticLifecycle.cfg MCSemanticGovernance.tla
    tlc -workers 2 -config MonitoringOverlap.cfg MCMonitoringScheduler.tla
    tlc -workers 2 -config InvestigationRecords.cfg MCInvestigationReviews.tla
    tlc -workers 2 -config QuestionPath.cfg MCQuestionService.tla
    tlc -workers 2 -config Analyses.cfg MCAnalyses.tla
    tlapm SemanticGovernanceProofs.tla
    tlapm AnalysesProofs.tla

and likewise for the other .cfg files, each with the MC module of its component, and
for the other modules of proofs.
