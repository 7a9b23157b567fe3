---------------------------- MODULE AdvancedAnalytics ----------------------------
(***************************************************************************)
(* POST /v1/advanced/{funnels,retention}/preview: advanced-routes.js with  *)
(* funnel-analytics.js and retention-analytics.js.  A preview resolves a   *)
(* period, compiles one query, and returns what it computes.  What the SQL *)
(* computes is given here as functions of the rows of the events table.    *)
(***************************************************************************)
EXTENDS InvestigationEngine

VARIABLE preview    \* what each handler holds between two of its awaits

\* The request of a funnel: the names of the steps, and how many days a user
\* may take from one to the next.
\*   [type |-> "funnel", period, steps, window]
\* The request of a retention: who enters a cohort, and who returns.
\*   [type |-> "retention", period, cohort, returning, grain, periods, zone]
\* The zone is the definition's own: the period is resolved in the body's.

\* users: of a funnel, for each step; cohorts: of a retention, its rows.
Preview ==
    [pc: {"idle", "previewing", "previewed", "failed"}, period: Period,
     users: Seq(Nat),
     cohorts: SUBSET [start: Int, index: Nat, retained: Nat, size: Nat]]

Previewing(pc, period) ==
    [pc |-> pc, period |-> period, users |-> <<>>, cohorts |-> {}]

NoPeriod == [start |-> 0, end |-> 0]

PreviewTypeOK == preview \in [Callers -> Preview]

-----------------------------------------------------------------------------
(***************************************************************************)
(* Funnels.                                                                *)
(***************************************************************************)
ValidFunnel == Len(Request.steps) \in 2..6 /\ Request.window \in 1..90

\* Mutant: the step that follows may be another user's.
FollowsAnyone(rows, before, k, period) ==
    {row \in rows :
        /\ row.name = Request.steps[k] /\ row.at < period.end
        /\ \E p \in before : p.at <= row.at /\ row.at < p.at + 24 * Request.window}

\* The EXISTS of step k: by the same user, not before the last step, within the
\* window of it, and before the period ends.
Follows(rows, before, k, period) ==
    {row \in rows :
        /\ row.name = Request.steps[k] /\ row.at < period.end
        /\ \E p \in before :
              p.user = row.user /\ p.at <= row.at /\ row.at < p.at + 24 * Request.window}

\* The rows that complete the first k steps.
Completing(rows, period) ==
    LET reach[k \in 1..Len(Request.steps)] ==
            IF k = 1
            THEN {row \in rows : row.name = Request.steps[1] /\ Within(row.at, period)}
            ELSE Follows(rows, reach[k - 1], k, period)
    IN reach

\* A user enters with any first step that leads on, and is counted once.
FunnelUsers(rows, period) ==
    LET reach == Completing(rows, period)
        Enters[k \in 1..Len(Request.steps)] == Cardinality({row.user : row \in reach[k]})
    IN Enters

-----------------------------------------------------------------------------
(***************************************************************************)
(* Retention.                                                              *)
(***************************************************************************)
ValidRetention ==
    Request.grain \in {"day", "week", "month"} /\ Request.periods \in 1..24

\* DATE_TRUNC of a local time.
Truncated(t) ==
    LET date == LocalDate(Request.zone, t) IN
    CASE Request.grain = "day" -> date
      [] Request.grain = "week" -> StartOfWeek(date)
      [] Request.grain = "month" -> StartOfMonth(date)

MonthsBetween(from, to) == Cardinality({first \in Months : from < first /\ first <= to})

\* period_index.
Index(cohort, activity) ==
    CASE Request.grain = "day" -> activity - cohort
      [] Request.grain = "week" -> (activity - cohort) \div 7
      [] Request.grain = "month" -> MonthsBetween(cohort, activity)

\* Mutant: a cohort whose last period has only begun is mature.
MatureEarly(cohort, period) ==
    Index(cohort, Truncated(period.end)) >= Request.periods

\* c.cohort_start < DATE_TRUNC(grain, end) - the periods.
Mature(cohort, period) ==
    Index(cohort, Truncated(period.end)) > Request.periods

RetentionRows(rows, period) ==
    LET Users(name) == {row.user : row \in {r \in rows : r.name = name /\ Within(r.at, period)}}
        First(user) == Min({row.at : row \in {r \in rows :
                            r.name = Request.cohort /\ r.user = user /\ Within(r.at, period)}})
        Cohort(user) == Truncated(First(user))
        Members(start) == {user \in Users(Request.cohort) : Cohort(user) = start}
        Active(user, start, index) ==
            \E row \in rows :
                /\ row.name = Request.returning /\ row.user = user /\ Within(row.at, period)
                /\ Truncated(row.at) >= start /\ Index(start, Truncated(row.at)) = index
        All == {[start |-> start, index |-> index,
                 retained |-> Cardinality({user \in Members(start) : Active(user, start, index)}),
                 size |-> Cardinality(Members(start))] :
                   start \in {s \in {Cohort(user) : user \in Users(Request.cohort)} :
                                 Mature(s, period)},
                   index \in 0..Request.periods}
        Found == {row \in All : row.retained > 0}
        Before(row) == {r \in Found : \/ r.start < row.start
                                      \/ r.start = row.start /\ r.index < row.index}
    IN {row \in Found : Cardinality(Before(row)) < MaximumRows}

-----------------------------------------------------------------------------
(***************************************************************************)
(* The handler.                                                            *)
(***************************************************************************)

\* The period is resolved and the query compiled, or the request refused.
BeginPreview(c) ==
    /\ Request.type \in {"funnel", "retention"}
    /\ preview[c].pc = "idle"
    /\ LET period == ResolvePeriod(Request.period, scenario.zone, scenario.now)
           valid == /\ WithinLimit(period)
                    /\ IF Request.type = "funnel" THEN ValidFunnel ELSE ValidRetention
       IN \/ /\ valid
             /\ preview' = [preview EXCEPT ![c] = Previewing("previewing", period)]
             /\ StartQuery(c)
          \/ /\ ~valid
             /\ preview' = [preview EXCEPT ![c] = Previewing("failed", NoPeriod)]
             /\ UNCHANGED adapterVars
    /\ Rest

\* verifyFunnelResult, verifyRetentionResult.
Previewed(c) ==
    /\ preview[c].pc = "previewing" /\ Ready(c)
    /\ LET period == preview[c].period
           rows == call[c].read
       IN \/ /\ Answered(c)
             /\ preview' = [preview EXCEPT
                    ![c].pc = "previewed",
                    ![c].users = IF Request.type = "funnel" THEN FunnelUsers(rows, period) ELSE <<>>,
                    ![c].cohorts = IF Request.type = "retention"
                                   THEN RetentionRows(rows, period) ELSE {}]
          \/ Failed(c) /\ preview' = [preview EXCEPT ![c] = Previewing("failed", NoPeriod)]
    /\ UNCHANGED adapterVars
    /\ Rest

-----------------------------------------------------------------------------
(***************************************************************************)
(* The analytic handlers together.                                         *)
(***************************************************************************)
vars == <<warehouse, session, call, scenario, arriving, investigation, preview>>

TypeOK == EngineTypeOK /\ PreviewTypeOK

Init ==
    /\ scenario \in Scenarios
    /\ warehouse = scenario.events
    /\ arriving = scenario.late
    /\ session = [c \in Callers |-> "none"]
    /\ call = [c \in Callers |-> Fresh("idle", None)]
    /\ investigation = [c \in Callers |-> Investigating("idle")]
    /\ preview = [c \in Callers |-> Previewing("idle", NoPeriod)]

Serve(c) ==
    \/ Investigate(c) /\ UNCHANGED preview
    \/ QueryWarehouse(c) /\ UNCHANGED preview
    \/ Previewed(c) /\ UNCHANGED investigation

\* External: an event that was on its way arrives.
Arrives ==
    \E event \in arriving :
        /\ Ingest(event)
        /\ arriving' = arriving \ {event}
        /\ UNCHANGED <<scenario, investigation, preview>>

Next ==
    \/ \E c \in Callers :
          \/ Begin(c) /\ UNCHANGED preview
          \/ BeginPreview(c) /\ UNCHANGED investigation
          \/ Serve(c)
    \/ Arrives

\* A request that was begun is served: connecting and every statement have a
\* timeout; that the driver is imported and a client closed at last is assumed.
Spec == Init /\ [][Next]_vars /\ \A c \in Callers : WF_vars(Serve(c))

-----------------------------------------------------------------------------
(***************************************************************************)
(* Properties.                                                             *)
(***************************************************************************)

\* The period of an analysis is of whole local days that are over, where the
\* clocks do not change between local and UTC midnight.
PeriodsComplete ==
    \A c \in Callers :
        \A period \in {investigation[c].period, preview[c].period} \ {NoPeriod} :
            \A t \in {period.start, period.end} :
                ClocksSteady(scenario.zone, t) =>
                    /\ t <= scenario.now
                    /\ IsLocalMidnight(scenario.zone, t)

\* Ordered funnels: as many users are counted for a step as did all steps up to
\* it in this order, each within the window of the last and all in the period.
FunnelOrdered ==
    \A c \in Callers : \A k \in DOMAIN preview[c].users :
        LET Chain(e) ==
                /\ \A j \in 1..k : e[j].name = Request.steps[j] /\ Within(e[j].at, preview[c].period)
                /\ \A j \in 1..(k - 1) :
                      e[j].user = e[j+1].user
                      /\ e[j+1].at - e[j].at \in 0..(24 * Request.window - 1)
        IN preview[c].users[k] = Cardinality({e[1].user : e \in {f \in [1..k -> call[c].read] : Chain(f)}})

\* Cohorts without a complete maturity window are excluded: all the periods of
\* a reported cohort were over when the data ends, so none of its rates is low
\* because time was short; and no more users return than entered.
RetentionMatured ==
    \A c \in Callers : \A row \in preview[c].cohorts :
        LET days == CASE Request.grain = "day" -> 1
                      [] Request.grain = "week" -> 7
                      [] Request.grain = "month" -> 28
        IN /\ 24 * (row.start + days * (Request.periods + 1))
                  <= Local(Request.zone, preview[c].period.end)
           /\ row.retained <= row.size

\* Every analysis ends with a result or an error, whichever await fails.
EveryAnalysisEnds ==
    \A c \in Callers :
        /\ investigation[c].pc = "measuring" ~> investigation[c].pc \in {"composed", "failed"}
        /\ preview[c].pc = "previewing" ~> preview[c].pc \in {"previewed", "failed"}
=============================================================================
