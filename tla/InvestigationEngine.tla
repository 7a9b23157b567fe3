--------------------------- MODULE InvestigationEngine ---------------------------
(***************************************************************************)
(* POST /v1/investigations: the handler of worker.js with data-source.js,  *)
(* semantic-validation.js, investigation-planner.js, investigation-engine  *)
(* .js and investigation-compiler.js, over the queries of WarehouseAdapter.*)
(*                                                                         *)
(* It asks the warehouse for the freshness of the data, its columns, its   *)
(* most frequent events, the metric in two periods, and then once for each *)
(* dimension: every time in a transaction of its own, between which events *)
(* arrive.  Any of these failing, there is no investigation.               *)
(***************************************************************************)
EXTENDS LocalTime, WarehouseAdapter, SequencesExt

CONSTANTS
    Dimensions,     \* ids of the verified dimensions of the metric's source, a sequence
    SegmentOf(_, _), \* the value of a dimension for an event, a number
    MaximumRows,    \* dataSource.maximumRows
    Scenarios       \* the requests and the circumstances they meet

VARIABLES
    scenario,        \* chosen once: what is asked, when and of which warehouse
    arriving,        \* the events that have not arrived yet
    investigation    \* what each handler holds between two of its awaits

engineVars == <<scenario, investigation>>

\* An event: who did what on which platform, when.
\*   Event == [user, name, platform, at]
\* A scenario: the events in the warehouse and those on their way, the columns
\* of the table and the restricted ones, the zone, the clock, and the request.
\*   [events, late, columns, restricted, zone, now, request]
\* The request of an investigation: the metric (its event and aggregation, the
\* set of dimensions it allows), the period, the sequence of dimensions asked
\* for, in a set that is empty when there is none, and how many at most.
\*   [type |-> "investigation", name, aggregation, allowed, period, asked, limit]
Request == scenario.request

\* Rows have a time and, for every dimension, a segment.
ASSUME DataSourceAssumption ==
    /\ IsFiniteSet(Events)
    /\ Dimensions \in Seq(Range(Dimensions))
    /\ MaximumRows \in Nat \ {0}
    /\ \A event \in Events :
          event.at \in Int /\ \A d \in Range(Dimensions) : SegmentOf(d, event) \in Int

\* Clocks change by an hour, and the calendar begins early enough.
ASSUME ScenarioAssumption ==
    \A s \in Scenarios :
        /\ s.events \subseteq Events /\ s.late \subseteq Events
        /\ s.zone \in Zone /\ s.zone.before - s.zone.after \in {-1, 0, 1}
        /\ s.now \in Int /\ s.request.period \in Kinds
        /\ CalendarReaches(LocalDate(s.zone, s.now))
        /\ s.request.type = "investigation" =>
               /\ s.request.limit \in Nat
               /\ \A asked \in s.request.asked : asked \in Seq(Range(asked))
        /\ s.request.type = "funnel" => s.request.steps \in Seq(Range(s.request.steps))
        /\ s.request.type = "retention" =>
               /\ s.request.zone \in Zone
               /\ \A event \in Events, offset \in {s.request.zone.before, s.request.zone.after} :
                      CalendarReaches((event.at + offset) \div 24)

NoChange == [current |-> 0, previous |-> 0]

Investigation ==
    [pc: {"idle", "measuring", "discovering", "counting", "baseline", "breakdown",
          "composed", "failed"},
     freshness: {None, "fresh", "stale", "unknown"},
     health: {None, "healthy", "warning", "invalid"},
     period: Period,
     baseline: [current: Nat, previous: Nat],
     left: Seq(Range(Dimensions)),
     breakdowns: Seq([dimension: Range(Dimensions),
                      segments: Seq([segment: Int, current: Nat, previous: Nat]),
                      cut: BOOLEAN]),
     since: SUBSET Events]

Investigating(pc) ==
    [pc |-> pc, freshness |-> None, health |-> None, period |-> [start |-> 0, end |-> 0],
     baseline |-> NoChange, left |-> <<>>, breakdowns |-> <<>>, since |-> {}]

EngineTypeOK ==
    /\ AdapterTypeOK
    /\ arriving \subseteq Events
    /\ investigation \in [Callers -> Investigation]

-----------------------------------------------------------------------------
(***************************************************************************)
(* Health and planning.                                                    *)
(***************************************************************************)

\* The columns the compiled metric reads, and those every source maps.
CoreColumns ==
    {"occurred_at", "event_name"}
        \cup (IF Request.aggregation = "distinct_count" THEN {"user_id"} ELSE {})

RequiredColumns == {"event_name", "user_id", "occurred_at"}

\* Mutant: the dimensions are not looked for in the schema.
HealthOfCore(columns) ==
    IF ~ CoreColumns \subseteq columns THEN "invalid" ELSE "healthy"

\* evaluateSemanticHealth, of the metric asked for.
Health(columns) ==
    IF ~ CoreColumns \subseteq columns THEN "invalid"
    ELSE IF \/ ~ Request.allowed \subseteq columns
            \/ CoreColumns \cap scenario.restricted # {}
    THEN "warning"
    ELSE "healthy"

\* The dimensions the metric allows, in the order of the catalog.
Verified ==
    FlattenSeq([k \in DOMAIN Dimensions |->
                   IF Dimensions[k] \in Request.allowed THEN <<Dimensions[k]>> ELSE <<>>])

\* HARD_MAX_DIMENSIONS.
HardMaxDimensions == 6

\* The ids of a request, each the first time it is asked for.
Deduplicated(ids) ==
    FlattenSeq([k \in DOMAIN ids |->
                   IF \E j \in 1..(k - 1) : ids[j] = ids[k] THEN <<>> ELSE <<ids[k]>>])

\* selectDimensions: those asked for, or the first that are approved; refused
\* for a limit out of range (boundedDimensionLimit), and when too many are asked
\* for or one that is not approved.
Selectable ==
    /\ Request.limit \in 1..HardMaxDimensions
    /\ \A asked \in Request.asked :
          /\ Len(Deduplicated(asked)) <= Request.limit
          /\ Range(asked) \subseteq Range(Verified)

Selected ==
    IF Request.asked = {}
    THEN SubSeq(Verified, 1, Min({Request.limit, Len(Verified)}))
    ELSE Deduplicated(CHOOSE asked \in Request.asked : TRUE)

-----------------------------------------------------------------------------
(***************************************************************************)
(* What the queries compute.                                               *)
(***************************************************************************)
Aggregate(rows) ==
    IF Request.aggregation = "event_count"
    THEN Cardinality(rows)
    ELSE Cardinality({row.user : row \in rows})

\* The rows of the metric in a period.
Of(rows, period) == {row \in rows : row.name = Request.name /\ Within(row.at, period)}

Compared(rows, period) ==
    [current |-> Aggregate(Of(rows, period)),
     previous |-> Aggregate(Of(rows, PrecedingEqualPeriod(period)))]

Magnitude(n) == IF n < 0 THEN -n ELSE n

Change(values) == values.current - values.previous

Movement(values) == Magnitude(Change(values))

\* Mutant: only rows of the current period are grouped.
SegmentRowsNow(d, rows, period) ==
    {LET values == Compared({row \in rows : SegmentOf(d, row) = s}, period) IN
     [segment |-> s, current |-> values.current, previous |-> values.previous] :
         s \in {SegmentOf(d, row) : row \in Of(rows, period)}}

\* compileInvestigationBreakdown: one row for each segment.
SegmentRows(d, rows, period) ==
    LET both == Of(rows, period) \cup Of(rows, PrecedingEqualPeriod(period)) IN
    {LET values == Compared({row \in both : SegmentOf(d, row) = s}, period) IN
     [segment |-> s, current |-> values.current, previous |-> values.previous] :
         s \in {SegmentOf(d, row) : row \in both}}

\* ORDER BY movement DESC LIMIT maximumRows: of equals any.
Limited(rows) ==
    {kept \in SUBSET rows :
        /\ Cardinality(kept) = Min({MaximumRows, Cardinality(rows)})
        /\ \A row \in kept, other \in rows \ kept : Movement(row) >= Movement(other)}

Outranks(a, b) ==
    \/ Movement(a) > Movement(b)
    \/ Movement(a) = Movement(b) /\ a.segment < b.segment

\* verifyBreakdownRows: the largest movement first, of equals by name.
Ranked(rows) ==
    CHOOSE seq \in SetToSeqs(rows) :
        \A j, k \in DOMAIN seq : j < k => Outranks(seq[j], seq[k])

-----------------------------------------------------------------------------
(***************************************************************************)
(* The handler.                                                            *)
(***************************************************************************)
Stage(c, pc) == investigation[c].pc = pc

Goes(c, pc) == investigation' = [investigation EXCEPT ![c].pc = pc]

\* Whatever throws ends the request with an error, and nothing is stored.
Breaks(c) ==
    /\ investigation' = [investigation EXCEPT ![c] = Investigating("failed")]
    /\ UNCHANGED adapterVars

Rest == UNCHANGED <<scenario, arriving>>

\* The request is in: the freshness of the data is asked for.
Begin(c) ==
    /\ Request.type = "investigation"
    /\ Stage(c, "idle")
    /\ Goes(c, "measuring")
    /\ StartQuery(c)
    /\ Rest

\* getDataSourceFreshness, then the columns.
Measured(c) ==
    /\ Stage(c, "measuring") /\ Ready(c)
    /\ \/ /\ Answered(c)
          /\ \E status \in (IF call[c].read = {} THEN {} ELSE {"fresh", "stale"}) \cup {"unknown"} :
                 investigation' = [investigation EXCEPT
                     ![c].pc = "discovering", ![c].freshness = status]
          /\ StartQuery(c)
       \/ Failed(c) /\ Breaks(c)
    /\ Rest

\* Health, plan, and the two periods of the metric; refused for an invalid
\* metric, for dimensions that are not approved, and for a period out of range.
PlanInvestigation(c) ==
    LET health == Health(scenario.columns)
        period == ResolvePeriod(Request.period, scenario.zone, scenario.now)
    IN \/ /\ health # "invalid" /\ Selectable /\ WithinLimit(period)
          /\ investigation' = [investigation EXCEPT
                 ![c].pc = "baseline",
                 ![c].health = health,
                 ![c].period = period,
                 ![c].left = Selected]
          /\ StartQuery(c)
       \/ /\ health = "invalid" \/ ~Selectable \/ ~WithinLimit(period)
          /\ Breaks(c)

\* discoverDataSource: with a required column missing it returns at once.
Discovered(c) ==
    /\ Stage(c, "discovering") /\ Ready(c)
    /\ \/ /\ Answered(c) /\ RequiredColumns \subseteq scenario.columns
          /\ Goes(c, "counting")
          /\ StartQuery(c)
       \/ /\ Answered(c) /\ scenario.columns # {} /\ ~ RequiredColumns \subseteq scenario.columns
          /\ PlanInvestigation(c)
       \/ (Failed(c) \/ scenario.columns = {}) /\ Breaks(c)
    /\ Rest

Counted(c) ==
    /\ Stage(c, "counting") /\ Ready(c)
    /\ \/ Answered(c) /\ PlanInvestigation(c)
       \/ Failed(c) /\ Breaks(c)
    /\ Rest

\* verifyResult: the comparison is grouped by period, and a period without rows
\* has none in the result (INCOMPLETE_COMPARISON).
Comparable(c) ==
    LET period == investigation[c].period IN
    Of(call[c].read, period) # {} /\ Of(call[c].read, PrecedingEqualPeriod(period)) # {}

\* Mutant: an error of the query is not looked for.
BaselinedHopefully(c) ==
    /\ Stage(c, "baseline") /\ Ready(c)
    /\ \/ /\ Answered(c) /\ Comparable(c)
          /\ investigation' = [investigation EXCEPT
                 ![c].baseline = Compared(call[c].read, investigation[c].period),
                 ![c].pc = IF investigation[c].left = <<>> THEN "composed" ELSE "breakdown",
                 ![c].since = call[c].read]
          /\ IF investigation[c].left = <<>> THEN UNCHANGED adapterVars ELSE StartQuery(c)
       \/ Answered(c) /\ ~Comparable(c) /\ Breaks(c)
    /\ Rest

\* The metric in both periods.
Baselined(c) ==
    /\ Stage(c, "baseline") /\ Ready(c)
    /\ \/ /\ Answered(c) /\ Comparable(c)
          /\ investigation' = [investigation EXCEPT
                 ![c].baseline = Compared(call[c].read, investigation[c].period),
                 ![c].pc = IF investigation[c].left = <<>> THEN "composed" ELSE "breakdown",
                 ![c].since = call[c].read]
          /\ IF investigation[c].left = <<>> THEN UNCHANGED adapterVars ELSE StartQuery(c)
       \/ (Failed(c) \/ ~Comparable(c)) /\ Breaks(c)
    /\ Rest

\* One dimension, then the next; after the last the investigation is composed.
BrokenDown(c) ==
    /\ Stage(c, "breakdown") /\ Ready(c)
    /\ \/ /\ Answered(c)
          /\ LET i == investigation[c]
                 d == Head(i.left)
                 rows == SegmentRows(d, call[c].read, i.period)
             IN \E kept \in Limited(rows) :
                   investigation' = [investigation EXCEPT
                       ![c].breakdowns = Append(@,
                           [dimension |-> d, segments |-> Ranked(kept), cut |-> kept # rows]),
                       ![c].left = Tail(@),
                       ![c].pc = IF Tail(i.left) = <<>> THEN "composed" ELSE "breakdown"]
          /\ IF Tail(investigation[c].left) = <<>> THEN UNCHANGED adapterVars ELSE StartQuery(c)
       \/ Failed(c) /\ Breaks(c)
    /\ Rest

\* The adapter's awaits: Postgres refuses a query of a column that is missing.
QueryWarehouse(c) ==
    /\ Await(c)
    /\ Stage(c, "breakdown") /\ Head(investigation[c].left) \notin scenario.columns
           => call'[c].pc # "ending"
    /\ Rest
    /\ UNCHANGED investigation

Investigate(c) ==
    Measured(c) \/ Discovered(c) \/ Counted(c) \/ Baselined(c) \/ BrokenDown(c)

-----------------------------------------------------------------------------
(***************************************************************************)
(* composeInvestigation, of what the handler has gathered.                 *)
(***************************************************************************)
Item(type, of) == [type |-> type, of |-> of]

\* Mutant: the health of the metric is no evidence.
EvidenceOfData(i) ==
    {Item("baseline", None)}
        \cup {Item("dimension", i.breakdowns[k].dimension) : k \in DOMAIN i.breakdowns}
        \cup (IF i.freshness = "fresh" THEN {} ELSE {Item("data-quality", "freshness")})

Evidence(i) ==
    {Item("baseline", None)}
        \cup {Item("dimension", i.breakdowns[k].dimension) : k \in DOMAIN i.breakdowns}
        \cup (IF i.freshness = "fresh" THEN {} ELSE {Item("data-quality", "freshness")})
        \cup (IF i.health = "healthy" THEN {} ELSE {Item("data-quality", "semantic-health")})

\* buildObservations: the metric, each dimension with a segment, and what is
\* wrong with the data.
Observations(i) ==
    {[of |-> "baseline", evidence |-> {Item("baseline", None)}]}
        \cup {[of |-> "top-movement", evidence |-> {Item("dimension", b.dimension)}] :
                  b \in {breakdown \in Range(i.breakdowns) : breakdown.segments # <<>>}}
        \cup (IF i.freshness # "stale" THEN {}
              ELSE {[of |-> "data-stale", evidence |-> {Item("data-quality", "freshness")}]})
        \cup (IF i.health # "warning" THEN {}
              ELSE {[of |-> "semantic-warning",
                     evidence |-> {Item("data-quality", "semantic-health")}]})

Sign(n) == IF n > 0 THEN 1 ELSE IF n < 0 THEN -1 ELSE 0

\* Mutant: movements in opposite directions cancel.
NetMovement(segments) == SumFunction([k \in DOMAIN segments |-> Change(segments[k])])

TotalMovement(segments) == SumFunction([k \in DOMAIN segments |-> Movement(segments[k])])

\* A share of the absolute movement of the segments, at least this many percent.
ShareAtLeast(row, percent, segments) ==
    100 * Movement(row) >= percent * TotalMovement(segments)

Hypothesis(type, evidence, segment) ==
    [type |-> type, evidence |-> evidence, segment |-> segment]

\* Which segments moved as the metric did.
Aligned(segments, change) ==
    {k \in DOMAIN segments : Sign(Change(segments[k])) = Sign(change)}

\* What is said of one dimension: at most one thing.
OfBreakdown(b, change) ==
    LET aligned == Aligned(b.segments, change)
        first == b.segments[Min(aligned)]
        about == {Item("dimension", b.dimension)}
    IN IF b.segments = <<>> \/ Movement(b.segments[1]) = 0 THEN <<>>
       ELSE IF aligned # {} /\ ShareAtLeast(first, 50, b.segments)
       THEN <<Hypothesis("concentration", about, first.segment)>>
       ELSE IF Len(b.segments) >= 3 /\ ~ShareAtLeast(b.segments[1], 35, b.segments)
       THEN <<Hypothesis("broad", about, 0)>>
       ELSE <<>>

AboutQuality(i) ==
    (IF i.freshness = "stale"
     THEN <<Hypothesis("data-delay", {Item("data-quality", "freshness")}, 0)>> ELSE <<>>)
    \o
    (IF i.health = "warning"
     THEN <<Hypothesis("semantic-warning", {Item("data-quality", "semantic-health")}, 0)>>
     ELSE <<>>)

\* buildHypotheses: the first six.
Hypotheses(i) ==
    LET change == Change(i.baseline)
        ofBreakdowns == [k \in DOMAIN i.breakdowns |-> OfBreakdown(i.breakdowns[k], change)]
        found == AboutQuality(i) \o FlattenSeq(ofBreakdowns)
        all == IF change = 0
               THEN Append(AboutQuality(i), Hypothesis("no-change", {Item("baseline", None)}, 0))
               ELSE IF found = <<>>
               THEN <<Hypothesis("insufficient",
                          {Item("dimension", i.breakdowns[k].dimension) : k \in DOMAIN i.breakdowns},
                          0)>>
               ELSE found
    IN SubSeq(all, 1, Min({6, Len(all)}))

Status(i) ==
    IF Change(i.baseline) = 0 THEN "no_change"
    ELSE IF i.freshness = "stale" \/ i.health = "warning" THEN "limited"
    ELSE "completed"

\* investigationConfidence.
Confidence(i) ==
    IF i.freshness = "stale" THEN "low"
    ELSE IF \/ i.freshness = "unknown" \/ i.health = "warning"
            \/ i.baseline.previous = 0 \/ i.breakdowns = <<>>
    THEN "medium"
    ELSE "high"

-----------------------------------------------------------------------------
(***************************************************************************)
(* Properties.                                                             *)
(***************************************************************************)
Composed == {investigation[c] : c \in {d \in Callers : Stage(d, "composed")}}

\* A claim cites some evidence, all of it held by the investigation.
Cites(claim, i) == claim.evidence # {} /\ claim.evidence \subseteq Evidence(i)

\* Every observation and every hypothesis of an investigation cites evidence, and
\* only evidence the investigation holds.  One hypothesis may cite none: that the
\* segmentation is insufficient, of an investigation that broke nothing down
\* (investigation-engine.js:288), which has no segmentation to cite.
ClaimsCiteEvidence ==
    \A i \in Composed :
        /\ \A observation \in Observations(i) : Cites(observation, i)
        /\ \A k \in DOMAIN Hypotheses(i) :
              LET h == Hypotheses(i)[k] IN
              \/ Cites(h, i)
              \/ h.type = "insufficient" /\ h.evidence = {} /\ i.breakdowns = <<>>

Arrived(i, period) == Cardinality(Of(warehouse \ i.since, period))

Sum(b, field) == SumFunction([k \in DOMAIN b.segments |-> b.segments[k][field]])

\* The segments of a count add up to the metric, but for what arrived in the
\* warehouse after the metric was read and what the row limit cut off.
SegmentsReconcile ==
    \A i \in Composed : \A k \in DOMAIN i.breakdowns :
        LET b == i.breakdowns[k] IN
        Request.aggregation = "event_count" /\ ~b.cut =>
            /\ Sum(b, "current") - i.baseline.current \in 0..Arrived(i, i.period)
            /\ Sum(b, "previous") - i.baseline.previous
                   \in 0..Arrived(i, PrecedingEqualPeriod(i.period))

\* A change said to be concentrated in a segment is: nothing having arrived
\* meanwhile, and all segments being there, the segment of a count moved the
\* same way as the metric and by at least half as much, and none moved more.
ConcentrationExplains ==
    \A i \in Composed : \A k \in DOMAIN Hypotheses(i), j \in DOMAIN i.breakdowns :
        LET h == Hypotheses(i)[k]
            b == i.breakdowns[j]
            quiet == Arrived(i, i.period) + Arrived(i, PrecedingEqualPeriod(i.period)) = 0
        IN /\ h.type = "concentration" /\ Item("dimension", b.dimension) \in h.evidence
           /\ Request.aggregation = "event_count" /\ quiet /\ ~b.cut
           => \E row \in Range(b.segments) :
                 /\ row.segment = h.segment
                 /\ Sign(Change(row)) = Sign(Change(i.baseline))
                 /\ 2 * Movement(row) >= Movement(i.baseline)
                 /\ \A other \in Range(b.segments) : Movement(other) <= Movement(row)

\* High confidence is earned: the data was fresh, every column the metric and
\* all its approved dimensions need was there, and the metric was read with rows
\* in both periods.
HighConfidenceEarned ==
    \A i \in Composed : Confidence(i) = "high" =>
        /\ Status(i) # "limited"
        /\ i.freshness = "fresh"
        /\ CoreColumns \cup Request.allowed \subseteq scenario.columns
        /\ Of(i.since, i.period) # {}
        /\ Of(i.since, PrecedingEqualPeriod(i.period)) # {}

=============================================================================
