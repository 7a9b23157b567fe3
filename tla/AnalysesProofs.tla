----------------------------- MODULE AnalysesProofs -----------------------------
(***************************************************************************)
(* Theorems of AdvancedAnalytics, for any handlers, events, dimensions and *)
(* requests: the handlers use the warehouse only as WarehouseAdapter lets  *)
(* them, so what is proved of it holds of them; the periods they analyse   *)
(* are of days that are over; high confidence is earned; segments add up;  *)
(* what is claimed cites its evidence and explains the change; funnels are *)
(* of ordered steps and cohorts of complete periods.                       *)
(***************************************************************************)
EXTENDS AdvancedAnalytics, WarehouseAdapterProofs, LocalTimeProofs, Induction

-----------------------------------------------------------------------------
(***************************************************************************)
(* The handlers are callers of the adapter.                                *)
(***************************************************************************)

\* What is on its way, and the circumstances, are those of the scenario.
Circumstances ==
    /\ scenario \in Scenarios
    /\ arriving \subseteq Events

LEMMA StagesAwait ==
    ASSUME NEW c \in Callers, Investigate(c)
    PROVE  /\ StartQuery(c) \/ UNCHANGED adapterVars
           /\ UNCHANGED <<scenario, arriving>>
  BY DEF Investigate, Measured, Discovered, Counted, Baselined, BrokenDown,
         PlanInvestigation, Breaks, Rest

LEMMA HandlersUseAdapter ==
    ASSUME Circumstances, [Next]_vars
    PROVE  /\ [AdapterNext]_adapterVars
           /\ Circumstances'
  <1>1. ASSUME NEW c \in Callers, StartQuery(c) \/ Await(c) PROVE AdapterNext
    BY <1>1 DEF AdapterNext
  <1>2. ASSUME NEW c \in Callers, Begin(c) \/ BeginPreview(c) \/ Previewed(c) \/ QueryWarehouse(c)
        PROVE  /\ StartQuery(c) \/ Await(c) \/ UNCHANGED adapterVars
               /\ UNCHANGED <<scenario, arriving>>
    BY <1>2 DEF Begin, BeginPreview, Previewed, QueryWarehouse, Rest
  <1>3. ASSUME NEW c \in Callers, Serve(c) \/ Begin(c) \/ BeginPreview(c)
        PROVE  [AdapterNext]_adapterVars /\ Circumstances'
    BY <1>1, <1>2, <1>3, StagesAwait DEF Serve, Circumstances
  <1>4. ASSUME Arrives PROVE [AdapterNext]_adapterVars /\ Circumstances'
    BY <1>4 DEF Arrives, Circumstances, AdapterNext
  <1>5. CASE UNCHANGED vars
    BY <1>5 DEF vars, adapterVars, Circumstances
  <1> QED BY <1>3, <1>4, <1>5 DEF Next

LEMMA HandlersBegin == Init => AdapterInit /\ Circumstances
  BY ScenarioAssumption DEF Init, AdapterInit, Circumstances

\* Whatever the handlers do, of the warehouse they do what the adapter does.
THEOREM AnalysesUseAdapter == Spec => AdapterSpec
  <1>1. Init /\ [][Next]_vars => []Circumstances
    BY HandlersBegin, HandlersUseAdapter, PTL
  <1>2. Circumstances /\ [Next]_vars => [AdapterNext]_adapterVars
    BY HandlersUseAdapter
  <1> QED BY <1>1, <1>2, HandlersBegin, PTL DEF Spec, AdapterSpec

\* Every handler that has its answer or its error holds no session.
THEOREM AnalysesReleaseClients == Spec => []ClientsReleased
  BY AnalysesUseAdapter, ClientsAreReleased, PTL

\* Every handler is told what went wrong first.
THEOREM AnalysesTellFirstError == Spec => []FirstErrorThrown
  BY AnalysesUseAdapter, FirstErrorIsThrown, PTL

\* Every query of an investigation or a preview is a promised one.
THEOREM AnalysesKeepPromise == Spec => PromiseSpec
  BY AnalysesUseAdapter, AdapterKeepsPromise, PTL

-----------------------------------------------------------------------------
(***************************************************************************)
(* What an investigation has gathered.                                     *)
(***************************************************************************)

LEMMA MonthStarts ==
    ASSUME NEW date \in Int, CalendarReaches(date)
    PROVE  /\ StartOfMonth(date) \in Months /\ StartOfMonth(date) \in Int
           /\ StartOfMonth(date) <= date
           /\ \A month \in Months : month <= date => month <= StartOfMonth(date)
           /\ PreviousMonthStart(date) \in Int /\ PreviousMonthStart(date) <= date
  <1> DEFINE T == {first \in Months : first <= date}
             m == StartOfMonth(date)
             U == {first \in Months : first < m}
  <1>0. Months \subseteq Int
    BY CalendarAssumption
  <1>1. T \in SUBSET Int /\ T # {} /\ \A first \in T : first <= date
    BY <1>0 DEF CalendarReaches
  <1>2. m = Max(T)
    BY DEF StartOfMonth
  <1> HIDE DEF T, m
  <1>3. m \in T /\ \A first \in T : first <= m
    BY <1>1, <1>2, MaxOfIntegers
  <1>4. m \in Months /\ m \in Int /\ m <= date
    BY <1>0, <1>3 DEF T
  <1>5. U \in SUBSET Int /\ U # {} /\ \A first \in U : first <= m
    <2>1. PICK first \in Months, month \in Months : first < month /\ month <= m
      BY <1>3 DEF CalendarReaches, T
    <2>2. first \in U
      BY <1>0, <1>4, <2>1
    <2>3. \A n \in Int : n < m => n <= m
      BY <1>4
    <2> QED BY <1>0, <2>2, <2>3
  <1>6. PreviousMonthStart(date) = Max(U)
    BY DEF PreviousMonthStart, m
  <1>7. Max(U) \in U
    <2> HIDE DEF U
    <2> QED BY <1>4, <1>5, MaxOfIntegers
  <1>8. Max(U) \in Int /\ Max(U) <= date
    <2>1. Max(U) \in Int /\ Max(U) < m
      BY <1>0, <1>7
    <2> HIDE DEF U
    <2> QED BY <1>4, <2>1
  <1> QED BY <1>3, <1>4, <1>6, <1>8 DEF m, T

\* Dates that have begun, in the zone and at the time of the scenario.
OfBegunDates(period) ==
    \E from, to \in Int :
        /\ from <= LocalDate(scenario.zone, scenario.now)
        /\ to <= LocalDate(scenario.zone, scenario.now)
        /\ period = Days(scenario.zone, from, to)

InvestigationShape(i) ==
    i \in [pc: {i.pc}, freshness: {i.freshness}, health: {i.health}, period: {i.period},
           baseline: {i.baseline}, left: {i.left}, breakdowns: {i.breakdowns}, since: {i.since}]

PreviewShape(p) ==
    p \in [pc: {p.pc}, period: {p.period}, users: {p.users}, cohorts: {p.cohorts}]

Measurements == {"fresh", "stale", "unknown"}

\* The freshness is known once it was measured; the health and the period once
\* the investigation is planned, and a metric that is planned is not invalid;
\* what was read of the metric has rows in both periods.
Gathered(i) ==
    /\ InvestigationShape(i)
    /\ i.pc \in {"discovering", "counting", "baseline", "breakdown", "composed"}
           => i.freshness \in Measurements
    /\ i.pc \in {"baseline", "breakdown", "composed"} =>
           /\ i.health \in {"healthy", "warning"}
           /\ i.health = "healthy" => CoreColumns \cup Request.allowed \subseteq scenario.columns
    /\ i.period = NoPeriod \/ OfBegunDates(i.period)
    /\ i.pc \in {"breakdown", "composed"} =>
           Of(i.since, i.period) # {} /\ Of(i.since, PrecedingEqualPeriod(i.period)) # {}

Gathering ==
    /\ investigation = [c \in Callers |-> investigation[c]]
    /\ preview = [c \in Callers |-> preview[c]]
    /\ \A c \in Callers :
          /\ Gathered(investigation[c])
          /\ PreviewShape(preview[c])
          /\ preview[c].period = NoPeriod \/ OfBegunDates(preview[c].period)

\* resolvePeriod ends every period with a date that has begun.
LEMMA PeriodsBegin ==
    ASSUME Circumstances
    PROVE  OfBegunDates(ResolvePeriod(Request.period, scenario.zone, scenario.now))
  <1> DEFINE zone == scenario.zone
             today == LocalDate(zone, scenario.now)
             kind == Request.period
  <1>1. zone \in Zone /\ scenario.now \in Int /\ kind \in Kinds
    BY ScenarioAssumption DEF Circumstances, Request
  <1>2. today \in Int /\ CalendarReaches(today)
    BY <1>1, LocalDateType, ScenarioAssumption DEF Circumstances
  <1>3. StartOfWeek(today) \in Int /\ StartOfWeek(today) <= today
    BY <1>2 DEF StartOfWeek
  <1>4. /\ StartOfMonth(today) \in Int /\ StartOfMonth(today) <= today
        /\ PreviousMonthStart(today) \in Int /\ PreviousMonthStart(today) <= today
    BY <1>2, MonthStarts
  <1>5. PICK from, to \in Int :
           from <= today /\ to <= today /\ ResolvePeriod(kind, zone, scenario.now) = Days(zone, from, to)
    <2> HIDE DEF today, kind, zone
    <2>1. ResolvePeriod(kind, zone, scenario.now) \in
              {Days(zone, today - 1, today), Days(zone, today - 7, today),
               Days(zone, today - 30, today),
               Days(zone, StartOfWeek(today) - 7, StartOfWeek(today)),
               Days(zone, StartOfMonth(today), today),
               Days(zone, PreviousMonthStart(today), StartOfMonth(today))}
      BY <1>1 DEF ResolvePeriod, Kinds, today
    <2>2. /\ today - 1 \in Int /\ today - 1 <= today
          /\ today - 7 \in Int /\ today - 7 <= today
          /\ today - 30 \in Int /\ today - 30 <= today
          /\ StartOfWeek(today) - 7 \in Int /\ StartOfWeek(today) - 7 <= today
          /\ today <= today
      BY <1>2, <1>3
    <2> QED BY <1>2, <1>3, <1>4, <2>1, <2>2
  <1> QED BY <1>5 DEF OfBegunDates

\* A handler's step changes what that handler has gathered, and as follows.
LEMMA GatheringHere ==
    ASSUME NEW c \in Callers, NEW i, Gathering, Gathered(i), scenario' = scenario,
           investigation' = [investigation EXCEPT ![c] = i], preview' = preview
    PROVE  Gathering'
  <1>1. investigation' = [d \in Callers |-> investigation'[d]]
    BY DEF Gathering
  <1>2. ASSUME NEW d \in Callers
        PROVE  Gathered(investigation[d])' /\ PreviewShape(preview[d])'
               /\ (preview[d].period = NoPeriod \/ OfBegunDates(preview[d].period))'
    <2>1. investigation'[d] = IF d = c THEN i ELSE investigation[d]
      BY DEF Gathering
    <2>2. Gathered(investigation'[d])
      BY <2>1 DEF Gathering
    <2> QED BY <2>2 DEF Gathering, Gathered, InvestigationShape, OfBegunDates, CoreColumns, Of,
                        Request, PreviewShape
  <1>3. preview' = [d \in Callers |-> preview'[d]]
    BY DEF Gathering
  <1> QED BY <1>1, <1>2, <1>3 DEF Gathering

LEMMA PlanGathers ==
    ASSUME NEW c \in Callers, NEW freshness \in Measurements,
           Circumstances, Gathering,
           investigation[c].freshness = freshness,
           PlanInvestigation(c), Rest, preview' = preview
    PROVE  Gathering'
  <1> DEFINE health == Health(scenario.columns)
             period == ResolvePeriod(Request.period, scenario.zone, scenario.now)
             i == investigation[c]
             planned == [i EXCEPT !.pc = "baseline", !.health = health, !.period = period,
                                  !.left = Selected]
  <1>1. scenario' = scenario /\ Gathered(i) /\ investigation = [d \in Callers |-> investigation[d]]
    BY DEF Rest, Gathering
  <1>2. CASE /\ health # "invalid"
             /\ investigation' = [investigation EXCEPT
                   ![c].pc = "baseline", ![c].health = health, ![c].period = period,
                   ![c].left = Selected]
    <2> HIDE DEF health, period
    <2>1. investigation' = [investigation EXCEPT ![c] = planned]
      BY <1>1, <1>2
    <2>2. /\ health \in {"healthy", "warning"}
          /\ health = "healthy" => CoreColumns \cup Request.allowed \subseteq scenario.columns
      BY <1>2 DEF Health, health
    <2>3. OfBegunDates(period)
      BY PeriodsBegin DEF period
    <2>4. /\ InvestigationShape(planned)
          /\ planned.pc = "baseline" /\ planned.freshness = freshness
          /\ planned.health = health /\ planned.period = period
      BY <1>1 DEF Gathered, InvestigationShape
    <2>5. Gathered(planned)
      <3> HIDE DEF planned
      <3> QED BY <1>1, <2>2, <2>3, <2>4 DEF Gathered
    <2> QED BY <1>1, <2>1, <2>5, GatheringHere
  <1>3. CASE Breaks(c)
    <2>1. Gathered(Investigating("failed"))
      BY DEF Gathered, InvestigationShape, Investigating, NoPeriod, NoChange
    <2> QED BY <1>1, <1>3, <2>1, GatheringHere DEF Breaks
  <1> QED BY <1>2, <1>3 DEF PlanInvestigation

LEMMA StagesGather ==
    ASSUME NEW c \in Callers, Circumstances, AdapterTypeOK, Gathering,
           Begin(c) \/ Investigate(c), preview' = preview
    PROVE  Gathering'
  <1> DEFINE i == investigation[c]
  <1>1. /\ scenario' = scenario /\ Gathered(i)
        /\ investigation = [d \in Callers |-> investigation[d]]
        /\ InvestigationShape(i)
    BY StagesAwait DEF Gathering, Gathered, InvestigationShape, Begin, Rest
  <1>2. CASE Breaks(c)
    <2>1. Gathered(Investigating("failed"))
      BY DEF Gathered, InvestigationShape, Investigating, NoPeriod, NoChange
    <2> QED BY <1>1, <1>2, <2>1, GatheringHere DEF Breaks
  <1>3. CASE Begin(c)
    <2>1. investigation' = [investigation EXCEPT ![c] = [i EXCEPT !.pc = "measuring"]]
      BY <1>1, <1>3 DEF Begin, Goes
    <2>2. Gathered([i EXCEPT !.pc = "measuring"])
      BY <1>1 DEF Gathered, InvestigationShape
    <2> QED BY <1>1, <2>1, <2>2, GatheringHere
  <1>4. CASE Measured(c) /\ ~Breaks(c)
    <2>1. PICK status \in Measurements :
             investigation' = [investigation EXCEPT ![c].pc = "discovering", ![c].freshness = status]
      BY <1>4 DEF Measured, Measurements
    <2>2. investigation' = [investigation EXCEPT
                               ![c] = [i EXCEPT !.pc = "discovering", !.freshness = status]]
      BY <1>1, <2>1
    <2>3. Gathered([i EXCEPT !.pc = "discovering", !.freshness = status])
      BY <1>1 DEF Gathered, InvestigationShape
    <2> QED BY <1>1, <2>2, <2>3, GatheringHere
  <1>5. CASE Discovered(c) /\ ~Breaks(c)
    <2>1. i.freshness \in Measurements
      BY <1>1, <1>5 DEF Discovered, Stage, Gathered
    <2>2. CASE Goes(c, "counting")
      <3>1. investigation' = [investigation EXCEPT ![c] = [i EXCEPT !.pc = "counting"]]
        BY <1>1, <2>2 DEF Goes
      <3>2. Gathered([i EXCEPT !.pc = "counting"])
        BY <1>1, <2>1 DEF Gathered, InvestigationShape
      <3> QED BY <1>1, <3>1, <3>2, GatheringHere
    <2>3. CASE PlanInvestigation(c) /\ Rest
      BY <2>1, <2>3, PlanGathers
    <2> QED BY <1>5, <2>2, <2>3 DEF Discovered
  <1>6. CASE Counted(c) /\ ~Breaks(c)
    <2>1. i.freshness \in Measurements /\ PlanInvestigation(c) /\ Rest
      BY <1>1, <1>6 DEF Counted, Stage, Gathered
    <2> QED BY <2>1, PlanGathers
  <1>7. CASE Baselined(c) /\ ~Breaks(c)
    <2> DEFINE pc == IF i.left = <<>> THEN "composed" ELSE "breakdown"
               values == Compared(call[c].read, i.period)
               j == [i EXCEPT !.baseline = values, !.pc = pc, !.since = call[c].read]
    <2>1. /\ investigation' = [investigation EXCEPT ![c] = j] /\ i.pc = "baseline"
          /\ Comparable(c)
      BY <1>1, <1>7 DEF Baselined, Stage
    <2>2. /\ InvestigationShape(j)
          /\ j.pc = pc /\ j.freshness = i.freshness /\ j.health = i.health
          /\ j.period = i.period /\ j.since = call[c].read
      <3> HIDE DEF values, pc
      <3> QED BY <1>1 DEF InvestigationShape
    <2> HIDE DEF values, j
    <2>3. Gathered(j)
      BY <1>1, <2>1, <2>2 DEF Gathered, Comparable
    <2> QED BY <1>1, <2>1, <2>3, GatheringHere
  <1>8. CASE BrokenDown(c) /\ ~Breaks(c)
    <2>1. PICK breakdown :
             investigation' = [investigation EXCEPT
                 ![c].breakdowns = Append(@, breakdown),
                 ![c].left = Tail(@),
                 ![c].pc = IF Tail(i.left) = <<>> THEN "composed" ELSE "breakdown"]
      BY <1>8 DEF BrokenDown
    <2> DEFINE pc == IF Tail(i.left) = <<>> THEN "composed" ELSE "breakdown"
               j == [i EXCEPT !.breakdowns = Append(i.breakdowns, breakdown), !.left = Tail(i.left),
                              !.pc = pc]
    <2>2. investigation' = [investigation EXCEPT ![c] = j] /\ i.pc = "breakdown"
      BY <1>1, <1>8, <2>1 DEF BrokenDown, Stage
    <2>3. /\ InvestigationShape(j)
          /\ j.pc = pc /\ j.freshness = i.freshness /\ j.health = i.health
          /\ j.period = i.period /\ j.since = i.since
      <3> HIDE DEF pc
      <3> QED BY <1>1 DEF InvestigationShape
    <2> HIDE DEF j
    <2>4. Gathered(j)
      BY <1>1, <2>2, <2>3 DEF Gathered
    <2> QED BY <1>1, <2>2, <2>4, GatheringHere
  <1> QED BY <1>2, <1>3, <1>4, <1>5, <1>6, <1>7, <1>8 DEF Investigate

\* A preview's step changes what that handler previews.
LEMMA PreviewingHere ==
    ASSUME NEW c \in Callers, NEW p, Gathering, PreviewShape(p),
           p.period = NoPeriod \/ OfBegunDates(p.period),
           scenario' = scenario, preview' = [preview EXCEPT ![c] = p],
           investigation' = investigation
    PROVE  Gathering'
  <1>1. preview' = [d \in Callers |-> preview'[d]] /\ investigation' = [d \in Callers |-> investigation'[d]]
    BY DEF Gathering
  <1>2. ASSUME NEW d \in Callers
        PROVE  /\ Gathered(investigation[d])'
               /\ PreviewShape(preview[d])'
               /\ (preview[d].period = NoPeriod \/ OfBegunDates(preview[d].period))'
    <2>1. preview'[d] = IF d = c THEN p ELSE preview[d]
      BY DEF Gathering
    <2>2. PreviewShape(preview'[d]) /\ (preview'[d].period = NoPeriod \/ OfBegunDates(preview'[d].period))
      BY <2>1 DEF Gathering
    <2> QED BY <2>2 DEF Gathering, Gathered, InvestigationShape, OfBegunDates, CoreColumns, Of,
                        Request, PreviewShape
  <1> QED BY <1>1, <1>2 DEF Gathering

LEMMA PreviewsGather ==
    ASSUME NEW c \in Callers, Circumstances, Gathering,
           BeginPreview(c) \/ Previewed(c), investigation' = investigation
    PROVE  Gathering'
  <1> DEFINE p == preview[c]
  <1>1. /\ scenario' = scenario /\ preview = [d \in Callers |-> preview[d]] /\ PreviewShape(p)
        /\ p.period = NoPeriod \/ OfBegunDates(p.period)
    BY DEF Gathering, BeginPreview, Previewed, Rest
  <1>2. ASSUME NEW pc, NEW period, period = NoPeriod \/ OfBegunDates(period),
               preview' = [preview EXCEPT ![c] = Previewing(pc, period)]
        PROVE  Gathering'
    <2>1. PreviewShape(Previewing(pc, period)) /\ Previewing(pc, period).period = period
      BY DEF PreviewShape, Previewing
    <2> QED BY <1>1, <1>2, <2>1, PreviewingHere
  <1>3. CASE BeginPreview(c)
    <2> DEFINE period == ResolvePeriod(Request.period, scenario.zone, scenario.now)
    <2>1. OfBegunDates(period)
      BY PeriodsBegin
    <2>2. \/ preview' = [preview EXCEPT ![c] = Previewing("previewing", period)]
          \/ preview' = [preview EXCEPT ![c] = Previewing("failed", NoPeriod)]
      BY <1>3 DEF BeginPreview
    <2> HIDE DEF period
    <2> QED BY <1>2, <2>1, <2>2
  <1>4. CASE Previewed(c)
    <2>1. CASE preview' = [preview EXCEPT ![c] = Previewing("failed", NoPeriod)]
      BY <1>2, <2>1
    <2>2. CASE Answered(c)
      <3>1. PICK users, cohorts :
               preview' = [preview EXCEPT
                   ![c].pc = "previewed", ![c].users = users, ![c].cohorts = cohorts]
        BY <1>4, <2>2 DEF Previewed, Failed, Answered
      <3> DEFINE q == [p EXCEPT !.pc = "previewed", !.users = users, !.cohorts = cohorts]
      <3>2. preview' = [preview EXCEPT ![c] = q]
        BY <1>1, <3>1
      <3>3. PreviewShape(q) /\ q.period = p.period
        BY <1>1 DEF PreviewShape
      <3> HIDE DEF q
      <3> QED BY <1>1, <1>4, <3>2, <3>3, PreviewingHere
    <2> QED BY <1>4, <2>1, <2>2 DEF Previewed
  <1> QED BY <1>3, <1>4

LEMMA GatheringStep ==
    ASSUME Circumstances, AdapterTypeOK, Gathering, [Next]_vars
    PROVE  Gathering'
  <1>1. ASSUME scenario' = scenario, investigation' = investigation, preview' = preview
        PROVE  Gathering'
    BY <1>1 DEF Gathering, Gathered, InvestigationShape, OfBegunDates, CoreColumns, Of, Request,
                PreviewShape
  <1>2. ASSUME NEW c \in Callers, QueryWarehouse(c), preview' = preview PROVE Gathering'
    BY <1>1, <1>2 DEF QueryWarehouse, Rest
  <1>3. CASE Arrives
    BY <1>1, <1>3 DEF Arrives
  <1>4. CASE UNCHANGED vars
    BY <1>1, <1>4 DEF vars
  <1> QED BY <1>2, <1>3, <1>4, StagesGather, PreviewsGather DEF Next, Serve

LEMMA GatheringBegins == Init => Gathering
  <1> SUFFICES ASSUME Init PROVE Gathering
    OBVIOUS
  <1>1. Gathered(Investigating("idle"))
    BY DEF Gathered, InvestigationShape, Investigating, NoPeriod, NoChange
  <1>2. PreviewShape(Previewing("idle", NoPeriod)) /\ Previewing("idle", NoPeriod).period = NoPeriod
    BY DEF PreviewShape, Previewing
  <1> QED BY <1>1, <1>2 DEF Init, Gathering

LEMMA AlwaysGathering == Spec => []Gathering /\ []Circumstances
  <1>1. Spec => []AdapterTypeOK
    BY AnalysesUseAdapter, AdapterTypeCorrect, PTL
  <1>2. Spec => []Circumstances
    BY HandlersBegin, HandlersUseAdapter, PTL DEF Spec
  <1>3. Circumstances /\ AdapterTypeOK /\ Gathering /\ [Next]_vars => Gathering'
    BY GatheringStep
  <1> QED BY <1>1, <1>2, <1>3, GatheringBegins, PTL DEF Spec

\* What is analysed is days that are over: for every zone whose clocks change by
\* an hour, at every time, and for every kind of period.
THEOREM PeriodsAreComplete == Spec => []PeriodsComplete
  <1>1. Gathering /\ Circumstances => PeriodsComplete
    <2> SUFFICES ASSUME Gathering, Circumstances,
                        NEW c \in Callers,
                        NEW period \in {investigation[c].period, preview[c].period} \ {NoPeriod},
                        NEW t \in {period.start, period.end},
                        ClocksSteady(scenario.zone, t)
                 PROVE  t <= scenario.now /\ IsLocalMidnight(scenario.zone, t)
      BY DEF PeriodsComplete
    <2>1. OfBegunDates(period)
      BY DEF Gathering, Gathered
    <2>2. PICK date \in Int :
             date <= LocalDate(scenario.zone, scenario.now) /\ t = ZonedMidnight(scenario.zone, date)
      BY <2>1 DEF OfBegunDates, Days
    <2>3. scenario.zone \in HourZone /\ scenario.now \in Int
      BY ScenarioAssumption DEF Circumstances, HourZone
    <2> QED BY <2>2, <2>3, MidnightIsOver
  <1> QED BY <1>1, AlwaysGathering, PTL

\* High confidence is given only with fresh data, every column there and rows of
\* the metric in both periods, whatever arrived or failed on the way.
THEOREM HighConfidenceIsEarned == Spec => []HighConfidenceEarned
  <1>1. Gathering => HighConfidenceEarned
    <2> SUFFICES ASSUME Gathering, NEW c \in Callers, Stage(c, "composed"),
                        Confidence(investigation[c]) = "high"
                 PROVE  LET i == investigation[c] IN
                        /\ Status(i) # "limited"
                        /\ i.freshness = "fresh"
                        /\ CoreColumns \cup Request.allowed \subseteq scenario.columns
                        /\ Of(i.since, i.period) # {}
                        /\ Of(i.since, PrecedingEqualPeriod(i.period)) # {}
      BY DEF HighConfidenceEarned, Composed
    <2> DEFINE i == investigation[c]
    <2>1. Gathered(i) /\ i.pc = "composed"
      BY DEF Gathering, Stage
    <2>2. i.freshness # "stale" /\ i.freshness # "unknown" /\ i.health # "warning"
      BY DEF Confidence
    <2>3. i.freshness = "fresh" /\ i.health = "healthy"
      BY <2>1, <2>2 DEF Gathered, Measurements
    <2> QED BY <2>1, <2>3 DEF Gathered, Status
  <1> QED BY <1>1, AlwaysGathering, PTL

-----------------------------------------------------------------------------
(***************************************************************************)
(* The segments of a dimension.                                            *)
(***************************************************************************)
Segments == [segment: Int, current: Nat, previous: Nat]

\* No two rows are of one segment.
OneEach(rows) == \A a, b \in rows : a.segment = b.segment => a = b

LEMMA MovementType ==
    ASSUME NEW row \in Segments
    PROVE  /\ Change(row) \in Int /\ Movement(row) \in Nat
           /\ Change(row) = row.current - row.previous
           /\ Change(row) <= Movement(row) /\ -Change(row) <= Movement(row)
  BY DEF Segments, Change, Movement, Magnitude

\* The ranking puts every row once, the largest movement first.
LEMMA RankedIs ==
    ASSUME NEW rows \in SUBSET Segments, IsFiniteSet(rows), OneEach(rows)
    PROVE  /\ Ranked(rows) \in SetToSeqs(rows)
           /\ \A j, k \in DOMAIN Ranked(rows) : j < k => Outranks(Ranked(rows)[j], Ranked(rows)[k])
  <1> DEFINE R == {p \in rows \X rows : Outranks(p[1], p[2])}
  <1>1. \A row \in rows : row.segment \in Int /\ Movement(row) \in Nat
    BY MovementType DEF Segments
  <1>2. \A x, y \in rows : <<x, y>> \in R <=> Outranks(x, y)
    OBVIOUS
  <1>3. \A x, y \in rows : x # y => Outranks(x, y) \/ Outranks(y, x)
    BY <1>1 DEF Outranks, OneEach
  <1>4. \A x, y, z \in rows : Outranks(x, y) /\ Outranks(y, z) => Outranks(x, z)
    BY <1>1 DEF Outranks
  <1>5. R \in SUBSET (rows \X rows)
    OBVIOUS
  <1> HIDE DEF R
  <1>6. PICK seq \in SetToSeqs(rows) : \A j, k \in DOMAIN seq : j < k => <<seq[j], seq[k]>> \in R
    BY <1>2, <1>3, <1>4, <1>5, SortedSequence
  <1>7. \A j \in DOMAIN seq : seq[j] \in rows
    BY <1>6 DEF SetToSeqs
  <1>8. \A j, k \in DOMAIN seq : j < k => Outranks(seq[j], seq[k])
    BY <1>2, <1>6, <1>7
  <1> QED BY <1>6, <1>8 DEF Ranked

\* The sequences of a set's elements.
LEMMA Enumerates ==
    ASSUME NEW rows, IsFiniteSet(rows), NEW seq \in SetToSeqs(rows)
    PROVE  /\ Cardinality(rows) \in Nat /\ seq \in [1..Cardinality(rows) -> rows]
           /\ seq \in Seq(rows) /\ Len(seq) = Cardinality(rows)
           /\ \A j, k \in DOMAIN seq : seq[j] = seq[k] => j = k
           /\ \A row \in rows : \E k \in DOMAIN seq : seq[k] = row
  <1> DEFINE n == Cardinality(rows)
  <1>1. n \in Nat
    BY FS_CardinalityType
  <1>2. seq \in [1..n -> rows] /\ \A j, k \in 1..n : j # k => seq[j] # seq[k]
    BY DEF SetToSeqs
  <1>3. seq \in Injection(1..n, rows)
    BY <1>2 DEF Injection, IsInjective
  <1>4. Cardinality(1..n) = n
    <2> HIDE DEF n
    <2> QED BY <1>1, FS_Interval
  <1>5. seq \in Surjection(1..n, rows)
    BY <1>3, <1>4, FS_Injection
  <1>6. \A row \in rows : \E k \in 1..n : seq[k] = row
    BY <1>5 DEF Surjection
  <1> HIDE DEF n
  <1>7. seq \in Seq(rows) /\ Len(seq) = n /\ DOMAIN seq = 1..n
    BY <1>1, <1>2
  <1> QED BY <1>1, <1>2, <1>6, <1>7 DEF n

\* The rows both periods compare, those of one segment, and what is said of it.
Either(rows, period) == Of(rows, period) \cup Of(rows, PrecedingEqualPeriod(period))

Part(d, s, both) == {row \in both : SegmentOf(d, row) = s}

SegmentRow(d, s, both, period) ==
    [segment |-> s,
     current |-> Compared(Part(d, s, both), period).current,
     previous |-> Compared(Part(d, s, both), period).previous]

SegmentsOf(d, both) == {SegmentOf(d, row) : row \in both}

LEMMA SegmentRowsAre ==
    ASSUME NEW d, NEW rows, NEW period
    PROVE  SegmentRows(d, rows, period) =
               {SegmentRow(d, s, Either(rows, period), period) :
                   s \in SegmentsOf(d, Either(rows, period))}
  BY DEF SegmentRows, SegmentRow, SegmentsOf, Either, Part

LEMMA EventsFinite ==
    ASSUME NEW rows \in SUBSET Events
    PROVE  IsFiniteSet(rows) /\ Cardinality(rows) \in Nat
  BY DataSourceAssumption, FS_Subset, FS_CardinalityType

LEMMA AggregateType ==
    ASSUME NEW rows \in SUBSET Events
    PROVE  Aggregate(rows) \in Nat
  <1> DEFINE users == {row.user : row \in rows}
             user == [row \in rows |-> row.user]
  <1>1. IsFiniteSet(rows) /\ Cardinality(rows) \in Nat
    BY EventsFinite
  <1>2. user \in [rows -> users] /\ \A u \in users : \E row \in rows : user[row] = u
    OBVIOUS
  <1> HIDE DEF user, users
  <1>3. Cardinality(users) \in Nat
    BY <1>1, <1>2, FiniteImage
  <1> QED BY <1>1, <1>3 DEF Aggregate, users

LEMMA OfType ==
    ASSUME NEW rows \in SUBSET Events, NEW period
    PROVE  /\ Of(rows, period) \in SUBSET Events
           /\ Of(rows, PrecedingEqualPeriod(period)) \in SUBSET Events
           /\ Either(rows, period) \in SUBSET Events
  BY DEF Of, Either

LEMMA ComparedType ==
    ASSUME NEW rows \in SUBSET Events, NEW period
    PROVE  Compared(rows, period) \in [current: Nat, previous: Nat]
  <1>1. /\ Aggregate(Of(rows, period)) \in Nat
        /\ Aggregate(Of(rows, PrecedingEqualPeriod(period))) \in Nat
    BY OfType, AggregateType
  <1> QED BY <1>1 DEF Compared

LEMMA SegmentRowType ==
    ASSUME NEW d \in Range(Dimensions), NEW both \in SUBSET Events, NEW s \in SegmentsOf(d, both),
           NEW period
    PROVE  SegmentRow(d, s, both, period) \in Segments
  <1>1. Part(d, s, both) \in SUBSET Events
    BY DEF Part
  <1>2. Compared(Part(d, s, both), period) \in [current: Nat, previous: Nat]
    BY <1>1, ComparedType
  <1>3. s \in Int
    BY DataSourceAssumption DEF SegmentsOf
  <1> QED BY <1>2, <1>3 DEF SegmentRow, Segments

\* There is one row for each segment.
LEMMA SegmentRowsType ==
    ASSUME NEW d \in Range(Dimensions), NEW rows \in SUBSET Events, NEW period
    PROVE  LET all == SegmentRows(d, rows, period) IN
           all \in SUBSET Segments /\ IsFiniteSet(all) /\ OneEach(all)
  <1> DEFINE both == Either(rows, period)
             segments == SegmentsOf(d, both)
             seg == [row \in both |-> SegmentOf(d, row)]
             made == [s \in segments |-> SegmentRow(d, s, both, period)]
  <1>1. both \in SUBSET Events /\ IsFiniteSet(both)
    BY OfType, EventsFinite
  <1> HIDE DEF both
  <1>2. seg \in [both -> segments] /\ \A x \in segments : \E row \in both : seg[row] = x
    BY DEF SegmentsOf
  <1> HIDE DEF seg, segments
  <1>3. IsFiniteSet(segments)
    BY <1>1, <1>2, FiniteImage
  <1> DEFINE all == {SegmentRow(d, s, both, period) : s \in segments}
  <1>4. \A s \in segments : SegmentRow(d, s, both, period) \in Segments
    BY <1>1, SegmentRowType DEF segments
  <1>5. SegmentRows(d, rows, period) = all
    BY SegmentRowsAre DEF both, segments
  <1>6. made \in [segments -> all] /\ \A row \in all : \E s \in segments : made[s] = row
    OBVIOUS
  <1>7. all \in SUBSET Segments
    BY <1>4
  <1>8. OneEach(all)
    BY DEF OneEach, SegmentRow
  <1> HIDE DEF made, all
  <1>9. IsFiniteSet(all)
    BY <1>3, <1>6, FiniteImage
  <1> QED BY <1>5, <1>7, <1>8, <1>9

\* What two segments or two periods have apart, they have apart in any rows.
LEMMA PartOfPeriod ==
    ASSUME NEW d, NEW s, NEW rows, NEW period,
           NEW p \in {period, PrecedingEqualPeriod(period)}
    PROVE  Of(Part(d, s, Either(rows, period)), p) = {row \in Of(rows, p) : SegmentOf(d, row) = s}
  BY DEF Of, Part, Either

\* A ranking of rows of segments holds every segment, and each once.
LEMMA RankedSegments ==
    ASSUME NEW rows \in SUBSET Segments, IsFiniteSet(rows), OneEach(rows)
    PROVE  LET seq == Ranked(rows) IN
           /\ seq \in Seq(rows) /\ seq \in [1..Len(seq) -> rows]
           /\ Len(seq) \in Nat /\ Len(seq) = Cardinality(rows)
           /\ IsFiniteSet(DOMAIN seq) /\ DOMAIN seq = 1..Len(seq)
           /\ \A j, k \in DOMAIN seq : seq[j].segment = seq[k].segment => j = k
           /\ \A j, k \in DOMAIN seq : j < k => Outranks(seq[j], seq[k])
           /\ \A row \in rows : \E k \in DOMAIN seq : seq[k] = row
  <1> DEFINE seq == Ranked(rows)
             n == Cardinality(rows)
  <1>1. seq \in SetToSeqs(rows) /\ \A j, k \in DOMAIN seq : j < k => Outranks(seq[j], seq[k])
    BY RankedIs
  <1> HIDE DEF seq
  <1>2. /\ n \in Nat /\ seq \in [1..n -> rows] /\ seq \in Seq(rows) /\ Len(seq) = n
        /\ \A j, k \in DOMAIN seq : seq[j] = seq[k] => j = k
        /\ \A row \in rows : \E k \in DOMAIN seq : seq[k] = row
    BY <1>1, Enumerates
  <1>3. \A j, k \in DOMAIN seq : seq[j].segment = seq[k].segment => j = k
    BY <1>2 DEF OneEach
  <1> HIDE DEF n
  <1>4. IsFiniteSet(1..n)
    BY <1>2, FS_Interval
  <1>5. DOMAIN seq = 1..n
    BY <1>2
  <1> QED BY <1>1, <1>2, <1>3, <1>4, <1>5 DEF seq, n

\* The rows of a period, counted segment by segment, are the rows of the period.
LEMMA SegmentsAdd ==
    ASSUME NEW d \in Range(Dimensions), NEW rows \in SUBSET Events, NEW period,
           NEW p \in {period, PrecedingEqualPeriod(period)},
           NEW f \in [DOMAIN Ranked(SegmentRows(d, rows, period)) -> Int],
           \A k \in DOMAIN Ranked(SegmentRows(d, rows, period)) :
              f[k] = Cardinality(Of(Part(d, Ranked(SegmentRows(d, rows, period))[k].segment,
                                         Either(rows, period)), p))
    PROVE  SumFunction(f) = Cardinality(Of(rows, p))
  <1> DEFINE all == SegmentRows(d, rows, period)
             seq == Ranked(all)
             S == DOMAIN seq
             R == Of(rows, p)
             at == [row \in R |-> CHOOSE k \in S : seq[k].segment = SegmentOf(d, row)]
  <1>1. /\ all = {SegmentRow(d, s, Either(rows, period), period) :
                     s \in SegmentsOf(d, Either(rows, period))}
        /\ all \in SUBSET Segments /\ IsFiniteSet(all) /\ OneEach(all)
    BY SegmentRowsAre, SegmentRowsType
  <1>2. /\ IsFiniteSet(S)
        /\ \A j, k \in S : seq[j].segment = seq[k].segment => j = k
        /\ \A row \in all : \E k \in S : seq[k] = row
    <2> HIDE DEF all
    <2> QED BY <1>1, RankedSegments
  <1>3. IsFiniteSet(R)
    BY OfType, EventsFinite
  <1>4. \A row \in R : \E k \in S : seq[k].segment = SegmentOf(d, row)
    <2> SUFFICES ASSUME NEW row \in R PROVE \E k \in S : seq[k].segment = SegmentOf(d, row)
      OBVIOUS
    <2> DEFINE s == SegmentOf(d, row)
    <2>1. s \in SegmentsOf(d, Either(rows, period))
      BY DEF SegmentsOf, Either
    <2>2. SegmentRow(d, s, Either(rows, period), period) \in all
      BY <1>1, <2>1
    <2>3. SegmentRow(d, s, Either(rows, period), period).segment = s
      BY DEF SegmentRow
    <2> HIDE DEF all, seq, S
    <2> QED BY <1>2, <2>2, <2>3
  <1> HIDE DEF all, seq, S, R
  <1>5. /\ at \in [R -> S]
        /\ \A row \in R, k \in S : at[row] = k <=> seq[k].segment = SegmentOf(d, row)
    BY <1>2, <1>4
  <1>6. f \in [S -> Int] /\ \A k \in S : f[k] = Cardinality(
            Of(Part(d, seq[k].segment, Either(rows, period)), p))
    BY DEF S, seq, all
  <1> HIDE DEF at
  <1>7. \A k \in S : f[k] = Cardinality({row \in R : at[row] = k})
    <2> SUFFICES ASSUME NEW k \in S PROVE f[k] = Cardinality({row \in R : at[row] = k})
      OBVIOUS
    <2>1. Of(Part(d, seq[k].segment, Either(rows, period)), p) =
              {row \in R : SegmentOf(d, row) = seq[k].segment}
      BY PartOfPeriod DEF R
    <2>2. {row \in R : SegmentOf(d, row) = seq[k].segment} = {row \in R : at[row] = k}
      BY <1>5
    <2> QED BY <1>6, <2>1, <2>2
  <1>8. SumFunction(f) = Cardinality(R)
    BY <1>2, <1>3, <1>5, <1>6, <1>7, CountsAdd
  <1> QED BY <1>8 DEF R

-----------------------------------------------------------------------------
(***************************************************************************)
(* What a query reads.                                                     *)
(***************************************************************************)

\* A query that has read without an error has read these rows.
HasRead(c, rows) ==
    call[c].pc \in {"ending", "closing", "done"} /\ call[c].error = None => rows \subseteq call[c].read

\* A query reads what is in the warehouse, and what was when it began.
LEMMA AwaitReads ==
    ASSUME NEW c \in Callers, AdapterInv, Await(c)
    PROVE  /\ warehouse' = warehouse
           /\ \A d \in Callers \ {c} : call'[d] = call[d]
           /\ call[c].read \subseteq warehouse => call'[c].read \subseteq warehouse
           /\ \A rows \in SUBSET warehouse : HasRead(c, rows) => HasRead(c, rows)'
           /\ call[c].pc \notin {"idle", "done"}
  <1>1. call \in [Callers -> Call] /\ call[c] \in Call /\ InStep(c)
    BY DEF AdapterInv, AdapterTypeOK
  <1>2. ASSUME NEW error \in Errors, call' = [call EXCEPT ![c] = Caught(c, error)]
        PROVE  /\ \A d \in Callers \ {c} : call'[d] = call[d]
               /\ call'[c].read = call[c].read /\ call'[c].error # None
    <2>1. call'[c] = Caught(c, error)
      BY <1>1, <1>2
    <2>2. Caught(c, error).read = call[c].read /\ Caught(c, error).error = error
      BY <1>1 DEF Caught, Call
    <2>3. \A d \in Callers \ {c} : call'[d] = call[d]
      BY <1>1, <1>2
    <2> QED BY <2>1, <2>2, <2>3, ErrorsAreErrors
  <1>3. CASE Proceed(c)
    BY <1>1, <1>3 DEF Proceed, Call, HasRead, Awaits
  <1>4. CASE Read(c)
    <2>1. CASE call' = [call EXCEPT ![c].pc = "ending", ![c].read = warehouse]
      BY <1>1, <1>4, <2>1 DEF Read, At, HasRead, Call
    <2>2. CASE \E bad \in BadResults : call' = [call EXCEPT ![c] = Caught(c, bad)]
      <3>1. PICK bad \in Errors : call' = [call EXCEPT ![c] = Caught(c, bad)]
        BY <2>2, ErrorsAreErrors
      <3> QED BY <1>2, <1>4, <3>1 DEF Read, At, HasRead
    <2> QED BY <1>4, <2>1, <2>2 DEF Read
  <1>5. CASE NoClient(c)
    <2>1. PICK something \in BOOLEAN :
             call' = [call EXCEPT
                 ![c] = [Fresh(IF something THEN "closing" ELSE "done", "INVALID_POSTGRES_CLIENT")
                             EXCEPT !.client = something]]
      BY <1>5 DEF NoClient
    <2>2. /\ call'[c].read = {} /\ call'[c].error = "INVALID_POSTGRES_CLIENT"
          /\ \A d \in Callers \ {c} : call'[d] = call[d]
      BY <1>1, <2>1 DEF Fresh
    <2> QED BY <1>5, <2>2 DEF NoClient, At, HasRead, None
  <1>6. CASE AwaitFails(c)
    <2>1. PICK code \in Codes : call' = [call EXCEPT ![c] = Caught(c, Classified(code))]
      BY <1>6 DEF AwaitFails
    <2>2. Classified(code) \in Errors
      BY ClassifiedType, ErrorsAreErrors
    <2> QED BY <1>2, <1>6, <2>1, <2>2 DEF AwaitFails, HasRead, Awaits
  <1>7. CASE Undo(c)
    BY <1>1, <1>7 DEF Undo, At, HasRead, InStep, Call
  <1>8. CASE Close(c)
    BY <1>1, <1>8 DEF Close, At, HasRead, Call
  <1> QED BY <1>3, <1>4, <1>5, <1>6, <1>7, <1>8 DEF Await

\* A query that begins has read nothing, and one that is refused has an error.
LEMMA StartReads ==
    ASSUME NEW c \in Callers, AdapterInv, StartQuery(c)
    PROVE  /\ warehouse' = warehouse
           /\ \A d \in Callers \ {c} : call'[d] = call[d]
           /\ call'[c].read = {}
           /\ \A rows : HasRead(c, rows)'
  <1>1. call \in [Callers -> Call]
    BY DEF AdapterInv, AdapterTypeOK
  <1>2. PICK pc \in {"creating", "done"}, error \in Refusals \cup {None} :
           /\ call' = [call EXCEPT ![c] = Fresh(pc, error)]
           /\ pc = "done" => error # None
    BY DEF StartQuery, Refusals, None
  <1>3. call'[c] = Fresh(pc, error) /\ \A d \in Callers \ {c} : call'[d] = call[d]
    BY <1>1, <1>2
  <1>4. Fresh(pc, error).read = {} /\ Fresh(pc, error).pc = pc /\ Fresh(pc, error).error = error
    BY DEF Fresh
  <1> QED BY <1>2, <1>3, <1>4 DEF StartQuery, HasRead

-----------------------------------------------------------------------------
(***************************************************************************)
(* What an investigation holds.                                            *)
(***************************************************************************)

\* A breakdown of these rows, of which these segments were kept.
BreakdownOf(b, rows, period, kept) ==
    /\ kept \in Limited(SegmentRows(b.dimension, rows, period))
    /\ b.segments = Ranked(kept)
    /\ b.cut = (kept # SegmentRows(b.dimension, rows, period))

Breakdown == [dimension: Range(Dimensions), segments: Seq(Segments), cut: BOOLEAN]

\* A breakdown is of rows that were in the warehouse, among them those the
\* metric had been read from.
ReadLater(i, b) ==
    \E rows \in SUBSET warehouse : \E kept :
        /\ i.since \subseteq rows
        /\ BreakdownOf(b, rows, i.period, kept)

\* The metric is that of the rows it was read from, and nothing is broken down
\* before.
Holds(i) ==
    /\ i \in Investigation
    /\ i.since \subseteq warehouse
    /\ i.pc \notin {"breakdown", "composed"} => i.breakdowns = << >>
    /\ i.pc \in {"breakdown", "composed"} => i.baseline = Compared(i.since, i.period)
    /\ i.pc = "breakdown" => i.left # << >>
    /\ \A k \in DOMAIN i.breakdowns : ReadLater(i, i.breakdowns[k])

\* What a handler reads for a breakdown holds what it read of the metric.
Holding ==
    \A c \in Callers :
        /\ Holds(investigation[c])
        /\ call[c].read \subseteq warehouse
        /\ Stage(c, "breakdown") => HasRead(c, investigation[c].since)
        /\ Request.type # "investigation" => Stage(c, "idle")

LEMMA VerifiedType == Verified \in Seq(Range(Dimensions))
  <1> DEFINE S == Range(Dimensions)
             seqs == [k \in DOMAIN Dimensions |->
                         IF Dimensions[k] \in Request.allowed THEN <<Dimensions[k]>> ELSE <<>>]
  <1>1. Dimensions \in Seq(S) /\ \A k \in DOMAIN Dimensions : Dimensions[k] \in S
    BY DataSourceAssumption DEF Range
  <1>2. Verified = FlattenSeq(seqs)
    BY DEF Verified
  <1> HIDE DEF S
  <1>3. seqs \in Seq(Seq(S))
    <2>1. \A k \in DOMAIN Dimensions : seqs[k] \in Seq(S)
      BY <1>1
    <2>2. Len(Dimensions) \in Nat /\ DOMAIN Dimensions = 1..Len(Dimensions)
      BY <1>1
    <2>3. seqs \in [1..Len(Dimensions) -> Seq(S)]
      BY <2>1, <2>2
    <2> HIDE DEF seqs
    <2> QED BY <2>2, <2>3
  <1> HIDE DEF seqs
  <1> QED BY <1>2, <1>3, FlattenElements DEF S

\* What is kept of a sequence of ids is some of it.
LEMMA DeduplicatedType ==
    ASSUME NEW S, NEW ids \in Seq(S)
    PROVE  Deduplicated(ids) \in Seq(S)
  <1> DEFINE seqs == [k \in DOMAIN ids |->
                         IF \E j \in 1..(k - 1) : ids[j] = ids[k] THEN <<>> ELSE <<ids[k]>>]
  <1>1. seqs \in Seq(Seq(S))
    <2>1. \A k \in DOMAIN ids : seqs[k] \in Seq(S)
      OBVIOUS
    <2>2. Len(ids) \in Nat /\ DOMAIN ids = 1..Len(ids)
      OBVIOUS
    <2>3. seqs \in [1..Len(ids) -> Seq(S)]
      BY <2>1, <2>2
    <2> HIDE DEF seqs
    <2> QED BY <2>2, <2>3
  <1>2. Deduplicated(ids) = FlattenSeq(seqs)
    BY DEF Deduplicated
  <1> HIDE DEF seqs
  <1> QED BY <1>1, <1>2, FlattenElements

LEMMA SelectedType ==
    ASSUME Circumstances, Request.type = "investigation", Selectable
    PROVE  Selected \in Seq(Range(Dimensions))
  <1> DEFINE S == Range(Dimensions)
  <1>1. Verified \in Seq(S)
    BY VerifiedType
  <1>2. Request.limit \in Nat /\ \A asked \in Request.asked : asked \in Seq(Range(asked))
    BY ScenarioAssumption DEF Circumstances, Request
  <1>3. CASE Request.asked = {}
    <2> DEFINE T == {Request.limit, Len(Verified)}
    <2>1. T \in SUBSET Int /\ T # {} /\ \A m \in T : 0 <= m
      BY <1>1, <1>2
    <2>2. Min(T) \in T /\ \A m \in T : Min(T) <= m
      <3> HIDE DEF T
      <3> QED BY <2>1, MinOfIntegers
    <2>3. Min(T) \in 0..Len(Verified)
      BY <1>1, <1>2, <2>2
    <2>4. Selected = SubSeq(Verified, 1, Min(T))
      BY <1>3 DEF Selected
    <2> HIDE DEF T, S
    <2> QED BY <1>1, <2>3, <2>4 DEF S
  <1>4. CASE Request.asked # {}
    <2>1. PICK asked \in Request.asked : Selected = Deduplicated(asked)
      BY <1>4 DEF Selected
    <2>2. Range(asked) \subseteq Range(Verified)
      BY <2>1 DEF Selectable
    <2>3. \A k \in DOMAIN Verified : Verified[k] \in S
      BY <1>1
    <2>4. Range(asked) \subseteq S
      BY <2>2, <2>3 DEF Range
    <2>5. asked \in Seq(Range(asked))
      BY <1>2
    <2> HIDE DEF S
    <2> DEFINE A == Range(asked)
    <2>6. A \subseteq S /\ asked \in Seq(A)
      BY <2>4, <2>5
    <2> HIDE DEF A
    <2>7. asked \in Seq(S)
      BY <2>6
    <2>8. Deduplicated(asked) \in Seq(S)
      BY <2>7, DeduplicatedType
    <2> QED BY <2>1, <2>8 DEF S
  <1> QED BY <1>3, <1>4

LEMMA KeptType ==
    ASSUME NEW d \in Range(Dimensions), NEW rows \in SUBSET Events, NEW period,
           NEW kept \in Limited(SegmentRows(d, rows, period))
    PROVE  /\ kept \in SUBSET Segments /\ IsFiniteSet(kept) /\ OneEach(kept)
           /\ kept \subseteq SegmentRows(d, rows, period)
  <1> DEFINE all == SegmentRows(d, rows, period)
  <1>1. all \in SUBSET Segments /\ IsFiniteSet(all) /\ OneEach(all)
    BY SegmentRowsType
  <1>2. kept \in SUBSET all
    BY DEF Limited
  <1> HIDE DEF all
  <1>3. IsFiniteSet(kept)
    BY <1>1, <1>2, FS_Subset
  <1> QED BY <1>1, <1>2, <1>3 DEF OneEach, all

LEMMA BreakdownType ==
    ASSUME NEW d \in Range(Dimensions), NEW rows \in SUBSET Events, NEW period,
           NEW kept \in Limited(SegmentRows(d, rows, period)), NEW cut \in BOOLEAN
    PROVE  [dimension |-> d, segments |-> Ranked(kept), cut |-> cut] \in Breakdown
  <1>1. kept \in SUBSET Segments /\ IsFiniteSet(kept) /\ OneEach(kept)
    BY KeptType
  <1>2. Ranked(kept) \in Seq(kept)
    BY <1>1, RankedSegments
  <1>3. Ranked(kept) \in Seq(Segments)
    BY <1>1, <1>2
  <1> QED BY <1>3 DEF Breakdown

LEMMA BegunPeriodType ==
    ASSUME Circumstances, NEW period, OfBegunDates(period)
    PROVE  period \in Period
  <1>1. scenario.zone \in Zone
    BY ScenarioAssumption DEF Circumstances
  <1>2. PICK from, to \in Int : period = Days(scenario.zone, from, to)
    BY DEF OfBegunDates
  <1> QED BY <1>1, <1>2, MidnightType DEF Days, Period

\* What is held is held while events arrive.
LEMMA HoldsOn ==
    ASSUME NEW i, Holds(i), warehouse \subseteq warehouse', scenario' = scenario
    PROVE  Holds(i)'
  <1>1. \A rows, period : Compared(rows, period)' = Compared(rows, period)
    BY DEF Compared, Aggregate, Of, Request
  <1>2. \A d, rows, period : SegmentRows(d, rows, period)' = SegmentRows(d, rows, period)
    BY DEF SegmentRows, Compared, Aggregate, Of, Request
  <1>3. ASSUME NEW b, ReadLater(i, b)
        PROVE  ReadLater(i, b)'
    <2>0. PICK rows \in SUBSET warehouse : \E kept :
             i.since \subseteq rows /\ BreakdownOf(b, rows, i.period, kept)
      BY <1>3 DEF ReadLater
    <2>1. PICK kept : i.since \subseteq rows /\ BreakdownOf(b, rows, i.period, kept)
      BY <2>0
    <2>2. BreakdownOf(b, rows, i.period, kept)'
      BY <1>2, <2>1 DEF BreakdownOf
    <2>3. rows \in SUBSET warehouse'
      OBVIOUS
    <2> QED BY <2>1, <2>2, <2>3 DEF ReadLater
  <1>4. /\ i \in Investigation
        /\ i.since \subseteq warehouse
        /\ i.pc \notin {"breakdown", "composed"} => i.breakdowns = << >>
        /\ i.pc \in {"breakdown", "composed"} => i.baseline = Compared(i.since, i.period)
        /\ i.pc = "breakdown" => i.left # << >>
        /\ \A k \in DOMAIN i.breakdowns : ReadLater(i, i.breakdowns[k])
    BY DEF Holds
  <1>5. \A k \in DOMAIN i.breakdowns : ReadLater(i, i.breakdowns[k])'
    BY <1>3, <1>4
  <1>6. i.pc \in {"breakdown", "composed"} => i.baseline = Compared(i.since, i.period)'
    BY <1>1, <1>4
  <1> QED BY <1>4, <1>5, <1>6 DEF Holds

\* A step of a handler changes what it holds, and as follows.
LEMMA HoldingHere ==
    ASSUME NEW c \in Callers, NEW j, AdapterInv, Gathering, Holding,
           Request.type = "investigation", scenario' = scenario,
           StartQuery(c) \/ (UNCHANGED adapterVars /\ j.pc # "breakdown"),
           investigation' = [investigation EXCEPT ![c] = j], Holds(j)
    PROVE  Holding'
  <1>1. investigation'[c] = j /\ \A d \in Callers \ {c} : investigation'[d] = investigation[d]
    BY DEF Gathering
  <1>2. /\ warehouse' = warehouse
        /\ \A d \in Callers \ {c} : call'[d] = call[d]
        /\ call'[c].read \subseteq warehouse
        /\ j.pc = "breakdown" => \A rows : HasRead(c, rows)'
    BY StartReads DEF adapterVars, Holding
  <1>3. ASSUME NEW d \in Callers
        PROVE  /\ Holds(investigation[d])'
               /\ (call[d].read \subseteq warehouse)'
               /\ (Stage(d, "breakdown") => HasRead(d, investigation[d].since))'
    <2>1. CASE d = c
      <3>1. Holds(investigation[c])'
        BY <1>1, <1>2, HoldsOn
      <3> QED BY <1>1, <1>2, <2>1, <3>1 DEF Stage
    <2>2. CASE d # c
      <3> DEFINE i == investigation[d]
      <3>1. Holds(i) /\ i' = i /\ call'[d] = call[d]
        BY <1>1, <1>2, <2>2 DEF Holding
      <3>2. PICK k : k = i
        OBVIOUS
      <3>3. Holds(k)'
        BY <1>2, <3>1, <3>2, HoldsOn
      <3>4. Holds(investigation[d])'
        BY <3>1, <3>2, <3>3
      <3> QED BY <1>2, <3>1, <3>4 DEF Holding, Stage, HasRead
    <2> QED BY <2>1, <2>2
  <1>4. Request' = Request
    BY DEF Request
  <1> QED BY <1>3, <1>4 DEF Holding

LEMMA BrokenHolds == Holds(Investigating("failed")) /\ Investigating("failed").pc = "failed"
  <1>1. Investigating("failed") \in Investigation
    <2>1. NoChange \in [current: Nat, previous: Nat]
      BY DEF NoChange
    <2>2. [start |-> 0, end |-> 0] \in Period
      BY DEF Period
    <2>3. << >> \in Seq(Range(Dimensions))
      OBVIOUS
    <2>4. << >> \in Seq(Breakdown)
      OBVIOUS
    <2>5. Seq(Breakdown) = Seq([dimension: Range(Dimensions),
                                segments: Seq([segment: Int, current: Nat, previous: Nat]),
                                cut: BOOLEAN])
      BY DEF Breakdown, Segments
    <2> HIDE DEF Breakdown, Period, NoChange
    <2> QED BY <2>1, <2>2, <2>3, <2>4, <2>5 DEF Investigating, Investigation, None
  <1> QED BY <1>1 DEF Holds, Investigating

LEMMA InvestigationFields ==
    ASSUME NEW i \in Investigation
    PROVE  /\ InvestigationShape(i)
           /\ i.period \in Period /\ i.baseline \in [current: Nat, previous: Nat]
           /\ i.left \in Seq(Range(Dimensions)) /\ i.breakdowns \in Seq(Breakdown)
           /\ i.since \in SUBSET Events
  <1>1. Seq(Breakdown) = Seq([dimension: Range(Dimensions),
                              segments: Seq([segment: Int, current: Nat, previous: Nat]),
                              cut: BOOLEAN])
    BY DEF Breakdown, Segments
  <1> HIDE DEF Breakdown, Period
  <1> QED BY <1>1 DEF Investigation, InvestigationShape

LEMMA InvestigationFrom ==
    ASSUME NEW i, InvestigationShape(i),
           i.pc \in {"idle", "measuring", "discovering", "counting", "baseline", "breakdown",
                     "composed", "failed"},
           i.freshness \in {None, "fresh", "stale", "unknown"},
           i.health \in {None, "healthy", "warning", "invalid"},
           i.period \in Period, i.baseline \in [current: Nat, previous: Nat],
           i.left \in Seq(Range(Dimensions)), i.breakdowns \in Seq(Breakdown),
           i.since \in SUBSET Events
    PROVE  i \in Investigation
  <1>1. Seq(Breakdown) = Seq([dimension: Range(Dimensions),
                              segments: Seq([segment: Int, current: Nat, previous: Nat]),
                              cut: BOOLEAN])
    BY DEF Breakdown, Segments
  <1> HIDE DEF Breakdown, Period
  <1> QED BY <1>1 DEF Investigation, InvestigationShape

\* The metric is read in both periods.
LEMMA BaselinedHolds ==
    ASSUME NEW c \in Callers, AdapterInv, Gathering, Holding, Baselined(c), ~Breaks(c)
    PROVE  Holding'
  <1> DEFINE i == investigation[c]
             values == Compared(call[c].read, i.period)
             pc == IF i.left = << >> THEN "composed" ELSE "breakdown"
             j == [i EXCEPT !.baseline = values, !.pc = pc, !.since = call[c].read]
  <1>1. /\ investigation = [d \in Callers |-> investigation[d]]
        /\ Holds(i) /\ call[c].read \subseteq warehouse
        /\ Request.type # "investigation" => Stage(c, "idle")
    BY DEF Gathering, Holding
  <1>2. /\ investigation' = [investigation EXCEPT ![c] = j] /\ i.pc = "baseline"
        /\ IF i.left = << >> THEN UNCHANGED adapterVars ELSE StartQuery(c)
        /\ scenario' = scenario /\ Request.type = "investigation"
    BY <1>1 DEF Baselined, Stage, Rest
  <1>3. /\ i \in Investigation /\ InvestigationShape(i) /\ i.breakdowns = << >>
        /\ i.period \in Period /\ i.left \in Seq(Range(Dimensions))
    BY <1>1, <1>2, InvestigationFields DEF Holds
  <1>4. call[c].read \in SUBSET Events
    BY <1>1 DEF AdapterInv, AdapterTypeOK
  <1>5. values \in [current: Nat, previous: Nat]
    BY <1>4, ComparedType
  <1>6. /\ InvestigationShape(j)
        /\ j.pc = pc /\ j.freshness = i.freshness /\ j.health = i.health /\ j.period = i.period
        /\ j.baseline = values /\ j.left = i.left /\ j.breakdowns = << >> /\ j.since = call[c].read
    <2> HIDE DEF values, pc
    <2> QED BY <1>3 DEF InvestigationShape
  <1> HIDE DEF j
  <1>7. j \in Investigation
    <2>1. /\ i.freshness \in {None, "fresh", "stale", "unknown"}
          /\ i.health \in {None, "healthy", "warning", "invalid"}
      BY <1>3 DEF Investigation
    <2>2. << >> \in Seq(Breakdown) /\ pc \in {"breakdown", "composed"}
      OBVIOUS
    <2> HIDE DEF values, pc
    <2> QED BY <1>3, <1>4, <1>5, <1>6, <2>1, <2>2, InvestigationFrom
  <1>8. Holds(j)
    BY <1>1, <1>6, <1>7 DEF Holds
  <1>9. StartQuery(c) \/ (UNCHANGED adapterVars /\ j.pc # "breakdown")
    BY <1>2, <1>6
  <1> QED BY <1>2, <1>8, <1>9, HoldingHere

\* A dimension is broken down, of rows that hold those of the metric.
LEMMA BrokenDownHolds ==
    ASSUME NEW c \in Callers, AdapterInv, Gathering, Holding, BrokenDown(c), ~Breaks(c)
    PROVE  Holding'
  <1> DEFINE i == investigation[c]
             d == Head(i.left)
             rows == call[c].read
             all == SegmentRows(d, rows, i.period)
             pc == IF Tail(i.left) = << >> THEN "composed" ELSE "breakdown"
  <1>1. /\ investigation = [e \in Callers |-> investigation[e]]
        /\ Holds(i) /\ rows \subseteq warehouse
        /\ Request.type # "investigation" => Stage(c, "idle")
        /\ Stage(c, "breakdown") => HasRead(c, i.since)
    BY DEF Gathering, Holding
  <1>2. PICK kept \in Limited(all) :
           /\ investigation' = [investigation EXCEPT
                  ![c].breakdowns = Append(@,
                      [dimension |-> d, segments |-> Ranked(kept), cut |-> kept # all]),
                  ![c].left = Tail(@),
                  ![c].pc = pc]
           /\ i.pc = "breakdown" /\ Answered(c)
           /\ IF Tail(i.left) = << >> THEN UNCHANGED adapterVars ELSE StartQuery(c)
           /\ scenario' = scenario /\ Request.type = "investigation"
    BY <1>1 DEF BrokenDown, Stage, Rest
  <1> DEFINE cut == (kept # all)
             b == [dimension |-> d, segments |-> Ranked(kept), cut |-> cut]
             j == [i EXCEPT !.breakdowns = Append(i.breakdowns, b), !.left = Tail(i.left), !.pc = pc]
  <1>3. investigation' = [investigation EXCEPT ![c] = j]
    <2> HIDE DEF d, all, b, pc
    <2>1. investigation' = [investigation EXCEPT
              ![c].breakdowns = Append(@, b), ![c].left = Tail(@), ![c].pc = pc]
      BY <1>2 DEF b
    <2> QED BY <1>1, <2>1
  <1>4. /\ i \in Investigation /\ InvestigationShape(i) /\ i.breakdowns \in Seq(Breakdown)
        /\ i.period \in Period /\ i.left \in Seq(Range(Dimensions)) /\ i.left # << >>
        /\ i.baseline \in [current: Nat, previous: Nat] /\ i.since \in SUBSET Events
        /\ i.baseline = Compared(i.since, i.period) /\ i.since \subseteq warehouse
        /\ \A k \in DOMAIN i.breakdowns : ReadLater(i, i.breakdowns[k])
    BY <1>1, <1>2, InvestigationFields DEF Holds
  <1>5. /\ d \in Range(Dimensions) /\ Tail(i.left) \in Seq(Range(Dimensions))
    BY <1>4
  <1>6. rows \in SUBSET Events /\ rows \in SUBSET warehouse /\ i.since \subseteq rows
    BY <1>1, <1>2 DEF AdapterInv, AdapterTypeOK, InStep, Stage, HasRead, Answered, At
  <1>7. b \in Breakdown
    <2>1. cut \in BOOLEAN
      OBVIOUS
    <2> HIDE DEF d, rows, cut
    <2> QED BY <1>2, <1>5, <1>6, <2>1, BreakdownType
  <1>8. /\ InvestigationShape(j)
        /\ j.pc = pc /\ j.freshness = i.freshness /\ j.health = i.health /\ j.period = i.period
        /\ j.baseline = i.baseline /\ j.left = Tail(i.left)
        /\ j.breakdowns = Append(i.breakdowns, b) /\ j.since = i.since
    <2> HIDE DEF b, pc
    <2> QED BY <1>4 DEF InvestigationShape
  <1>9. BreakdownOf(b, rows, i.period, kept)
    <2>1. b.dimension = d /\ b.segments = Ranked(kept) /\ b.cut = (kept # all)
      OBVIOUS
    <2> HIDE DEF b, d
    <2> QED BY <1>2, <2>1 DEF BreakdownOf
  <1> HIDE DEF j, b
  <1>10. Append(i.breakdowns, b) \in Seq(Breakdown)
    BY <1>4, <1>7
  <1>11. j \in Investigation
    <2>1. /\ i.freshness \in {None, "fresh", "stale", "unknown"}
          /\ i.health \in {None, "healthy", "warning", "invalid"}
      BY <1>4 DEF Investigation
    <2>2. pc \in {"breakdown", "composed"}
      OBVIOUS
    <2> HIDE DEF pc
    <2> QED BY <1>4, <1>5, <1>8, <1>10, <2>1, <2>2, InvestigationFrom
  <1>12. \A k \in DOMAIN j.breakdowns : ReadLater(j, j.breakdowns[k])
    <2> SUFFICES ASSUME NEW k \in DOMAIN Append(i.breakdowns, b)
                 PROVE  ReadLater(j, Append(i.breakdowns, b)[k])
      BY <1>8
    <2>1. CASE k \in DOMAIN i.breakdowns /\ Append(i.breakdowns, b)[k] = i.breakdowns[k]
      <3>2. ReadLater(i, i.breakdowns[k])
        BY <1>4, <2>1
      <3>3. ReadLater(j, i.breakdowns[k])
        BY <1>8, <3>2 DEF ReadLater
      <3> QED BY <2>1, <3>3
    <2>2. CASE Append(i.breakdowns, b)[k] = b
      <3>2. j.since \subseteq rows /\ BreakdownOf(b, rows, j.period, kept)
        BY <1>6, <1>8, <1>9
      <3>3. ReadLater(j, b)
        <4> HIDE DEF rows
        <4> QED BY <1>6, <3>2 DEF ReadLater
      <3> QED BY <2>2, <3>3
    <2>3. \/ k \in DOMAIN i.breakdowns /\ Append(i.breakdowns, b)[k] = i.breakdowns[k]
          \/ Append(i.breakdowns, b)[k] = b
      BY <1>4, AppendIs
    <2> QED BY <2>1, <2>2, <2>3
  <1>13. Holds(j)
    BY <1>4, <1>8, <1>11, <1>12 DEF Holds
  <1>14. StartQuery(c) \/ (UNCHANGED adapterVars /\ j.pc # "breakdown")
    BY <1>2, <1>8
  <1> QED BY <1>2, <1>3, <1>13, <1>14, HoldingHere

\* The stages before the metric is read.
LEMMA EarlyHolds ==
    ASSUME NEW c \in Callers, Circumstances, AdapterInv, Gathering, Holding,
           Begin(c) \/ Measured(c) \/ Discovered(c) \/ Counted(c), ~Breaks(c)
    PROVE  Holding'
  <1> DEFINE i == investigation[c]
  <1>1. /\ investigation = [d \in Callers |-> investigation[d]]
        /\ Holds(i)
        /\ Request.type # "investigation" => Stage(c, "idle")
    BY DEF Gathering, Holding
  <1>2. /\ scenario' = scenario /\ Request.type = "investigation"
        /\ i.pc \in {"idle", "measuring", "discovering", "counting"}
    <2>1. Stage(c, "idle") \/ Stage(c, "measuring") \/ Stage(c, "discovering") \/ Stage(c, "counting")
      BY DEF Begin, Measured, Discovered, Counted
    <2>2. Stage(c, "idle") => Request.type = "investigation"
      BY DEF Begin, Measured, Discovered, Counted, Stage
    <2>3. scenario' = scenario
      BY DEF Begin, Measured, Discovered, Counted, Rest
    <2> QED BY <1>1, <2>1, <2>2, <2>3 DEF Stage
  <1>3. /\ i \in Investigation /\ InvestigationShape(i) /\ i.breakdowns = << >>
        /\ i.period \in Period /\ i.left \in Seq(Range(Dimensions))
        /\ i.baseline \in [current: Nat, previous: Nat] /\ i.since \in SUBSET Events
        /\ i.since \subseteq warehouse
        /\ i.freshness \in {None, "fresh", "stale", "unknown"}
        /\ i.health \in {None, "healthy", "warning", "invalid"}
    <2>1. /\ i \in Investigation /\ i.breakdowns = << >> /\ i.since \subseteq warehouse
      BY <1>1, <1>2 DEF Holds
    <2>2. /\ i.freshness \in {None, "fresh", "stale", "unknown"}
          /\ i.health \in {None, "healthy", "warning", "invalid"}
      BY <2>1 DEF Investigation
    <2> QED BY <2>1, <2>2, InvestigationFields
  <1>4. ASSUME NEW j, InvestigationShape(j),
               j.pc \in {"measuring", "discovering", "counting", "baseline"},
               j.freshness \in {None, "fresh", "stale", "unknown"},
               j.health \in {None, "healthy", "warning", "invalid"},
               j.period \in Period, j.left \in Seq(Range(Dimensions)),
               j.baseline = i.baseline, j.breakdowns = i.breakdowns, j.since = i.since,
               investigation' = [investigation EXCEPT ![c] = j], StartQuery(c)
        PROVE  Holding'
    <2>1. << >> \in Seq(Breakdown)
      OBVIOUS
    <2>2. j \in Investigation
      BY <1>3, <1>4, <2>1, InvestigationFrom
    <2>3. Holds(j)
      BY <1>3, <1>4, <2>2 DEF Holds
    <2> QED BY <1>2, <1>4, <2>3, HoldingHere
  <1>5. ASSUME PlanInvestigation(c), ~Breaks(c)
        PROVE  Holding'
    <2> DEFINE health == Health(scenario.columns)
               period == ResolvePeriod(Request.period, scenario.zone, scenario.now)
    <2>1. /\ Selectable /\ StartQuery(c)
          /\ investigation' = [investigation EXCEPT
                 ![c].pc = "baseline", ![c].health = health, ![c].period = period,
                 ![c].left = Selected]
      BY <1>5 DEF PlanInvestigation
    <2>2. health \in {None, "healthy", "warning", "invalid"}
      BY DEF Health
    <2>3. period \in Period
      BY PeriodsBegin, BegunPeriodType
    <2>4. Selected \in Seq(Range(Dimensions))
      BY <1>2, <2>1, SelectedType
    <2> HIDE DEF health, period
    <2>5. PICK j : j = [i EXCEPT !.pc = "baseline", !.freshness = i.freshness, !.health = health,
                                 !.period = period, !.left = Selected]
      OBVIOUS
    <2>6. investigation' = [investigation EXCEPT ![c] = j]
      BY <1>1, <1>3, <2>1, <2>5 DEF InvestigationShape
    <2>7. /\ InvestigationShape(j)
          /\ j.pc = "baseline" /\ j.freshness = i.freshness /\ j.health = health
          /\ j.period = period /\ j.left = Selected
          /\ j.baseline = i.baseline /\ j.breakdowns = i.breakdowns /\ j.since = i.since
      BY <1>3, <2>5 DEF InvestigationShape
    <2> QED BY <1>3, <1>4, <2>1, <2>2, <2>3, <2>4, <2>6, <2>7
  <1>6. ASSUME NEW pc \in {"measuring", "counting"}, Goes(c, pc), StartQuery(c)
        PROVE  Holding'
    <2>1. PICK j : j = [i EXCEPT !.pc = pc, !.freshness = i.freshness, !.health = i.health,
                                 !.period = i.period, !.left = i.left]
      OBVIOUS
    <2>2. investigation' = [investigation EXCEPT ![c] = j]
      BY <1>1, <1>3, <1>6, <2>1 DEF Goes, InvestigationShape
    <2>3. /\ InvestigationShape(j)
          /\ j.pc = pc /\ j.freshness = i.freshness /\ j.health = i.health
          /\ j.period = i.period /\ j.left = i.left
          /\ j.baseline = i.baseline /\ j.breakdowns = i.breakdowns /\ j.since = i.since
      BY <1>3, <2>1 DEF InvestigationShape
    <2> QED BY <1>3, <1>4, <1>6, <2>2, <2>3
  <1>7. CASE Begin(c)
    BY <1>6, <1>7 DEF Begin
  <1>8. CASE Measured(c)
    <2>1. PICK status \in {"fresh", "stale", "unknown"} :
             investigation' = [investigation EXCEPT ![c].pc = "discovering", ![c].freshness = status]
      BY <1>8 DEF Measured
    <2>2. PICK j : j = [i EXCEPT !.pc = "discovering", !.freshness = status, !.health = i.health,
                                 !.period = i.period, !.left = i.left]
      OBVIOUS
    <2>3. investigation' = [investigation EXCEPT ![c] = j]
      BY <1>1, <1>3, <2>1, <2>2 DEF InvestigationShape
    <2>4. StartQuery(c)
      BY <1>8 DEF Measured
    <2>5. /\ InvestigationShape(j)
          /\ j.pc = "discovering" /\ j.freshness = status /\ j.health = i.health
          /\ j.period = i.period /\ j.left = i.left
          /\ j.baseline = i.baseline /\ j.breakdowns = i.breakdowns /\ j.since = i.since
      BY <1>3, <2>2 DEF InvestigationShape
    <2> QED BY <1>3, <1>4, <2>3, <2>4, <2>5
  <1>9. CASE Discovered(c)
    BY <1>5, <1>6, <1>9 DEF Discovered
  <1>10. CASE Counted(c)
    BY <1>5, <1>10 DEF Counted
  <1> QED BY <1>7, <1>8, <1>9, <1>10

LEMMA StagesHold ==
    ASSUME NEW c \in Callers, Circumstances, AdapterInv, Gathering, Holding,
           Begin(c) \/ Investigate(c)
    PROVE  Holding'
  <1>1. CASE Breaks(c)
    <2>1. Request.type = "investigation"
      BY DEF Begin, Investigate, Measured, Discovered, Counted, Baselined, BrokenDown, Stage, Holding
    <2>2. scenario' = scenario
      BY StagesAwait DEF Begin, Rest
    <2> QED BY <1>1, <2>1, <2>2, BrokenHolds, HoldingHere DEF Breaks
  <1> QED BY <1>1, EarlyHolds, BaselinedHolds, BrokenDownHolds DEF Investigate

LEMMA HoldingStep ==
    ASSUME Circumstances, AdapterInv, Gathering, Holding, [Next]_vars
    PROVE  Holding'
  <1>1. ASSUME scenario' = scenario, investigation' = investigation, warehouse \subseteq warehouse',
               \A c \in Callers : \/ call'[c] = call[c]
                                  \/ StartQuery(c) /\ ~Stage(c, "breakdown")
                                  \/ Await(c)
        PROVE  Holding'
    <2> SUFFICES ASSUME NEW c \in Callers
                 PROVE  /\ Holds(investigation[c])'
                        /\ (call[c].read \subseteq warehouse)'
                        /\ (Stage(c, "breakdown") => HasRead(c, investigation[c].since))'
                        /\ (Request.type # "investigation" => Stage(c, "idle"))'
      BY DEF Holding
    <2>1. PICK i : i = investigation[c]
      OBVIOUS
    <2>2. Holds(i) /\ i = investigation'[c]
      BY <1>1, <2>1 DEF Holding
    <2>3. Holds(i)'
      BY <1>1, <2>2, HoldsOn
    <2>4. i.since \subseteq warehouse
      BY <2>2 DEF Holds
    <2>5. /\ call'[c].read \subseteq warehouse'
          /\ Stage(c, "breakdown") => HasRead(c, i.since)'
      <3>1. CASE call'[c] = call[c]
        BY <1>1, <2>1, <3>1 DEF Holding, HasRead
      <3>2. CASE StartQuery(c) /\ ~Stage(c, "breakdown")
        BY <1>1, <3>2, StartReads
      <3>3. CASE Await(c)
        BY <1>1, <2>1, <2>4, <3>3, AwaitReads DEF Holding
      <3> QED BY <1>1, <3>1, <3>2, <3>3
    <2>6. Stage(c, "breakdown")' = Stage(c, "breakdown") /\ Stage(c, "idle")' = Stage(c, "idle")
      BY <1>1 DEF Stage
    <2>7. Request' = Request
      BY <1>1 DEF Request
    <2> QED BY <2>2, <2>3, <2>5, <2>6, <2>7 DEF Holding
  <1>2. ASSUME NEW c \in Callers, QueryWarehouse(c) PROVE Holding'
    <2>1. Await(c) /\ scenario' = scenario /\ investigation' = investigation
      BY <1>2 DEF QueryWarehouse, Rest
    <2>2. warehouse' = warehouse /\ \A d \in Callers \ {c} : call'[d] = call[d]
      BY <2>1, AwaitReads
    <2> QED BY <1>1, <2>1, <2>2
  <1>3. ASSUME NEW c \in Callers, BeginPreview(c) \/ Previewed(c), investigation' = investigation
        PROVE  Holding'
    <2>1. scenario' = scenario /\ (StartQuery(c) \/ UNCHANGED adapterVars)
      BY <1>3 DEF BeginPreview, Previewed, Rest
    <2>2. CASE UNCHANGED adapterVars
      BY <1>1, <1>3, <2>1, <2>2 DEF adapterVars
    <2>3. CASE StartQuery(c)
      <3>1. CASE BeginPreview(c)
        <4>1. ~Stage(c, "breakdown")
          BY <3>1 DEF BeginPreview, Holding, Stage
        <4>2. warehouse' = warehouse /\ \A d \in Callers \ {c} : call'[d] = call[d]
          BY <2>3, StartReads
        <4> QED BY <1>1, <1>3, <2>1, <2>3, <4>1, <4>2
      <3>2. CASE Previewed(c)
        BY <2>2, <3>2 DEF Previewed
      <3> QED BY <1>3, <3>1, <3>2
    <2> QED BY <2>1, <2>2, <2>3
  <1>4. CASE Arrives
    BY <1>1, <1>4 DEF Arrives, Ingest
  <1>5. CASE UNCHANGED vars
    BY <1>1, <1>5 DEF vars
  <1> QED BY <1>2, <1>3, <1>4, <1>5, StagesHold DEF Next, Serve

LEMMA HoldingBegins == Init => Holding
  <1> SUFFICES ASSUME Init PROVE Holding
    OBVIOUS
  <1>1. Holds(Investigating("idle"))
    <2>1. Investigating("idle") = [Investigating("failed") EXCEPT !.pc = "idle"]
      BY DEF Investigating
    <2>2. Investigating("idle") \in Investigation
      BY <2>1, BrokenHolds DEF Holds, Investigation
    <2> QED BY <2>2 DEF Holds, Investigating
  <1>2. Fresh("idle", None).read = {}
    BY DEF Fresh
  <1>3. Investigating("idle").pc = "idle"
    BY DEF Investigating
  <1> QED BY <1>1, <1>2, <1>3 DEF Init, Holding, Stage

\* In every reachable state the metric is that of the rows it was read from, and
\* every breakdown is of rows that were in the warehouse and hold those.
THEOREM AlwaysHolding == Spec => []Holding /\ []Gathering /\ []Circumstances /\ []AdapterInv
  <1>1. Spec => []AdapterInv
    BY AnalysesUseAdapter, AdapterInvariant, PTL
  <1>2. Circumstances /\ AdapterInv /\ Gathering /\ Holding /\ [Next]_vars => Holding'
    BY HoldingStep
  <1> QED BY <1>1, <1>2, AlwaysGathering, HoldingBegins, PTL DEF Spec

-----------------------------------------------------------------------------
(***************************************************************************)
(* The segments add up.                                                    *)
(***************************************************************************)

LEMMA SegmentCounts ==
    ASSUME NEW d \in Range(Dimensions), NEW rows \in SUBSET Events, NEW period,
           Request.aggregation = "event_count"
    PROVE  LET seq == Ranked(SegmentRows(d, rows, period)) IN
           /\ SumFunction([k \in DOMAIN seq |-> seq[k].current]) = Cardinality(Of(rows, period))
           /\ SumFunction([k \in DOMAIN seq |-> seq[k].previous]) =
                  Cardinality(Of(rows, PrecedingEqualPeriod(period)))
  <1> DEFINE all == SegmentRows(d, rows, period)
             seq == Ranked(all)
             both == Either(rows, period)
             before == PrecedingEqualPeriod(period)
             f == [k \in DOMAIN seq |-> seq[k].current]
             g == [k \in DOMAIN seq |-> seq[k].previous]
  <1>1. all \in SUBSET Segments /\ IsFiniteSet(all) /\ OneEach(all)
    BY SegmentRowsType
  <1>2. \A k \in DOMAIN seq : seq[k] \in all
    <2> HIDE DEF all
    <2>1. seq \in [1..Len(seq) -> all]
      BY <1>1, RankedSegments
    <2> HIDE DEF seq
    <2> QED BY <2>1
  <1>3. ASSUME NEW k \in DOMAIN seq
        PROVE  /\ f[k] = Cardinality(Of(Part(d, seq[k].segment, both), period))
               /\ g[k] = Cardinality(Of(Part(d, seq[k].segment, both), before))
               /\ f[k] \in Nat /\ g[k] \in Nat
    <2>1. PICK s \in SegmentsOf(d, both) : seq[k] = SegmentRow(d, s, both, period)
      <3>1. seq[k] \in {SegmentRow(d, s, both, period) : s \in SegmentsOf(d, both)}
        <4> HIDE DEF seq
        <4> QED BY <1>2, SegmentRowsAre
      <3> HIDE DEF seq, both
      <3> QED BY <3>1
    <2>2. f[k] = seq[k].current /\ g[k] = seq[k].previous /\ seq[k] \in Segments
      BY <1>1, <1>2
    <2> HIDE DEF f, g, seq, both
    <2>3. /\ seq[k].segment = s
          /\ seq[k].current = Compared(Part(d, s, both), period).current
          /\ seq[k].previous = Compared(Part(d, s, both), period).previous
      BY <2>1 DEF SegmentRow
    <2>4. /\ Compared(Part(d, s, both), period).current = Cardinality(Of(Part(d, s, both), period))
          /\ Compared(Part(d, s, both), period).previous = Cardinality(Of(Part(d, s, both), before))
      BY DEF Compared, Aggregate
    <2>5. seq[k].current \in Nat /\ seq[k].previous \in Nat
      BY <2>2 DEF Segments
    <2> QED BY <2>2, <2>3, <2>4, <2>5
  <1> HIDE DEF f, g
  <1>4. f \in [DOMAIN seq -> Int] /\ g \in [DOMAIN seq -> Int]
    <2>1. f = [k \in DOMAIN seq |-> f[k]] /\ g = [k \in DOMAIN seq |-> g[k]]
      BY DEF f, g
    <2> QED BY <1>3, <2>1
  <1>5. SumFunction(f) = Cardinality(Of(rows, period))
    BY <1>3, <1>4, SegmentsAdd
  <1>6. SumFunction(g) = Cardinality(Of(rows, before))
    BY <1>3, <1>4, SegmentsAdd
  <1> QED BY <1>5, <1>6 DEF f, g

\* The rows of a period, some of which were there before.
LEMMA ArrivedSince ==
    ASSUME NEW since, NEW rows, NEW all \in SUBSET Events, NEW period,
           since \subseteq rows, rows \subseteq all
    PROVE  /\ Cardinality(Of(rows, period)) - Cardinality(Of(since, period))
                  \in 0..Cardinality(Of(all \ since, period))
           /\ Cardinality(Of(all \ since, period)) \in Nat
           /\ Cardinality(Of(all \ since, period)) = 0 => Of(rows, period) = Of(since, period)
  <1> DEFINE old == Of(since, period)
             new == Of(rows \ since, period)
             later == Of(all \ since, period)
  <1>1. /\ Of(rows, period) = old \cup new /\ old \cap new = {}
        /\ old \in SUBSET Events /\ later \in SUBSET Events /\ new \in SUBSET later
    BY DEF Of
  <1> HIDE DEF old, new, later
  <1>2. IsFiniteSet(old) /\ IsFiniteSet(later) /\ Cardinality(old) \in Nat /\ Cardinality(later) \in Nat
    BY <1>1, EventsFinite
  <1>3. IsFiniteSet(new) /\ Cardinality(new) \in Nat /\ Cardinality(new) <= Cardinality(later)
    BY <1>1, <1>2, FS_Subset, FS_CardinalityType
  <1>4. Cardinality(old \cup new) = Cardinality(old) + Cardinality(new)
    <2>1. Cardinality(old \cup new) = Cardinality(old) + Cardinality(new) - Cardinality(old \cap new)
      BY <1>2, <1>3, FS_Union
    <2>2. Cardinality(old \cap new) = 0
      BY <1>1, FS_EmptySet
    <2> QED BY <1>2, <1>3, <2>1, <2>2
  <1>5. Cardinality(Of(rows, period)) - Cardinality(old) \in 0..Cardinality(later)
    BY <1>1, <1>2, <1>3, <1>4
  <1>6. Cardinality(later) = 0 => later = {}
    BY <1>2, FS_EmptySet
  <1> QED BY <1>1, <1>2, <1>5, <1>6 DEF old, later

\* What a breakdown that is not cut adds up to.
LEMMA WholeBreakdown ==
    ASSUME NEW i, NEW b \in Breakdown, NEW rows \in SUBSET Events, NEW kept,
           Request.aggregation = "event_count", ~b.cut, BreakdownOf(b, rows, i.period, kept)
    PROVE  /\ kept = SegmentRows(b.dimension, rows, i.period)
           /\ Sum(b, "current") = Cardinality(Of(rows, i.period))
           /\ Sum(b, "previous") = Cardinality(Of(rows, PrecedingEqualPeriod(i.period)))
  <1>1. /\ kept = SegmentRows(b.dimension, rows, i.period)
        /\ b.segments = Ranked(SegmentRows(b.dimension, rows, i.period))
        /\ b.dimension \in Range(Dimensions)
    BY DEF BreakdownOf, Breakdown
  <1> DEFINE seq == Ranked(SegmentRows(b.dimension, rows, i.period))
  <1>2. /\ Sum(b, "current") = SumFunction([k \in DOMAIN seq |-> seq[k].current])
        /\ Sum(b, "previous") = SumFunction([k \in DOMAIN seq |-> seq[k].previous])
    BY <1>1 DEF Sum
  <1>3. /\ SumFunction([k \in DOMAIN seq |-> seq[k].current]) = Cardinality(Of(rows, i.period))
        /\ SumFunction([k \in DOMAIN seq |-> seq[k].previous]) =
               Cardinality(Of(rows, PrecedingEqualPeriod(i.period)))
    BY <1>1, SegmentCounts
  <1> HIDE DEF seq
  <1> QED BY <1>1, <1>2, <1>3

\* What was read of the metric is counted.
LEMMA BaselineCounts ==
    ASSUME NEW i, Holds(i), i.pc = "composed", Request.aggregation = "event_count"
    PROVE  /\ i.baseline.current = Cardinality(Of(i.since, i.period))
           /\ i.baseline.previous = Cardinality(Of(i.since, PrecedingEqualPeriod(i.period)))
  BY DEF Holds, Compared, Aggregate

\* The segments of a dimension add up to the metric, for every set of events,
\* whatever arrives at any moment and whichever query fails, except for what
\* arrived after the metric was read.
THEOREM SegmentsAlwaysReconcile == Spec => []SegmentsReconcile
  <1>1. Holding /\ AdapterInv => SegmentsReconcile
    <2> SUFFICES ASSUME Holding, AdapterInv, NEW c \in Callers, Stage(c, "composed"),
                        NEW k \in DOMAIN investigation[c].breakdowns,
                        Request.aggregation = "event_count", ~investigation[c].breakdowns[k].cut
                 PROVE  LET i == investigation[c]
                            b == i.breakdowns[k] IN
                        /\ Sum(b, "current") - i.baseline.current \in 0..Arrived(i, i.period)
                        /\ Sum(b, "previous") - i.baseline.previous
                               \in 0..Arrived(i, PrecedingEqualPeriod(i.period))
      BY DEF SegmentsReconcile, Composed
    <2> DEFINE i == investigation[c]
               b == i.breakdowns[k]
               before == PrecedingEqualPeriod(i.period)
    <2>1. Holds(i) /\ i.pc = "composed" /\ warehouse \in SUBSET Events
      BY DEF Holding, Stage, AdapterInv, AdapterTypeOK
    <2>2. b \in Breakdown /\ ReadLater(i, b)
      BY <2>1, InvestigationFields DEF Holds
    <2>0. PICK rows \in SUBSET warehouse : \E kept :
             i.since \subseteq rows /\ BreakdownOf(b, rows, i.period, kept)
      BY <2>2 DEF ReadLater
    <2>3. PICK kept : i.since \subseteq rows /\ BreakdownOf(b, rows, i.period, kept)
      BY <2>0
    <2>4. /\ Sum(b, "current") = Cardinality(Of(rows, i.period))
          /\ Sum(b, "previous") = Cardinality(Of(rows, before))
      <3> HIDE DEF b, i
      <3>1. ~b.cut /\ rows \in SUBSET Events
        BY <2>1 DEF b, i
      <3> QED BY <2>2, <2>3, <3>1, WholeBreakdown
    <2>5. /\ i.baseline.current = Cardinality(Of(i.since, i.period))
          /\ i.baseline.previous = Cardinality(Of(i.since, before))
      BY <2>1, BaselineCounts
    <2>6. /\ Cardinality(Of(rows, i.period)) - Cardinality(Of(i.since, i.period))
                 \in 0..Arrived(i, i.period)
          /\ Cardinality(Of(rows, before)) - Cardinality(Of(i.since, before)) \in 0..Arrived(i, before)
      BY <2>1, <2>3, ArrivedSince DEF Arrived
    <2> HIDE DEF i, b, before
    <2>7. /\ Sum(b, "current") - i.baseline.current \in 0..Arrived(i, i.period)
          /\ Sum(b, "previous") - i.baseline.previous \in 0..Arrived(i, before)
      BY <2>4, <2>5, <2>6
    <2> QED BY <2>7 DEF i, b, before
  <1> QED BY <1>1, AlwaysHolding, PTL

-----------------------------------------------------------------------------
(***************************************************************************)
(* What is claimed of an investigation.                                    *)
(***************************************************************************)
Delay == Hypothesis("data-delay", {Item("data-quality", "freshness")}, 0)

Warning == Hypothesis("semantic-warning", {Item("data-quality", "semantic-health")}, 0)

NoChangeFound == Hypothesis("no-change", {Item("baseline", None)}, 0)

Insufficient(i) ==
    Hypothesis("insufficient",
        {Item("dimension", i.breakdowns[k].dimension) : k \in DOMAIN i.breakdowns}, 0)

\* Where a hypothesis comes from.
ComesFrom(i, h) ==
    \/ h = Delay /\ i.freshness = "stale"
    \/ h = Warning /\ i.health = "warning"
    \/ h = NoChangeFound
    \/ h = Insufficient(i)
    \/ \E m \in DOMAIN i.breakdowns : OfBreakdown(i.breakdowns[m], Change(i.baseline)) = <<h>>

\* The first of a sequence are some of it.
LEMMA FirstSome ==
    ASSUME NEW S, NEW seq \in Seq(S), NEW limit \in Nat
    PROVE  \A k \in DOMAIN SubSeq(seq, 1, Min({limit, Len(seq)})) :
              k \in DOMAIN seq /\ SubSeq(seq, 1, Min({limit, Len(seq)}))[k] = seq[k]
  <1> DEFINE T == {limit, Len(seq)}
             n == Min(T)
  <1>1. Len(seq) \in Nat /\ T \in SUBSET Int /\ T # {} /\ 0 \in Int /\ \A m \in T : 0 <= m
    OBVIOUS
  <1>2. n \in T /\ n <= Len(seq)
    <2>1. n \in T /\ \A m \in T : n <= m
      <3> HIDE DEF T
      <3> QED BY <1>1, MinOfIntegers
    <2> QED BY <2>1
  <1>3. n \in 0..Len(seq)
    <2> HIDE DEF n
    <2> QED BY <1>1, <1>2
  <1> HIDE DEF n
  <1>4. /\ DOMAIN SubSeq(seq, 1, n) = 1..n
        /\ \A k \in 1..n : k \in DOMAIN seq /\ SubSeq(seq, 1, n)[k] = seq[k]
    BY <1>1, <1>3
  <1> QED BY <1>4 DEF n

\* One thing or none is said of a breakdown, and of its dimension.
LEMMA OneOfBreakdown ==
    ASSUME NEW b, NEW change
    PROVE  \/ OfBreakdown(b, change) = << >>
           \/ \E h : /\ OfBreakdown(b, change) = <<h>>
                     /\ h.evidence = {Item("dimension", b.dimension)}
                     /\ h.type = "concentration" =>
                           LET first == b.segments[Min(Aligned(b.segments, change))] IN
                           /\ Aligned(b.segments, change) # {}
                           /\ ShareAtLeast(first, 50, b.segments)
                           /\ h.segment = first.segment
  <1> DEFINE first == b.segments[Min(Aligned(b.segments, change))]
             about == {Item("dimension", b.dimension)}
  <1>1. \/ OfBreakdown(b, change) = << >>
        \/ /\ Aligned(b.segments, change) # {} /\ ShareAtLeast(first, 50, b.segments)
           /\ OfBreakdown(b, change) = <<Hypothesis("concentration", about, first.segment)>>
        \/ OfBreakdown(b, change) = <<Hypothesis("broad", about, 0)>>
    BY DEF OfBreakdown
  <1> HIDE DEF about
  <1>2. /\ Hypothesis("concentration", about, first.segment).evidence = about
        /\ Hypothesis("concentration", about, first.segment).segment = first.segment
        /\ Hypothesis("broad", about, 0).evidence = about
        /\ Hypothesis("broad", about, 0).type = "broad"
    BY DEF Hypothesis
  <1> HIDE DEF first
  <1> QED BY <1>1, <1>2 DEF first, about

\* What is said of a breakdown is about its dimension, and a concentration is in
\* the first segment that moved as the metric did.
LEMMA SaidOfBreakdown ==
    ASSUME NEW b, NEW change, NEW h, OfBreakdown(b, change) = <<h>>
    PROVE  /\ h.evidence = {Item("dimension", b.dimension)}
           /\ h.type = "concentration" =>
                 LET first == b.segments[Min(Aligned(b.segments, change))] IN
                 /\ Aligned(b.segments, change) # {}
                 /\ ShareAtLeast(first, 50, b.segments)
                 /\ h.segment = first.segment
  <1> DEFINE first == b.segments[Min(Aligned(b.segments, change))]
             evidence == {Item("dimension", b.dimension)}
             aligned == Aligned(b.segments, change)
             share == ShareAtLeast(first, 50, b.segments)
             said == OfBreakdown(b, change)
  <1>1. \/ said = << >>
        \/ \E g : /\ said = <<g>>
                  /\ g.evidence = evidence
                  /\ g.type = "concentration" =>
                        aligned # {} /\ share /\ g.segment = first.segment
    BY OneOfBreakdown
  <1> HIDE DEF first, evidence, aligned, share
  <1>2. said = <<h>>
    OBVIOUS
  <1> HIDE DEF said
  <1>3. /\ h.evidence = evidence
        /\ h.type = "concentration" => aligned # {} /\ share /\ h.segment = first.segment
    <2>1. said # << >> /\ said[1] = h
      BY <1>2
    <2>2. PICK g : /\ said = <<g>>
                   /\ g.evidence = evidence
                   /\ g.type = "concentration" =>
                         aligned # {} /\ share /\ g.segment = first.segment
      BY <1>1, <2>1
    <2>3. g = h
      BY <2>1, <2>2
    <2> QED BY <2>2, <2>3
  <1> QED BY <1>3 DEF first, evidence, aligned, share

\* Every hypothesis comes from what the investigation found.
LEMMA HypothesesFrom ==
    ASSUME NEW i, i.breakdowns \in Seq(Breakdown)
    PROVE  \A k \in DOMAIN Hypotheses(i) : ComesFrom(i, Hypotheses(i)[k])
  <1> DEFINE change == Change(i.baseline)
             seqs == [k \in DOMAIN i.breakdowns |-> OfBreakdown(i.breakdowns[k], change)]
             S == {h \in {Delay, Warning, NoChangeFound, Insufficient(i)}
                         \cup {OfBreakdown(i.breakdowns[m], change)[1] : m \in DOMAIN i.breakdowns} :
                      ComesFrom(i, h)}
             quality == AboutQuality(i)
             found == quality \o FlattenSeq(seqs)
             all == IF change = 0 THEN Append(quality, NoChangeFound)
                    ELSE IF found = << >> THEN <<Insufficient(i)>> ELSE found
  <1>1. /\ NoChangeFound \in S /\ Insufficient(i) \in S
        /\ i.freshness = "stale" => Delay \in S
        /\ i.health = "warning" => Warning \in S
        /\ \A h \in S : ComesFrom(i, h)
    BY DEF ComesFrom
  <1>2. seqs \in Seq(Seq(S))
    <2>1. ASSUME NEW m \in DOMAIN i.breakdowns
          PROVE  seqs[m] \in Seq(S)
      <3> DEFINE said == OfBreakdown(i.breakdowns[m], change)
      <3>1. seqs[m] = said
        OBVIOUS
      <3>2. CASE said = << >>
        <4> HIDE DEF seqs, S
        <4> QED BY <3>1, <3>2
      <3>3. CASE \E h : said = <<h>>
        <4>1. PICK h : said = <<h>>
          BY <3>3
        <4> HIDE DEF change, seqs
        <4>2. ComesFrom(i, h) /\ said[1] = h
          BY <4>1 DEF ComesFrom, change
        <4>3. h \in S
          BY <4>2
        <4> HIDE DEF S, said
        <4> QED BY <3>1, <4>1, <4>3
      <3> QED BY <3>2, <3>3, OneOfBreakdown
    <2>2. Len(i.breakdowns) \in Nat /\ DOMAIN i.breakdowns = 1..Len(i.breakdowns)
      OBVIOUS
    <2>3. seqs = [m \in 1..Len(i.breakdowns) |-> seqs[m]]
      BY <2>2
    <2> HIDE DEF S, seqs
    <2> QED BY <2>1, <2>2, <2>3
  <1> HIDE DEF S, seqs, change
  <1>3. quality \in Seq(S)
    <2> DEFINE s == IF i.freshness = "stale" THEN <<Delay>> ELSE << >>
               t == IF i.health = "warning" THEN <<Warning>> ELSE << >>
    <2>1. quality = s \o t
      BY DEF AboutQuality, Delay, Warning
    <2>2. s \in Seq(S) /\ t \in Seq(S)
      BY <1>1
    <2> HIDE DEF s, t, quality
    <2> QED BY <2>1, <2>2
  <1> HIDE DEF quality
  <1>4. found \in Seq(S)
    <2> DEFINE t == FlattenSeq(seqs)
    <2>1. t \in Seq(S)
      BY <1>2, FlattenElements
    <2> HIDE DEF t
    <2>2. quality \o t \in Seq(S)
      BY <1>3, <2>1
    <2> QED BY <2>2 DEF t
  <1> HIDE DEF found
  <1>5. all \in Seq(S)
    <2>1. Append(quality, NoChangeFound) \in Seq(S)
      BY <1>1, <1>3
    <2>2. <<Insufficient(i)>> \in Seq(S)
      BY <1>1
    <2> QED BY <1>4, <2>1, <2>2
  <1>6. Hypotheses(i) = SubSeq(all, 1, Min({6, Len(all)}))
    BY DEF Hypotheses, found, quality, seqs, change, NoChangeFound, Insufficient
  <1> HIDE DEF all
  <1>7. ASSUME NEW k \in DOMAIN Hypotheses(i)
        PROVE  ComesFrom(i, Hypotheses(i)[k])
    <2> DEFINE first == SubSeq(all, 1, Min({6, Len(all)}))
    <2>3. \A m \in DOMAIN first : m \in DOMAIN all /\ first[m] = all[m]
      BY <1>5, FirstSome, 6 \in Nat, Zenon
    <2> HIDE DEF first
    <2>1. k \in DOMAIN all /\ Hypotheses(i)[k] = all[k]
      BY <1>6, <2>3 DEF first
    <2>2. all[k] \in S
      BY <1>5, <2>1
    <2> QED BY <1>1, <2>1, <2>2
  <1> QED BY <1>7

\* Every observation cites one thing the investigation found.
LEMMA ObservationsCite ==
    ASSUME NEW i, i.breakdowns \in Seq(Breakdown), NEW observation \in Observations(i)
    PROVE  Cites(observation, i)
  <1> DEFINE evidence == observation.evidence
             held == {Item("dimension", i.breakdowns[m].dimension) : m \in DOMAIN i.breakdowns}
  <1>1. \/ evidence = {Item("baseline", None)}
        \/ \E b \in Range(i.breakdowns) : evidence = {Item("dimension", b.dimension)}
        \/ i.freshness = "stale" /\ evidence = {Item("data-quality", "freshness")}
        \/ i.health = "warning" /\ evidence = {Item("data-quality", "semantic-health")}
    BY DEF Observations
  <1> HIDE DEF evidence
  <1>2. CASE evidence = {Item("baseline", None)}
    BY <1>2 DEF Cites, Evidence, evidence
  <1>3. CASE \E b \in Range(i.breakdowns) : evidence = {Item("dimension", b.dimension)}
    <2>1. PICK m \in DOMAIN i.breakdowns : evidence = {Item("dimension", i.breakdowns[m].dimension)}
      BY <1>3 DEF Range
    <2>2. evidence # {} /\ evidence \subseteq held
      BY <2>1
    <2> QED BY <2>2 DEF Cites, Evidence, evidence
  <1>4. CASE i.freshness = "stale" /\ evidence = {Item("data-quality", "freshness")}
    BY <1>4 DEF Cites, Evidence, evidence
  <1>5. CASE i.health = "warning" /\ evidence = {Item("data-quality", "semantic-health")}
    BY <1>5 DEF Cites, Evidence, evidence
  <1> QED BY <1>1, <1>2, <1>3, <1>4, <1>5

\* What is found of the data, of a dimension or of none of them is cited.
LEMMA HypothesisCites ==
    ASSUME NEW i, i.breakdowns \in Seq(Breakdown), NEW h, ComesFrom(i, h)
    PROVE  \/ Cites(h, i)
           \/ h.type = "insufficient" /\ h.evidence = {} /\ i.breakdowns = << >>
  <1>1. CASE h = Delay /\ i.freshness = "stale"
    BY <1>1 DEF Delay, Hypothesis, Evidence, Cites
  <1>2. CASE h = Warning /\ i.health = "warning"
    BY <1>2 DEF Warning, Hypothesis, Evidence, Cites
  <1>3. CASE h = NoChangeFound
    BY <1>3 DEF NoChangeFound, Hypothesis, Evidence, Cites
  <1>4. CASE h = Insufficient(i)
    <2> DEFINE held == {Item("dimension", i.breakdowns[m].dimension) : m \in DOMAIN i.breakdowns}
    <2>1. h.type = "insufficient" /\ h.evidence = held
      BY <1>4 DEF Insufficient, Hypothesis
    <2>2. held \subseteq Evidence(i)
      BY DEF Evidence
    <2>3. CASE i.breakdowns = << >>
      <3>1. held = {}
        BY <2>3
      <3> QED BY <2>1, <2>3, <3>1
    <2>4. CASE i.breakdowns # << >>
      <3>1. 1 \in DOMAIN i.breakdowns
        BY <2>4
      <3>2. held # {}
        BY <3>1
      <3> QED BY <2>1, <2>2, <3>2 DEF Cites
    <2> QED BY <2>3, <2>4
  <1>5. CASE \E m \in DOMAIN i.breakdowns :
                OfBreakdown(i.breakdowns[m], Change(i.baseline)) = <<h>>
    <2>1. PICK m \in DOMAIN i.breakdowns :
              OfBreakdown(i.breakdowns[m], Change(i.baseline)) = <<h>>
      BY <1>5
    <2>2. h.evidence = {Item("dimension", i.breakdowns[m].dimension)}
      BY <2>1, SaidOfBreakdown
    <2> QED BY <2>2 DEF Evidence, Cites
  <1> QED BY <1>1, <1>2, <1>3, <1>4, <1>5 DEF ComesFrom

\* Every observation and every hypothesis, of any number of breakdowns cut to
\* six, cites at least one thing the investigation holds and nothing else; but
\* that the segmentation is insufficient may be said without any of it, and only
\* when nothing was broken down.
THEOREM ClaimsAlwaysCite == Spec => []ClaimsCiteEvidence
  <1>1. Holding => ClaimsCiteEvidence
    <2> SUFFICES ASSUME Holding, NEW i \in Composed
                 PROVE  /\ \A observation \in Observations(i) : Cites(observation, i)
                        /\ \A k \in DOMAIN Hypotheses(i) :
                              LET h == Hypotheses(i)[k] IN
                              \/ Cites(h, i)
                              \/ h.type = "insufficient" /\ h.evidence = {} /\ i.breakdowns = << >>
      BY DEF ClaimsCiteEvidence
    <2>1. i.breakdowns \in Seq(Breakdown)
      BY InvestigationFields DEF Holding, Holds, Composed
    <2> QED BY <2>1, ObservationsCite, HypothesesFrom, HypothesisCites
  <1> QED BY <1>1, AlwaysHolding, PTL

-----------------------------------------------------------------------------
(***************************************************************************)
(* Concentration.                                                          *)
(***************************************************************************)

\* Where the limit cuts nothing off once, it never does.
LEMMA WholeKept ==
    ASSUME NEW all, IsFiniteSet(all), all \in Limited(all), NEW kept \in Limited(all)
    PROVE  kept = all
  <1> DEFINE m == Min({MaximumRows, Cardinality(all)})
  <1>1. kept \subseteq all /\ Cardinality(kept) = m /\ Cardinality(all) = m
    BY DEF Limited
  <1> HIDE DEF m
  <1> QED BY <1>1, FS_Subset

\* Without an event on the way, whatever was read later holds the same rows of
\* both periods.
LEMMA SameWhileQuiet ==
    ASSUME NEW i, NEW d, NEW rows \in SUBSET warehouse, NEW others \in SUBSET warehouse,
           warehouse \in SUBSET Events, i.since \subseteq rows, i.since \subseteq others,
           Arrived(i, i.period) + Arrived(i, PrecedingEqualPeriod(i.period)) = 0
    PROVE  /\ SegmentRows(d, rows, i.period) = SegmentRows(d, others, i.period)
           /\ Of(rows, i.period) = Of(i.since, i.period)
           /\ Of(rows, PrecedingEqualPeriod(i.period)) = Of(i.since, PrecedingEqualPeriod(i.period))
  <1> DEFINE before == PrecedingEqualPeriod(i.period)
  <1>1. Arrived(i, i.period) \in Nat /\ Arrived(i, before) \in Nat
    BY ArrivedSince DEF Arrived
  <1>2. Arrived(i, i.period) = 0 /\ Arrived(i, before) = 0
    BY <1>1
  <1>3. /\ Of(rows, i.period) = Of(i.since, i.period)
        /\ Of(rows, before) = Of(i.since, before)
        /\ Of(others, i.period) = Of(i.since, i.period)
        /\ Of(others, before) = Of(i.since, before)
    <2>1. ASSUME NEW read \in SUBSET warehouse, i.since \subseteq read, NEW period,
                 Cardinality(Of(warehouse \ i.since, period)) = 0
          PROVE  Of(read, period) = Of(i.since, period)
      <3>1. read \subseteq warehouse
        OBVIOUS
      <3> QED BY <2>1, <3>1, ArrivedSince
    <2> QED BY <1>2, <2>1 DEF Arrived
  <1>4. Either(rows, i.period) = Either(others, i.period)
    BY <1>3 DEF Either
  <1>5. SegmentRows(d, rows, i.period) = SegmentRows(d, others, i.period)
    <2> DEFINE Grouped(both) ==
                   {SegmentRow(d, s, both, i.period) : s \in SegmentsOf(d, both)}
    <2>1. /\ SegmentRows(d, rows, i.period) = Grouped(Either(rows, i.period))
          /\ SegmentRows(d, others, i.period) = Grouped(Either(others, i.period))
      BY SegmentRowsAre
    <2> HIDE DEF Grouped
    <2> QED BY <1>4, <2>1
  <1> QED BY <1>3, <1>5

\* Half of all movement in one segment is half of the movement of the whole, and
\* no less than that of any other segment.
LEMMA HalfExplains ==
    ASSUME NEW segs \in Seq(Segments), NEW values \in [current: Nat, previous: Nat],
           SumFunction([k \in DOMAIN segs |-> segs[k].current]) = values.current,
           SumFunction([k \in DOMAIN segs |-> segs[k].previous]) = values.previous,
           Aligned(segs, Change(values)) # {},
           ShareAtLeast(segs[Min(Aligned(segs, Change(values)))], 50, segs)
    PROVE  \E row \in Range(segs) :
              /\ row.segment = segs[Min(Aligned(segs, Change(values)))].segment
              /\ Sign(Change(row)) = Sign(Change(values))
              /\ 2 * Movement(row) >= Movement(values)
              /\ \A other \in Range(segs) : Movement(other) <= Movement(row)
  <1> DEFINE D == DOMAIN segs
             aligned == Aligned(segs, Change(values))
             n == Min(aligned)
             f == [k \in D |-> segs[k].current]
             g == [k \in D |-> segs[k].previous]
             m == [k \in D |-> Movement(segs[k])]
  <1>1. D = 1..Len(segs) /\ Len(segs) \in Nat /\ \A k \in D : segs[k] \in Segments
    OBVIOUS
  <1>2. IsFiniteSet(D)
    BY <1>1, FS_Interval
  <1>3. /\ \A k \in D : /\ f[k] \in Nat /\ g[k] \in Nat /\ m[k] \in Nat
                        /\ f[k] - g[k] <= m[k] /\ g[k] - f[k] <= m[k]
                        /\ m[k] = Movement(segs[k])
    <2> SUFFICES ASSUME NEW k \in D
                 PROVE  /\ f[k] \in Nat /\ g[k] \in Nat /\ m[k] \in Nat
                        /\ f[k] - g[k] <= m[k] /\ g[k] - f[k] <= m[k]
                        /\ m[k] = Movement(segs[k])
      OBVIOUS
    <2>1. f[k] = segs[k].current /\ g[k] = segs[k].previous /\ m[k] = Movement(segs[k])
      OBVIOUS
    <2> HIDE DEF f, g, m
    <2>2. /\ segs[k].current \in Nat /\ segs[k].previous \in Nat /\ Movement(segs[k]) \in Nat
          /\ Change(segs[k]) = segs[k].current - segs[k].previous
          /\ Change(segs[k]) <= Movement(segs[k]) /\ -Change(segs[k]) <= Movement(segs[k])
      BY <1>1, MovementType DEF Segments
    <2> QED BY <2>1, <2>2
  <1>4. f = [k \in D |-> f[k]] /\ g = [k \in D |-> g[k]] /\ m = [k \in D |-> m[k]]
    OBVIOUS
  <1>5. /\ TotalMovement(segs) = SumFunction(m)
        /\ values.current = SumFunction(f) /\ values.previous = SumFunction(g)
    BY DEF TotalMovement
  <1> HIDE DEF f, g, m
  <1>6. f \in [D -> Int] /\ g \in [D -> Int] /\ m \in [D -> Int] /\ m \in [D -> Nat]
    BY <1>3, <1>4
  <1>7. aligned \in SUBSET D /\ \A k \in aligned : Sign(Change(segs[k])) = Sign(Change(values))
    BY DEF Aligned
  <1>8. n \in aligned
    <2>1. aligned \in SUBSET Int /\ aligned # {} /\ 1 \in Int /\ \A k \in aligned : 1 <= k
      BY <1>1, <1>7
    <2> HIDE DEF aligned
    <2> QED BY <2>1, MinOfIntegers
  <1>9. ShareAtLeast(segs[n], 50, segs)
    OBVIOUS
  <1> HIDE DEF n, aligned, D
  <1>10. /\ SumFunction(f) \in Int /\ SumFunction(g) \in Int
         /\ SumFunction(f) - SumFunction(g) <= SumFunction(m)
         /\ SumFunction(g) - SumFunction(f) <= SumFunction(m)
    BY <1>2, <1>3, <1>6, SumsCompare
  <1>11. /\ SumFunction(m) \in Nat
         /\ \A x, y \in D : x # y => m[x] + m[y] <= SumFunction(m)
    BY <1>2, <1>6, TwoOfSum
  <1>12. n \in D /\ Sign(Change(segs[n])) = Sign(Change(values))
    BY <1>7, <1>8
  <1>13. m[n] \in Nat /\ m[n] = Movement(segs[n]) /\ 2 * m[n] >= SumFunction(m)
    <2>1. m[n] \in Nat /\ m[n] = Movement(segs[n])
      BY <1>3, <1>12
    <2>2. 100 * m[n] >= 50 * SumFunction(m)
      BY <1>5, <1>9, <2>1 DEF ShareAtLeast
    <2> QED BY <1>11, <2>1, <2>2
  <1>14. 2 * Movement(segs[n]) >= Movement(values)
    <2>1. Movement(values) <= SumFunction(m)
      BY <1>5, <1>10, <1>11 DEF Movement, Magnitude, Change
    <2>2. Movement(values) \in Int
      BY DEF Movement, Magnitude, Change
    <2> QED BY <1>11, <1>13, <2>1, <2>2
  <1>15. ASSUME NEW k \in D
         PROVE  Movement(segs[k]) <= Movement(segs[n])
    <2>1. m[k] \in Nat /\ m[k] = Movement(segs[k])
      BY <1>3
    <2>2. CASE k = n
      BY <1>13, <2>1, <2>2
    <2>3. CASE k # n
      <3>1. m[k] + m[n] <= SumFunction(m)
        BY <1>11, <1>12, <2>3
      <3> QED BY <1>11, <1>13, <2>1, <3>1
    <2> QED BY <2>2, <2>3
  <1>16. Range(segs) = {segs[k] : k \in D}
    BY DEF Range, D
  <1>17. segs[n] \in Range(segs) /\ \A other \in Range(segs) : Movement(other) <= Movement(segs[n])
    BY <1>12, <1>15, <1>16
  <1> QED BY <1>12, <1>14, <1>17 DEF n, aligned

\* A concentration explains the change, for every set of events and whatever
\* fails, if nothing arrived and nothing was cut: although the hypothesis may
\* come from another breakdown of the dimension than the one that is looked at.
THEOREM ConcentrationAlwaysExplains == Spec => []ConcentrationExplains
  <1>1. Holding /\ AdapterInv => ConcentrationExplains
    <2> SUFFICES ASSUME Holding, AdapterInv, NEW c \in Callers, Stage(c, "composed"),
                        NEW k \in DOMAIN Hypotheses(investigation[c]),
                        NEW j \in DOMAIN investigation[c].breakdowns,
                        LET i == investigation[c]
                            h == Hypotheses(i)[k]
                            b == i.breakdowns[j] IN
                        /\ h.type = "concentration"
                        /\ Item("dimension", b.dimension) \in h.evidence
                        /\ Request.aggregation = "event_count"
                        /\ Arrived(i, i.period) + Arrived(i, PrecedingEqualPeriod(i.period)) = 0
                        /\ ~b.cut
                 PROVE  LET i == investigation[c]
                            h == Hypotheses(i)[k]
                            b == i.breakdowns[j] IN
                        \E row \in Range(b.segments) :
                           /\ row.segment = h.segment
                           /\ Sign(Change(row)) = Sign(Change(i.baseline))
                           /\ 2 * Movement(row) >= Movement(i.baseline)
                           /\ \A other \in Range(b.segments) : Movement(other) <= Movement(row)
      BY DEF ConcentrationExplains, Composed
    <2> DEFINE i == investigation[c]
               h == Hypotheses(i)[k]
               b == i.breakdowns[j]
               before == PrecedingEqualPeriod(i.period)
               change == Change(i.baseline)
    <2>1. /\ h.type = "concentration" /\ Item("dimension", b.dimension) \in h.evidence
          /\ Request.aggregation = "event_count"
          /\ Arrived(i, i.period) + Arrived(i, before) = 0
          /\ ~b.cut /\ j \in DOMAIN i.breakdowns /\ k \in DOMAIN Hypotheses(i)
      OBVIOUS
    <2>2. Holds(i) /\ i.pc = "composed" /\ warehouse \in SUBSET Events
      BY DEF Holding, Stage, AdapterInv, AdapterTypeOK
    <2> HIDE DEF i
    <2>3. /\ i.breakdowns \in Seq(Breakdown) /\ i.baseline \in [current: Nat, previous: Nat]
          /\ \A m \in DOMAIN i.breakdowns : ReadLater(i, i.breakdowns[m])
      BY <2>2, InvestigationFields DEF Holds
    <2>4. ComesFrom(i, h)
      BY <2>1, <2>3, HypothesesFrom
    <2> HIDE DEF h, change
    <2>5. PICK m \in DOMAIN i.breakdowns : OfBreakdown(i.breakdowns[m], change) = <<h>>
      BY <2>1, <2>4 DEF ComesFrom, Delay, Warning, NoChangeFound, Insufficient, Hypothesis, change
    <2> DEFINE a == i.breakdowns[m]
               first == a.segments[Min(Aligned(a.segments, change))]
    <2>6. /\ h.evidence = {Item("dimension", a.dimension)}
          /\ Aligned(a.segments, change) # {}
          /\ ShareAtLeast(first, 50, a.segments)
          /\ h.segment = first.segment
      BY <2>1, <2>5, SaidOfBreakdown
    <2>7. a.dimension = b.dimension
      BY <2>1, <2>6 DEF Item
    <2>8. a \in Breakdown /\ b \in Breakdown /\ ReadLater(i, a) /\ ReadLater(i, b)
      BY <2>1, <2>3, <2>5
    <2> HIDE DEF a, b, before
    <2>20. PICK rowsA \in SUBSET warehouse : \E keptA :
              i.since \subseteq rowsA /\ BreakdownOf(a, rowsA, i.period, keptA)
      BY <2>8 DEF ReadLater
    <2>9. PICK keptA : i.since \subseteq rowsA /\ BreakdownOf(a, rowsA, i.period, keptA)
      BY <2>20
    <2>21. PICK rowsB \in SUBSET warehouse : \E keptB :
              i.since \subseteq rowsB /\ BreakdownOf(b, rowsB, i.period, keptB)
      BY <2>8 DEF ReadLater
    <2>10. PICK keptB : i.since \subseteq rowsB /\ BreakdownOf(b, rowsB, i.period, keptB)
      BY <2>21
    <2> DEFINE all == SegmentRows(b.dimension, rowsB, i.period)
    <2>11. SegmentRows(a.dimension, rowsA, i.period) = all
      BY <2>1, <2>2, <2>7, <2>9, <2>10, SameWhileQuiet DEF before
    <2>12. IsFiniteSet(all)
      <3>1. b.dimension \in Range(Dimensions) /\ rowsB \in SUBSET Events
        BY <2>2, <2>8 DEF Breakdown
      <3> QED BY <3>1, SegmentRowsType
    <2> HIDE DEF all
    <2>13. /\ keptA \in Limited(all) /\ keptB \in Limited(all) /\ keptB = all
           /\ a.segments = Ranked(keptA) /\ b.segments = Ranked(keptB)
      BY <2>1, <2>9, <2>10, <2>11 DEF BreakdownOf, all
    <2>14. b.segments = a.segments
      BY <2>12, <2>13, WholeKept
    <2>15. /\ Sum(b, "current") = i.baseline.current
           /\ Sum(b, "previous") = i.baseline.previous
      <3>1. /\ Sum(b, "current") = Cardinality(Of(rowsB, i.period))
            /\ Sum(b, "previous") = Cardinality(Of(rowsB, before))
        <4>1. rowsB \in SUBSET Events
          BY <2>2
        <4> QED BY <2>1, <2>8, <2>10, <4>1, WholeBreakdown DEF before
      <3>2. /\ Of(rowsB, i.period) = Of(i.since, i.period)
            /\ Of(rowsB, before) = Of(i.since, before)
        BY <2>1, <2>2, <2>10, SameWhileQuiet DEF before
      <3>3. /\ i.baseline.current = Cardinality(Of(i.since, i.period))
            /\ i.baseline.previous = Cardinality(Of(i.since, before))
        BY <2>1, <2>2, BaselineCounts DEF before
      <3> QED BY <3>1, <3>2, <3>3
    <2> DEFINE segs == b.segments
    <2>16. /\ SumFunction([n \in DOMAIN segs |-> segs[n].current]) = i.baseline.current
           /\ SumFunction([n \in DOMAIN segs |-> segs[n].previous]) = i.baseline.previous
      BY <2>15 DEF Sum
    <2>17. segs \in Seq(Segments)
      BY <2>8 DEF Breakdown
    <2>18. /\ Aligned(segs, Change(i.baseline)) # {}
           /\ ShareAtLeast(segs[Min(Aligned(segs, Change(i.baseline)))], 50, segs)
           /\ h.segment = segs[Min(Aligned(segs, Change(i.baseline)))].segment
      BY <2>6, <2>14 DEF change
    <2> HIDE DEF segs
    <2>19. \E row \in Range(segs) :
              /\ row.segment = h.segment
              /\ Sign(Change(row)) = Sign(Change(i.baseline))
              /\ 2 * Movement(row) >= Movement(i.baseline)
              /\ \A other \in Range(segs) : Movement(other) <= Movement(row)
      BY <2>3, <2>16, <2>17, <2>18, HalfExplains
    <2> QED BY <2>19 DEF segs, i, h, b
  <1> QED BY <1>1, AlwaysHolding, PTL

-----------------------------------------------------------------------------
(***************************************************************************)
(* What a preview shows.                                                   *)
(***************************************************************************)

\* A preview shows what was computed of the rows it read, for a valid request.
Shown(c) ==
    LET p == preview[c] IN
    /\ p.pc \in {"idle", "previewing", "previewed", "failed"}
    /\ p.pc # "idle" => Request.type \in {"funnel", "retention"}
    /\ p.pc # "previewed" => p.users = << >> /\ p.cohorts = {}
    /\ p.pc \in {"previewing", "previewed"} =>
           IF Request.type = "funnel" THEN ValidFunnel ELSE ValidRetention
    /\ p.pc = "previewed" =>
           /\ call[c].pc = "done"
           /\ p.users = IF Request.type = "funnel"
                        THEN FunnelUsers(call[c].read, p.period) ELSE << >>
           /\ p.cohorts = IF Request.type = "retention"
                          THEN RetentionRows(call[c].read, p.period) ELSE {}

Showing == \A c \in Callers : Shown(c)

\* What the queries compute depends on nothing but the request.
LEMMA ComputesAlike ==
    ASSUME scenario' = scenario
    PROVE  /\ Request' = Request /\ ValidFunnel' = ValidFunnel /\ ValidRetention' = ValidRetention
           /\ \A rows, period : FunnelUsers(rows, period)' = FunnelUsers(rows, period)
           /\ \A rows, period : RetentionRows(rows, period)' = RetentionRows(rows, period)
  <1>1. Request' = Request /\ ValidFunnel' = ValidFunnel /\ ValidRetention' = ValidRetention
    BY DEF Request, ValidFunnel, ValidRetention
  <1>2. \A rows, period : FunnelUsers(rows, period)' = FunnelUsers(rows, period)
    BY DEF FunnelUsers, Completing, Follows, Request
  <1>3. \A rows, period : RetentionRows(rows, period)' = RetentionRows(rows, period)
    BY DEF RetentionRows, Mature, Index, Truncated, Request
  <1> QED BY <1>1, <1>2, <1>3

\* What is shown is shown for good.
LEMMA ShownOn ==
    ASSUME NEW c \in Callers, Shown(c), scenario' = scenario, preview'[c] = preview[c],
           preview[c].pc = "previewed" => call'[c] = call[c]
    PROVE  Shown(c)'
  BY ComputesAlike DEF Shown

LEMMA PreviewShown ==
    ASSUME NEW c \in Callers, Gathering, Shown(c), scenario' = scenario,
           BeginPreview(c) \/ Previewed(c)
    PROVE  Shown(c)'
  <1> DEFINE p == preview[c]
  <1>1. preview = [d \in Callers |-> preview[d]] /\ PreviewShape(p)
    BY DEF Gathering
  <1>2. ASSUME NEW period, preview' = [preview EXCEPT ![c] = Previewing("failed", period)],
               Request.type \in {"funnel", "retention"}
        PROVE  Shown(c)'
    <2>1. preview'[c] = Previewing("failed", period)
      BY <1>1, <1>2
    <2>2. Request.type' \in {"funnel", "retention"}
      BY <1>2, ComputesAlike
    <2> QED BY <2>1, <2>2 DEF Shown, Previewing
  <1>3. CASE BeginPreview(c)
    <2> DEFINE period == ResolvePeriod(Request.period, scenario.zone, scenario.now)
    <2>1. Request.type \in {"funnel", "retention"}
      BY <1>3 DEF BeginPreview
    <2>2. CASE /\ preview' = [preview EXCEPT ![c] = Previewing("previewing", period)]
               /\ IF Request.type = "funnel" THEN ValidFunnel ELSE ValidRetention
      <3> HIDE DEF period
      <3>1. preview'[c] = Previewing("previewing", period)
        BY <1>1, <2>2
      <3> QED BY <2>1, <2>2, <3>1, ComputesAlike DEF Shown, Previewing
    <2>3. CASE preview' = [preview EXCEPT ![c] = Previewing("failed", NoPeriod)]
      BY <1>2, <2>1, <2>3
    <2> QED BY <1>3, <2>2, <2>3 DEF BeginPreview
  <1>4. CASE Previewed(c)
    <2>1. Request.type \in {"funnel", "retention"} /\ p.pc = "previewing" /\ call' = call
      BY <1>4 DEF Previewed, Shown, adapterVars
    <2>2. CASE preview' = [preview EXCEPT ![c] = Previewing("failed", NoPeriod)]
      BY <1>2, <2>1, <2>2
    <2>3. CASE Answered(c)
      <3> DEFINE users == IF Request.type = "funnel" THEN FunnelUsers(call[c].read, p.period) ELSE << >>
                 cohorts == IF Request.type = "retention"
                            THEN RetentionRows(call[c].read, p.period) ELSE {}
      <3>1. preview' = [preview EXCEPT
                ![c].pc = "previewed", ![c].users = users, ![c].cohorts = cohorts]
        BY <1>4, <2>3 DEF Previewed, Failed, Answered
      <3> HIDE DEF users, cohorts
      <3>2. /\ preview'[c].pc = "previewed" /\ preview'[c].period = p.period
            /\ preview'[c].users = users /\ preview'[c].cohorts = cohorts
        BY <1>1, <3>1 DEF PreviewShape
      <3>3. call[c].pc = "done"
        BY <2>3 DEF Answered, At
      <3> QED BY <2>1, <3>2, <3>3, ComputesAlike DEF Shown, users, cohorts
    <2> QED BY <1>4, <2>2, <2>3 DEF Previewed
  <1> QED BY <1>3, <1>4

LEMMA ShowingStep ==
    ASSUME AdapterInv, Gathering, Holding, Showing, [Next]_vars
    PROVE  Showing'
  <1> SUFFICES ASSUME NEW d \in Callers PROVE Shown(d)'
    BY DEF Showing
  <1>0. Shown(d) /\ preview = [c \in Callers |-> preview[c]]
    BY DEF Showing, Gathering
  <1>1. CASE UNCHANGED <<scenario, preview, call>>
    BY <1>0, <1>1, ShownOn
  <1>2. ASSUME NEW c \in Callers, Begin(c) \/ Investigate(c), preview' = preview
        PROVE  Shown(d)'
    <2>1. scenario' = scenario /\ (StartQuery(c) \/ UNCHANGED adapterVars)
      BY <1>2, StagesAwait DEF Begin, Rest
    <2>2. d # c => call'[d] = call[d]
      BY <2>1, StartReads DEF adapterVars
    <2>3. Request.type = "investigation"
      BY <1>2 DEF Begin, Investigate, Measured, Discovered, Counted, Baselined, BrokenDown, Stage, Holding
    <2>4. d = c => preview[d].pc # "previewed"
      BY <1>0, <2>3 DEF Shown
    <2> QED BY <1>0, <1>2, <2>1, <2>2, <2>4, ShownOn
  <1>3. ASSUME NEW c \in Callers, QueryWarehouse(c), preview' = preview
        PROVE  Shown(d)'
    <2>1. Await(c) /\ scenario' = scenario
      BY <1>3 DEF QueryWarehouse, Rest
    <2>2. /\ d # c => call'[d] = call[d]
          /\ call[c].pc # "done"
      BY <2>1, AwaitReads
    <2> QED BY <1>0, <1>3, <2>1, <2>2, ShownOn DEF Shown
  <1>4. ASSUME NEW c \in Callers, BeginPreview(c) \/ Previewed(c)
        PROVE  Shown(d)'
    <2>1. scenario' = scenario /\ (StartQuery(c) \/ UNCHANGED adapterVars)
      BY <1>4 DEF BeginPreview, Previewed, Rest
    <2>2. CASE d = c
      BY <1>0, <1>4, <2>1, <2>2, PreviewShown
    <2>3. CASE d # c
      <3>1. call'[d] = call[d]
        BY <2>1, <2>3, StartReads DEF adapterVars
      <3>2. preview'[d] = preview[d]
        BY <1>0, <1>4, <2>3 DEF BeginPreview, Previewed
      <3> QED BY <1>0, <2>1, <3>1, <3>2, ShownOn
    <2> QED BY <2>2, <2>3
  <1>5. CASE Arrives
    BY <1>1, <1>5 DEF Arrives, Ingest
  <1>6. CASE UNCHANGED vars
    BY <1>1, <1>6 DEF vars
  <1> QED BY <1>2, <1>3, <1>4, <1>5, <1>6 DEF Next, Serve

LEMMA AlwaysShowing == Spec => []Showing
  <1>1. Init => Showing
    BY DEF Init, Showing, Shown, Previewing
  <1>2. AdapterInv /\ Gathering /\ Holding /\ Showing /\ [Next]_vars => Showing'
    BY ShowingStep
  <1> QED BY <1>1, <1>2, AlwaysHolding, PTL DEF Spec

-----------------------------------------------------------------------------
(***************************************************************************)
(* Funnels.                                                                *)
(***************************************************************************)

\* The rows that complete the first step, and those that complete one more.
LEMMA CompletingIs ==
    ASSUME Circumstances, Request.type = "funnel", ValidFunnel,
           NEW rows \in SUBSET Events, NEW period
    PROVE  LET n == Len(Request.steps)
               reach == Completing(rows, period) IN
           /\ n \in Nat /\ n >= 2 /\ Request.window \in 1..90
           /\ reach \in [1..n -> SUBSET rows]
           /\ reach[1] = {row \in rows : row.name = Request.steps[1] /\ Within(row.at, period)}
           /\ \A k \in 1..n : k # 1 => reach[k] = Follows(rows, reach[k - 1], k, period)
  <1> DEFINE n == Len(Request.steps)
             base == {row \in rows : row.name = Request.steps[1] /\ Within(row.at, period)}
             step == [p \in (SUBSET rows) \X (1..n) |-> Follows(rows, p[1], p[2], period)]
             F == CHOOSE f : f = [k \in 1..n |-> IF k = 1 THEN base
                                                ELSE Follows(rows, f[k - 1], k, period)]
  <1>1. n \in Nat /\ n >= 2 /\ Request.window \in 1..90
    <2>1. Len(Request.steps) \in 2..6
      BY DEF ValidFunnel
    <2>2. Request.window \in 1..90
      BY DEF ValidFunnel
    <2>3. \A k \in 2..6 : k \in Nat /\ k >= 2
      OBVIOUS
    <2> QED BY <2>1, <2>2, <2>3
  <1>2. base \in SUBSET rows /\ \A before, k : Follows(rows, before, k, period) \in SUBSET rows
    BY DEF Follows
  <1>3. \A before \in SUBSET rows, k \in 1..n :
            step[<<before, k>>] = Follows(rows, before, k, period)
    OBVIOUS
  <1>4. step \in [(SUBSET rows) \X (1..n) -> SUBSET rows]
    BY <1>2
  <1> HIDE DEF n, base, step
  <1>5. PICK f \in [1..n -> SUBSET rows] : Iterates(f, n, base, step)
    <2> DEFINE D == SUBSET rows
    <2>1. n \in Nat /\ base \in D /\ step \in [D \X (1..n) -> D]
      BY <1>1, <1>2, <1>4
    <2> HIDE DEF D
    <2>2. \E f \in [1..n -> D] : Iterates(f, n, base, step)
      BY <2>1, Recursion
    <2> QED BY <2>2 DEF D
  <1>6. \A k \in 1..n : k # 1 => k - 1 \in 1..n
    BY <1>1
  <1>7. \A k \in 1..n : f[k] = IF k = 1 THEN base ELSE Follows(rows, f[k - 1], k, period)
    BY <1>3, <1>5, <1>6 DEF Iterates
  <1>8. f = [k \in 1..n |-> IF k = 1 THEN base ELSE Follows(rows, f[k - 1], k, period)]
    BY <1>7
  <1>9. F = [k \in 1..n |-> IF k = 1 THEN base ELSE Follows(rows, F[k - 1], k, period)]
    BY <1>8, Zenon
  <1>10. Completing(rows, period) = F
    BY Zenon DEF Completing, F, n, base
  <1> HIDE DEF F
  <1>11. \A k \in 1..n : F[k] = IF k = 1 THEN base ELSE Follows(rows, F[k - 1], k, period)
    BY <1>9, Zenon
  <1>12. \A k \in 1..n : F[k] \in SUBSET rows
    BY <1>2, <1>11
  <1>13. F \in [1..n -> SUBSET rows]
    <2>1. F = [k \in 1..n |-> F[k]]
      BY <1>9, <1>11, Zenon
    <2> QED BY <1>12, <2>1
  <1>14. 1 \in 1..n
    BY <1>1
  <1> QED BY <1>1, <1>10, <1>11, <1>13, <1>14 DEF n, base

\* The counts of a funnel, one for each step.
LEMMA FunnelCounts ==
    ASSUME Circumstances, Request.type = "funnel", ValidFunnel,
           NEW rows \in SUBSET Events, NEW period
    PROVE  LET reach == Completing(rows, period)
               users == FunnelUsers(rows, period) IN
           /\ users \in Seq(Nat) /\ DOMAIN users = 1..Len(Request.steps)
           /\ \A k \in DOMAIN users : users[k] = Cardinality({row.user : row \in reach[k]})
  <1> DEFINE n == Len(Request.steps)
             reach == Completing(rows, period)
             users == FunnelUsers(rows, period)
  <1>1. n \in Nat /\ reach \in [1..n -> SUBSET rows]
    BY CompletingIs
  <1>2. users = [k \in 1..n |-> Cardinality({row.user : row \in reach[k]})]
    BY DEF FunnelUsers
  <1> HIDE DEF n, reach, users
  <1>3. ASSUME NEW k \in 1..n
        PROVE  Cardinality({row.user : row \in reach[k]}) \in Nat
    <2> DEFINE some == reach[k]
               named == {row.user : row \in some}
               user == [row \in some |-> row.user]
    <2>1. IsFiniteSet(some)
      BY <1>1, EventsFinite
    <2> HIDE DEF some
    <2>2. user \in [some -> named] /\ \A u \in named : \E row \in some : user[row] = u
      OBVIOUS
    <2> HIDE DEF user, named
    <2>3. Cardinality(named) \in Nat
      BY <2>1, <2>2, FiniteImage
    <2> QED BY <2>3 DEF named, some
  <1>4. users \in [1..n -> Nat]
    BY <1>2, <1>3
  <1>5. users \in Seq(Nat)
    BY <1>1, <1>4
  <1> QED BY <1>2, <1>4, <1>5 DEF n, reach, users

\* Rows that do the first k steps in order, each within the window of the last.
ChainOf(e, k, period) ==
    /\ \A j \in 1..k : e[j].name = Request.steps[j] /\ Within(e[j].at, period)
    /\ \A j \in 1..(k - 1) :
          e[j].user = e[j + 1].user
          /\ e[j + 1].at - e[j].at \in 0..(24 * Request.window - 1)

\* A row completes k steps exactly when a chain of k rows of one user ends in it.
Reaches(reach, rows, period, k) ==
    /\ \A row \in reach[k] : \E e \in [1..k -> rows] : ChainOf(e, k, period) /\ e[k] = row
    /\ \A e \in [1..k -> rows] : ChainOf(e, k, period) =>
          e[k] \in reach[k] /\ e[1].user = e[k].user

LEMMA OneMoreStep ==
    ASSUME NEW rows \in SUBSET Events, NEW period \in Period, NEW reach, NEW k \in Nat \ {0},
           Request.window \in 1..90, reach[k] \subseteq rows,
           reach[k + 1] = Follows(rows, reach[k], k + 1, period), Reaches(reach, rows, period, k)
    PROVE  Reaches(reach, rows, period, k + 1)
  <1>0. Request.window \in Int
    OBVIOUS
  <1>1. \A row \in rows : row.at \in Int
    BY DataSourceAssumption
  <1>2. /\ k + 1 \in Nat /\ k \in 1..k /\ k \in 1..(k + 1) /\ k + 1 \in 1..(k + 1) /\ 1 \in 1..k
        /\ (k + 1) - 1 = k /\ 1..k \subseteq 1..(k + 1) /\ 1..(k - 1) \subseteq 1..k
        /\ \A j \in 1..(k - 1) : j + 1 \in 1..k
        /\ \A j \in 1..k : j \in 1..(k - 1) \/ j = k
        /\ \A j \in 1..(k + 1) : j \in 1..k \/ j = k + 1
        /\ \A j \in 1..k : j # k + 1
    OBVIOUS
  <1>3. ASSUME NEW row \in reach[k + 1]
        PROVE  \E e \in [1..(k + 1) -> rows] : ChainOf(e, k + 1, period) /\ e[k + 1] = row
    <2>1. PICK p \in reach[k] :
             /\ row \in rows /\ row.name = Request.steps[k + 1] /\ row.at < period.end
             /\ p.user = row.user /\ p.at <= row.at /\ row.at < p.at + 24 * Request.window
      BY <1>3 DEF Follows
    <2>2. PICK e \in [1..k -> rows] : ChainOf(e, k, period) /\ e[k] = p
      BY DEF Reaches
    <2> DEFINE g == [j \in 1..(k + 1) |-> IF j = k + 1 THEN row ELSE e[j]]
    <2>3. /\ g \in [1..(k + 1) -> rows] /\ g[k + 1] = row
          /\ \A j \in 1..k : g[j] = e[j]
      BY <1>2, <2>1, <2>2
    <2> HIDE DEF g
    <2>4. Within(row.at, period)
      <3>1. period.start <= p.at
        BY <1>2, <2>2 DEF ChainOf, Within
      <3>2. period.start \in Int /\ p.at \in Int /\ row.at \in Int
        BY <1>1, <2>1 DEF Period
      <3> QED BY <2>1, <3>1, <3>2 DEF Within
    <2>5. \A j \in 1..(k + 1) : g[j].name = Request.steps[j] /\ Within(g[j].at, period)
      <3>1. \A j \in 1..k : g[j].name = Request.steps[j] /\ Within(g[j].at, period)
        BY <2>2, <2>3 DEF ChainOf
      <3> QED BY <1>2, <2>1, <2>3, <2>4, <3>1
    <2>6. ASSUME NEW j \in 1..k
          PROVE  /\ g[j].user = g[j + 1].user
                 /\ g[j + 1].at - g[j].at \in 0..(24 * Request.window - 1)
      <3>1. CASE j \in 1..(k - 1)
        <4>1. g[j] = e[j] /\ g[j + 1] = e[j + 1]
          BY <1>2, <2>3, <3>1
        <4> QED BY <2>2, <3>1, <4>1 DEF ChainOf
      <3>2. CASE j = k
        <4>1. g[j] = p /\ g[j + 1] = row
          BY <1>2, <2>2, <2>3, <3>2
        <4>2. p.at \in Int /\ row.at \in Int
          BY <1>1, <2>1
        <4>3. row.at - p.at \in 0..(24 * Request.window - 1)
          <5> DEFINE window == Request.window
                     from == p.at
                     to == row.at
          <5>1. window \in Int /\ from \in Int /\ to \in Int
            BY <1>0, <4>2, Zenon
          <5>3. from <= to /\ to < from + 24 * window
            BY <2>1, Zenon
          <5> HIDE DEF window, from, to
          <5>2. to - from \in 0..(24 * window - 1)
            BY <5>1, <5>3
          <5> QED BY <5>2 DEF window, from, to
        <4> QED BY <2>1, <4>1, <4>3
      <3> QED BY <1>2, <3>1, <3>2
    <2>7. ChainOf(g, k + 1, period)
      BY <1>2, <2>5, <2>6 DEF ChainOf
    <2> QED BY <2>3, <2>7
  <1>4. ASSUME NEW e \in [1..(k + 1) -> rows], ChainOf(e, k + 1, period)
        PROVE  e[k + 1] \in reach[k + 1] /\ e[1].user = e[k + 1].user
    <2> DEFINE g == [j \in 1..k |-> e[j]]
    <2>1. g \in [1..k -> rows] /\ \A j \in 1..k : g[j] = e[j]
      BY <1>2
    <2> HIDE DEF g
    <2>2. /\ \A j \in 1..k : e[j].name = Request.steps[j] /\ Within(e[j].at, period)
          /\ \A j \in 1..k : /\ e[j].user = e[j + 1].user
                             /\ e[j + 1].at - e[j].at \in 0..(24 * Request.window - 1)
          /\ e[k + 1].name = Request.steps[k + 1] /\ Within(e[k + 1].at, period)
      BY <1>2, <1>4 DEF ChainOf
    <2>3. ChainOf(g, k, period)
      <3>1. \A j \in 1..(k - 1) : g[j] = e[j] /\ g[j + 1] = e[j + 1]
        BY <1>2, <2>1
      <3> QED BY <1>2, <2>1, <2>2, <3>1 DEF ChainOf
    <2>4. e[k] \in reach[k] /\ e[1].user = e[k].user
      BY <1>2, <2>1, <2>3 DEF Reaches
    <2>5. /\ e[k + 1] \in rows /\ e[k].at \in Int /\ e[k + 1].at \in Int
          /\ e[k].user = e[k + 1].user
          /\ e[k + 1].at - e[k].at \in 0..(24 * Request.window - 1)
      <3>1. e[k] \in rows /\ e[k + 1] \in rows
        BY <1>2
      <3>2. e[k].at \in Int /\ e[k + 1].at \in Int
        BY <1>1, <3>1
      <3>3. k \in 1..k
        OBVIOUS
      <3> QED BY <2>2, <3>1, <3>2, <3>3
    <2>6. e[k].at <= e[k + 1].at /\ e[k + 1].at < e[k].at + 24 * Request.window
      <3> DEFINE window == Request.window
                 from == e[k].at
                 to == e[k + 1].at
      <3>1. /\ window \in Int /\ from \in Int /\ to \in Int
            /\ to - from \in 0..(24 * window - 1)
        BY <1>0, <2>5, Zenon
      <3> HIDE DEF window, from, to
      <3>2. from <= to /\ to < from + 24 * window
        BY <3>1
      <3> QED BY <3>2 DEF window, from, to
    <2>7. e[k + 1].at < period.end
      BY <2>2 DEF Within
    <2> QED BY <2>2, <2>4, <2>5, <2>6, <2>7 DEF Follows
  <1> QED BY <1>3, <1>4 DEF Reaches

LEMMA ChainsReach ==
    ASSUME Circumstances, Request.type = "funnel", ValidFunnel,
           NEW rows \in SUBSET Events, NEW period \in Period, NEW k \in 1..Len(Request.steps)
    PROVE  Reaches(Completing(rows, period), rows, period, k)
  <1> DEFINE n == Len(Request.steps)
             reach == Completing(rows, period)
             T == {m \in Nat : m < n => Reaches(reach, rows, period, m + 1)}
  <1>1. /\ n \in Nat /\ n >= 2 /\ Request.window \in 1..90
        /\ reach \in [1..n -> SUBSET rows]
        /\ reach[1] = {row \in rows : row.name = Request.steps[1] /\ Within(row.at, period)}
        /\ \A m \in 1..n : m # 1 => reach[m] = Follows(rows, reach[m - 1], m, period)
    BY CompletingIs
  <1>2. k \in 1..n
    OBVIOUS
  <1> HIDE DEF n, reach
  <1>3. Reaches(reach, rows, period, 1)
    <2>1. ASSUME NEW row \in reach[1]
          PROVE  \E e \in [1..1 -> rows] : ChainOf(e, 1, period) /\ e[1] = row
      <3> DEFINE e == [j \in 1..1 |-> row]
      <3>1. row \in rows /\ row.name = Request.steps[1] /\ Within(row.at, period)
        BY <1>1
      <3>2. e \in [1..1 -> rows] /\ e[1] = row
        BY <3>1
      <3> HIDE DEF e
      <3>3. ChainOf(e, 1, period)
        <4>1. (\A j \in 1..1 : j = 1) /\ 1..(1 - 1) = {}
          OBVIOUS
        <4> QED BY <3>1, <3>2, <4>1 DEF ChainOf
      <3> QED BY <3>2, <3>3
    <2>2. ASSUME NEW e \in [1..1 -> rows], ChainOf(e, 1, period)
          PROVE  e[1] \in reach[1]
      <3>1. 1 \in 1..1 /\ e[1] \in rows
        OBVIOUS
      <3> QED BY <1>1, <2>2, <3>1 DEF ChainOf
    <2> QED BY <2>1, <2>2 DEF Reaches
  <1>4. 0 \in T
    BY <1>3
  <1>5. ASSUME NEW m \in T
        PROVE  m + 1 \in T
    <2>1. m \in Nat /\ m + 1 \in Nat /\ m + 1 \in Nat \ {0} /\ (m + 1) + 1 # 1
          /\ ((m + 1) + 1) - 1 = m + 1
      OBVIOUS
    <2>2. ASSUME m + 1 < n
          PROVE  Reaches(reach, rows, period, (m + 1) + 1)
      <3>1. m < n /\ m + 1 \in 1..n /\ (m + 1) + 1 \in 1..n
        BY <1>1, <2>1, <2>2
      <3>2. Reaches(reach, rows, period, m + 1)
        BY <3>1
      <3>3. reach[(m + 1) + 1] = Follows(rows, reach[m + 1], (m + 1) + 1, period)
        BY <1>1, <2>1, <3>1
      <3>4. reach[m + 1] \subseteq rows
        BY <1>1, <3>1
      <3> QED BY <1>1, <2>1, <3>2, <3>3, <3>4, OneMoreStep
    <2> QED BY <2>1, <2>2
  <1>6. T = Nat
    <2>1. T \in SUBSET Nat
      OBVIOUS
    <2> HIDE DEF T
    <2> QED BY <1>4, <1>5, <2>1, NaturalInduction
  <1>7. k - 1 \in Nat /\ k - 1 < n /\ (k - 1) + 1 = k
    BY <1>1, <1>2
  <1>8. Reaches(reach, rows, period, (k - 1) + 1)
    BY <1>6, <1>7
  <1> QED BY <1>7, <1>8 DEF reach

\* The period of a preview is one.
LEMMA PreviewPeriodType ==
    ASSUME Circumstances, Gathering, NEW c \in Callers
    PROVE  preview[c].period \in Period
  <1>1. NoPeriod \in Period
    BY DEF NoPeriod, Period
  <1> QED BY <1>1, BegunPeriodType DEF Gathering

\* A funnel counts for a step the users who did every step up to it in order,
\* for any number of steps and users, any window, and whatever fails.
THEOREM FunnelsAreOrdered == Spec => []FunnelOrdered
  <1>1. Circumstances /\ AdapterInv /\ Gathering /\ Showing => FunnelOrdered
    <2> SUFFICES ASSUME Circumstances, AdapterInv, Gathering, Showing, NEW c \in Callers,
                        NEW k \in DOMAIN preview[c].users
                 PROVE  preview[c].users[k] =
                            Cardinality({e[1].user : e \in {f \in [1..k -> call[c].read] :
                                             ChainOf(f, k, preview[c].period)}})
      BY DEF FunnelOrdered, ChainOf
    <2> DEFINE rows == call[c].read
               period == preview[c].period
               users == preview[c].users
               reach == Completing(rows, period)
               chains == {f \in [1..k -> rows] : ChainOf(f, k, period)}
    <2>1. users # << >>
      OBVIOUS
    <2>2. Request.type = "funnel" /\ ValidFunnel /\ users = FunnelUsers(rows, period)
      BY <2>1 DEF Showing, Shown
    <2>3. rows \in SUBSET Events /\ period \in Period
      BY PreviewPeriodType DEF AdapterInv, AdapterTypeOK, Call
    <2> HIDE DEF rows, period, users
    <2>4. k \in 1..Len(Request.steps) /\ users[k] = Cardinality({row.user : row \in reach[k]})
      BY <2>2, <2>3, FunnelCounts DEF users
    <2>5. Reaches(reach, rows, period, k)
      BY <2>2, <2>3, <2>4, ChainsReach
    <2> HIDE DEF reach
    <2>6. /\ \A row \in reach[k] : \E e \in chains : e[1].user = row.user
          /\ \A e \in chains : e[k] \in reach[k] /\ e[1].user = e[k].user
      BY <2>5 DEF Reaches
    <2> HIDE DEF chains
    <2>7. {e[1].user : e \in chains} = {row.user : row \in reach[k]}
      BY <2>6
    <2> QED BY <2>4, <2>7 DEF chains, rows, period, users
  <1> QED BY <1>1, AlwaysHolding, AlwaysShowing, PTL

-----------------------------------------------------------------------------
(***************************************************************************)
(* Retention.                                                              *)
(***************************************************************************)

\* Months are at least four weeks apart, so a number of them takes as many
\* times four weeks.
LEMMA MonthsTakeTime ==
    ASSUME NEW from \in Months, NEW to \in Int
    PROVE  /\ MonthsBetween(from, to) \in Nat
           /\ MonthsBetween(from, to) > 0 => 28 * MonthsBetween(from, to) <= to - from
  <1> DEFINE S == {first \in Months : from < first /\ first <= to}
             q == (to - from) \div 28
             At28(m) == (m - from) \div 28
             Q == {At28(m) : m \in S}
             g == [n \in Q |-> CHOOSE m \in S : At28(m) = n]
  <1>1. Months \subseteq Int /\ \A month, later \in Months : month < later => month + 28 <= later
    BY CalendarAssumption
  <1>2. from \in Int
    BY <1>1
  <1>3. ASSUME NEW m \in S
        PROVE  m \in Int /\ At28(m) \in 1..q
    <2>1. m \in Int /\ from + 28 <= m /\ m <= to
      BY <1>1, <1>2
    <2> QED BY <1>2, <2>1
  <1>4. ASSUME NEW m \in S, NEW n \in S, At28(m) = At28(n)
        PROVE  m = n
    <2>1. m \in Int /\ n \in Int /\ (m < n => m + 28 <= n) /\ (n < m => n + 28 <= m)
      BY <1>1
    <2> HIDE DEF S
    <2> QED BY <1>2, <1>4, <2>1
  <1>5. q \in Int
    BY <1>2
  <1>6. Q \in SUBSET (1..q)
    BY <1>3
  <1>7. \A n \in Q : g[n] \in S /\ At28(g[n]) = n
    <2> HIDE DEF S, At28
    <2> QED OBVIOUS
  <1>8. g \in [Q -> S]
    <2>1. g = [n \in Q |-> g[n]]
      OBVIOUS
    <2> HIDE DEF g, Q, S
    <2> QED BY <1>7, <2>1
  <1>9. \A m \in S : \E n \in Q : g[n] = m
    <2> SUFFICES ASSUME NEW m \in S PROVE \E n \in Q : g[n] = m
      OBVIOUS
    <2>1. At28(m) \in Q
      OBVIOUS
    <2> HIDE DEF g, Q, S, At28
    <2> QED BY <1>4, <1>7, <2>1
  <1> HIDE DEF q, Q, g, S
  <1>10. IsFiniteSet(1..q) /\ Cardinality(1..q) = IF 1 > q THEN 0 ELSE q - 1 + 1
    BY <1>5, FS_Interval
  <1>11. IsFiniteSet(Q) /\ Cardinality(Q) \in Nat /\ Cardinality(Q) <= Cardinality(1..q)
    BY <1>6, <1>10, FS_Subset, FS_CardinalityType
  <1>12. Cardinality(S) \in Nat /\ Cardinality(S) <= Cardinality(Q)
    BY <1>8, <1>9, <1>11, FiniteImage
  <1>13. Cardinality(S) > 0 => Cardinality(S) <= q
    BY <1>5, <1>10, <1>11, <1>12
  <1>14. 28 * q <= to - from
    BY <1>2 DEF q
  <1>15. MonthsBetween(from, to) = Cardinality(S)
    BY DEF MonthsBetween, S
  <1> QED BY <1>2, <1>5, <1>12, <1>13, <1>14, <1>15

\* The calendar reaches the date of an event in the zone of the definition, and
\* of what follows it.
LEMMA EventsReach ==
    ASSUME Circumstances, Request.type = "retention", NEW event \in Events,
           NEW t \in Int, event.at <= t
    PROVE  CalendarReaches(LocalDate(Request.zone, t))
  <1> DEFINE offset == Offset(Request.zone, t)
             date == (event.at + offset) \div 24
  <1>1. Request.zone \in Zone /\ event.at \in Int
    BY ScenarioAssumption, DataSourceAssumption DEF Circumstances, Request
  <1>2. offset \in {Request.zone.before, Request.zone.after} /\ offset \in Int
    BY <1>1, OffsetType DEF Offset
  <1>3. CalendarReaches(date)
    BY <1>2, ScenarioAssumption DEF Circumstances, Request
  <1>4. LocalDate(Request.zone, t) = (t + offset) \div 24
    BY DEF LocalDate, Local
  <1> HIDE DEF offset
  <1>5. date \in Int /\ LocalDate(Request.zone, t) \in Int /\ date <= LocalDate(Request.zone, t)
    BY <1>1, <1>2, <1>4
  <1> HIDE DEF date
  <1>6. Months \subseteq Int
    BY CalendarAssumption
  <1> QED BY <1>3, <1>5, <1>6 DEF CalendarReaches

\* Truncating an instant gives a date that had begun.
LEMMA TruncatedType ==
    ASSUME Circumstances, Request.type = "retention", ValidRetention,
           NEW event \in Events, NEW t \in Int, event.at <= t
    PROVE  /\ Truncated(t) \in Int /\ 24 * Truncated(t) <= Local(Request.zone, t)
           /\ Request.grain = "month" => Truncated(t) \in Months
  <1> DEFINE date == LocalDate(Request.zone, t)
  <1>1. Request.zone \in Zone /\ Request.grain \in {"day", "week", "month"}
    BY ScenarioAssumption DEF Circumstances, Request, ValidRetention
  <1>2. date \in Int /\ 24 * date <= Local(Request.zone, t) /\ Local(Request.zone, t) \in Int
    BY <1>1, LocalDateType, OffsetType DEF Local
  <1>6. CalendarReaches(date)
    BY EventsReach DEF date
  <1> HIDE DEF date
  <1>3. /\ StartOfMonth(date) \in Int /\ StartOfMonth(date) <= date
        /\ StartOfMonth(date) \in Months
    BY <1>2, <1>6, MonthStarts
  <1>4. StartOfWeek(date) \in Int /\ StartOfWeek(date) <= date
    BY <1>2 DEF StartOfWeek
  <1>5. /\ Request.grain = "day" => Truncated(t) = date
        /\ Request.grain = "week" => Truncated(t) = StartOfWeek(date)
        /\ Request.grain = "month" => Truncated(t) = StartOfMonth(date)
    BY DEF Truncated, date
  <1> QED BY <1>1, <1>2, <1>3, <1>4, <1>5

DaysOfGrain ==
    CASE Request.grain = "day" -> 1
      [] Request.grain = "week" -> 7
      [] Request.grain = "month" -> 28

\* A cohort that is mature has had all its periods and one more.
LEMMA MatureHasHadTime ==
    ASSUME Circumstances, Request.type = "retention", ValidRetention,
           NEW period \in Period, NEW event \in Events, NEW t \in Int, event.at = t,
           t < period.end, Mature(Truncated(t), period)
    PROVE  24 * (Truncated(t) + DaysOfGrain * (Request.periods + 1))
               <= Local(Request.zone, period.end)
  <1> DEFINE start == Truncated(t)
             end == Truncated(period.end)
             periods == Request.periods
             local == Local(Request.zone, period.end)
  <1>1. Request.grain \in {"day", "week", "month"} /\ periods \in 1..24 /\ period.end \in Int
    BY DEF ValidRetention, Period
  <1>2. /\ start \in Int /\ end \in Int /\ 24 * end <= local
        /\ Request.grain = "month" => start \in Months
    <2>1. t <= t /\ t <= period.end
      BY <1>1
    <2> QED BY <1>1, <2>1, TruncatedType
  <1>3. local \in Int
    <2>1. Request.zone \in Zone
      BY ScenarioAssumption DEF Circumstances, Request
    <2> QED BY <1>1, <2>1, OffsetType DEF Local
  <1>4. Index(start, end) > periods
    BY DEF Mature
  <1> HIDE DEF start, end, periods, local
  <1>5. CASE Request.grain = "day"
    <2>1. Index(start, end) = end - start /\ DaysOfGrain = 1
      BY <1>5 DEF Index, DaysOfGrain
    <2> QED BY <1>1, <1>2, <1>3, <1>4, <2>1 DEF start, periods, local
  <1>6. CASE Request.grain = "week"
    <2>1. Index(start, end) = (end - start) \div 7 /\ DaysOfGrain = 7
      BY <1>6 DEF Index, DaysOfGrain
    <2>2. start + 7 * (periods + 1) <= end
      BY <1>1, <1>2, <1>4, <2>1
    <2> QED BY <1>1, <1>2, <1>3, <2>1, <2>2 DEF start, periods, local
  <1>7. CASE Request.grain = "month"
    <2>1. Index(start, end) = MonthsBetween(start, end) /\ DaysOfGrain = 28
      BY <1>7 DEF Index, DaysOfGrain
    <2>2. /\ MonthsBetween(start, end) \in Nat
          /\ MonthsBetween(start, end) > 0 => 28 * MonthsBetween(start, end) <= end - start
      BY <1>2, <1>7, MonthsTakeTime
    <2>3. start + 28 * (periods + 1) <= end
      BY <1>1, <1>2, <1>4, <2>1, <2>2
    <2> QED BY <1>1, <1>2, <1>3, <2>1, <2>3 DEF start, periods, local
  <1> QED BY <1>1, <1>5, <1>6, <1>7

\* When a user does what enters a cohort.
Entries(rows, period, user) ==
    {row.at : row \in {r \in rows :
        r.name = Request.cohort /\ r.user = user /\ Within(r.at, period)}}

\* A row of a retention is of a mature cohort: that of the first entry of one of
\* its members.
LEMMA RetentionRowIs ==
    ASSUME NEW rows, NEW period, NEW row \in RetentionRows(rows, period)
    PROVE  \E index \in 0..Request.periods : \E user, members, active :
               /\ Entries(rows, period, user) # {}
               /\ members \subseteq {r.user : r \in rows} /\ active \subseteq members
               /\ row = [start |-> Truncated(Min(Entries(rows, period, user))), index |-> index,
                         retained |-> Cardinality(active), size |-> Cardinality(members)]
               /\ Mature(Truncated(Min(Entries(rows, period, user))), period)
  <1> DEFINE Users(name) == {r.user : r \in {r \in rows : r.name = name /\ Within(r.at, period)}}
             Cohort(user) == Truncated(Min(Entries(rows, period, user)))
             Members(start) == {user \in Users(Request.cohort) : Cohort(user) = start}
             Active(user, start, index) ==
                 \E r \in rows :
                     /\ r.name = Request.returning /\ r.user = user /\ Within(r.at, period)
                     /\ Truncated(r.at) >= start /\ Index(start, Truncated(r.at)) = index
             Cell(start, index) ==
                 [start |-> start, index |-> index,
                  retained |-> Cardinality({user \in Members(start) : Active(user, start, index)}),
                  size |-> Cardinality(Members(start))]
             Starts == {s \in {Cohort(user) : user \in Users(Request.cohort)} : Mature(s, period)}
             All == {Cell(start, index) : start \in Starts, index \in 0..Request.periods}
             Found == {r \in All : r.retained > 0}
             Before(r) == {f \in Found : \/ f.start < r.start
                                         \/ f.start = r.start /\ f.index < r.index}
  <1>1. row \in All
    <2>1. RetentionRows(rows, period) = {r \in Found : Cardinality(Before(r)) < MaximumRows}
      BY DEF RetentionRows, Entries
    <2> HIDE DEF All, Before
    <2> QED BY <2>1
  <1>2. PICK start \in Starts, index \in 0..Request.periods : row = Cell(start, index)
    <2> HIDE DEF Cell, Starts
    <2> QED BY <1>1
  <1>3. PICK user \in Users(Request.cohort) : start = Cohort(user) /\ Mature(start, period)
    <2> HIDE DEF Users, Cohort
    <2> QED BY <1>2
  <1>4. Entries(rows, period, user) # {}
    BY <1>3 DEF Entries
  <1> DEFINE members == Members(start)
             active == {u \in Members(start) : Active(u, start, index)}
  <1>5. members \subseteq {r.user : r \in rows} /\ active \subseteq members
    OBVIOUS
  <1>6. row = [start |-> start, index |-> index,
               retained |-> Cardinality(active), size |-> Cardinality(members)]
    BY <1>2
  <1> HIDE DEF members, active
  <1>7. start = Truncated(Min(Entries(rows, period, user)))
    BY <1>3
  <1> QED BY <1>3, <1>4, <1>5, <1>6, <1>7

\* What the rows of a retention are.
LEMMA RetentionRowType ==
    ASSUME Circumstances, Request.type = "retention", ValidRetention,
           NEW rows \in SUBSET Events, NEW period \in Period, NEW row \in RetentionRows(rows, period)
    PROVE  /\ row \in [start: Int, index: Nat, retained: Nat, size: Nat]
           /\ 24 * (row.start + DaysOfGrain * (Request.periods + 1))
                  <= Local(Request.zone, period.end)
           /\ row.retained <= row.size
  <1>1. PICK index \in 0..Request.periods : \E user, members, active :
           /\ Entries(rows, period, user) # {}
           /\ members \subseteq {r.user : r \in rows} /\ active \subseteq members
           /\ row = [start |-> Truncated(Min(Entries(rows, period, user))), index |-> index,
                     retained |-> Cardinality(active), size |-> Cardinality(members)]
           /\ Mature(Truncated(Min(Entries(rows, period, user))), period)
    BY RetentionRowIs
  <1>2. PICK user, members, active :
           /\ Entries(rows, period, user) # {}
           /\ members \subseteq {r.user : r \in rows} /\ active \subseteq members
           /\ row = [start |-> Truncated(Min(Entries(rows, period, user))), index |-> index,
                     retained |-> Cardinality(active), size |-> Cardinality(members)]
           /\ Mature(Truncated(Min(Entries(rows, period, user))), period)
    BY <1>1
  <1> DEFINE entries == Entries(rows, period, user)
             t == Min(entries)
  <1>3. t \in Int /\ t \in entries
    <2>1. entries \in SUBSET Int /\ entries # {} /\ period.start \in Int
          /\ \A at \in entries : period.start <= at
      BY <1>2, DataSourceAssumption DEF Entries, Within, Period
    <2> HIDE DEF entries
    <2> QED BY <2>1, MinOfIntegers
  <1>10. PICK event \in Events : event.at = t /\ t < period.end
    BY <1>3 DEF Entries, Within
  <1> HIDE DEF t, entries
  <1>4. Truncated(t) \in Int
    BY <1>3, <1>10, TruncatedType
  <1>5. 24 * (Truncated(t) + DaysOfGrain * (Request.periods + 1)) <= Local(Request.zone, period.end)
    BY <1>2, <1>3, <1>10, MatureHasHadTime DEF t, entries
  <1>6. /\ Cardinality(members) \in Nat /\ Cardinality(active) \in Nat
        /\ Cardinality(active) <= Cardinality(members)
    <2> DEFINE named == {r.user : r \in rows}
               name == [r \in rows |-> r.user]
    <2>1. IsFiniteSet(rows)
      BY EventsFinite
    <2>2. name \in [rows -> named] /\ \A u \in named : \E r \in rows : name[r] = u
      OBVIOUS
    <2>3. members \subseteq named
      BY <1>2
    <2> HIDE DEF name, named
    <2>4. IsFiniteSet(named)
      BY <2>1, <2>2, FiniteImage
    <2>5. IsFiniteSet(members)
      BY <2>3, <2>4, FS_Subset
    <2>6. IsFiniteSet(active) /\ Cardinality(active) <= Cardinality(members)
      BY <1>2, <2>5, FS_Subset
    <2> QED BY <2>5, <2>6, FS_CardinalityType
  <1>7. index \in Nat
    BY DEF ValidRetention
  <1>8. /\ row.start = Truncated(t) /\ row.retained = Cardinality(active)
        /\ row.size = Cardinality(members)
        /\ row = [start |-> Truncated(t), index |-> index,
                  retained |-> Cardinality(active), size |-> Cardinality(members)]
    BY <1>2 DEF t, entries
  <1>9. row \in [start: Int, index: Nat, retained: Nat, size: Nat]
    BY <1>4, <1>6, <1>7, <1>8
  <1> QED BY <1>5, <1>6, <1>8, <1>9

\* No cohort is reported whose last period is not over, in any zone, for any
\* calendar with months of at least four weeks and any number of periods; and
\* no more users return than entered.
THEOREM RetentionIsMatured == Spec => []RetentionMatured
  <1>1. Circumstances /\ AdapterInv /\ Gathering /\ Showing => RetentionMatured
    <2> SUFFICES ASSUME Circumstances, AdapterInv, Gathering, Showing, NEW c \in Callers,
                        NEW row \in preview[c].cohorts
                 PROVE  /\ 24 * (row.start + DaysOfGrain * (Request.periods + 1))
                               <= Local(Request.zone, preview[c].period.end)
                        /\ row.retained <= row.size
      BY DEF RetentionMatured, DaysOfGrain
    <2>1. /\ Request.type = "retention" /\ ValidRetention
          /\ preview[c].cohorts = RetentionRows(call[c].read, preview[c].period)
      BY DEF Showing, Shown
    <2>2. call[c].read \in SUBSET Events /\ preview[c].period \in Period
      BY PreviewPeriodType DEF AdapterInv, AdapterTypeOK, Call
    <2> QED BY <2>1, <2>2, RetentionRowType
  <1> QED BY <1>1, AlwaysHolding, AlwaysShowing, PTL

-----------------------------------------------------------------------------
\* What every analysis gathers, holds and shows has its type.
THEOREM AnalysesTypeCorrect == Spec => []TypeOK
  <1>1. Circumstances /\ AdapterInv /\ Gathering /\ Holding => EngineTypeOK
    <2> SUFFICES ASSUME Circumstances, AdapterInv, Gathering, Holding PROVE EngineTypeOK
      OBVIOUS
    <2>1. investigation = [c \in Callers |-> investigation[c]]
      BY DEF Gathering
    <2>2. \A c \in Callers : investigation[c] \in Investigation
      BY DEF Holding, Holds
    <2>3. investigation \in [Callers -> Investigation]
      BY <2>1, <2>2
    <2> QED BY <2>3 DEF EngineTypeOK, AdapterInv, Circumstances
  <1>2. Circumstances /\ AdapterInv /\ Gathering /\ Showing => PreviewTypeOK
    <2> SUFFICES ASSUME Circumstances, AdapterInv, Gathering, Showing, NEW c \in Callers
                 PROVE  preview[c] \in Preview
      BY DEF Gathering, PreviewTypeOK
    <2> DEFINE p == preview[c]
               Cells == [start: Int, index: Nat, retained: Nat, size: Nat]
    <2>1. call[c].read \in SUBSET Events /\ p.period \in Period
      BY PreviewPeriodType DEF AdapterInv, AdapterTypeOK, Call
    <2>2. PreviewShape(p) /\ p.pc \in {"idle", "previewing", "previewed", "failed"}
      BY DEF Gathering, Showing, Shown
    <2>3. p.users \in Seq(Nat)
      <3>1. CASE p.users = << >>
        BY <3>1
      <3>2. CASE /\ Request.type = "funnel" /\ ValidFunnel
                 /\ p.users = FunnelUsers(call[c].read, p.period)
        BY <2>1, <3>2, FunnelCounts
      <3> QED BY <3>1, <3>2 DEF Showing, Shown
    <2>4. p.cohorts \in SUBSET Cells
      <3>1. CASE p.cohorts = {}
        BY <3>1
      <3>2. CASE /\ Request.type = "retention" /\ ValidRetention
                 /\ p.cohorts = RetentionRows(call[c].read, p.period)
        <4> HIDE DEF p
        <4> QED BY <2>1, <3>2, RetentionRowType
      <3> QED BY <3>1, <3>2 DEF Showing, Shown
    <2> HIDE DEF p, Cells
    <2>5. p \in [pc: {"idle", "previewing", "previewed", "failed"}, period: Period,
                 users: Seq(Nat), cohorts: SUBSET Cells]
      BY <2>1, <2>2, <2>3, <2>4 DEF PreviewShape
    <2> QED BY <2>5 DEF p, Cells, Preview
  <1> QED BY <1>1, <1>2, AlwaysHolding, AlwaysShowing, PTL DEF TypeOK
=============================================================================
