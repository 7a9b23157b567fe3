------------------------------- MODULE MCAnalyses -------------------------------
(***************************************************************************)
(* An instance of AdvancedAnalytics for TLC: one handler, and the requests *)
(* and circumstances where a segment, a step, a cohort or a day is on one  *)
(* side of a limit or on the other.                                        *)
(***************************************************************************)
EXTENDS AdvancedAnalytics

CONSTANT handler

MCMonths == {-58, -27, 4, 32, 63}

MCDimensions == <<"platform", "device">>

MCSegmentOf(d, event) == IF d = "platform" THEN event.platform ELSE event.user + 3 * event.platform

Steady(offset) == [before |-> offset, after |-> offset, change |-> 0]

AllColumns == {"event_name", "user_id", "occurred_at", "platform", "device"}

\* At noon of day 10 in Kolkata yesterday began 29 hours before noon and the
\* day before 53.
Kolkata == Steady(5)
Noon == 24 * 10 + 7

Event(user, name, platform, at) ==
    [user |-> user, name |-> name, platform |-> platform, at |-> at]

Yesterday == 24 * 9
DayBefore == 24 * 8

-----------------------------------------------------------------------------
(***************************************************************************)
(* Investigations: of which rows, of which columns, of which request.      *)
(***************************************************************************)
Rows ==
    {Event(1, "open", 1, Yesterday), Event(2, "open", 1, Yesterday), Event(1, "open", 2, Yesterday),
     Event(1, "open", 1, DayBefore), Event(2, "open", 3, DayBefore)}

Late == Event(3, "open", 2, DayBefore)

Asking(aggregation, allowed, asked, limit) ==
    [type |-> "investigation", name |-> "open", aggregation |-> aggregation,
     allowed |-> allowed, period |-> "yesterday", asked |-> asked, limit |-> limit]

Both == {"platform", "device"}

Scene(events, late, columns, restricted, request) ==
    [events |-> events, late |-> late, columns |-> columns, restricted |-> restricted,
     zone |-> Kolkata, now |-> Noon, request |-> request]

\* Every warehouse, with an event that may arrive at any moment.
OfRows ==
    {Scene(events, {Late}, AllColumns, {}, Asking(aggregation, Both, {}, 4)) :
        events \in SUBSET Rows, aggregation \in {"event_count", "distinct_count"}}

\* Two segments that grew, and a third that fell by more than each.
Opposed ==
    {Event(user, "open", platform, Yesterday) : user \in {1, 2}, platform \in {1, 2}}
        \cup {Event(user, "open", 3, DayBefore) : user \in {1, 2, 3}}

OfOpposed ==
    {Scene(Opposed, {}, AllColumns, {}, Asking("event_count", Both, asked, 4)) :
        asked \in {{}, {<<"platform">>}}}

\* One warehouse, and every way of asking.
OfRequests ==
    {Scene(Rows, {}, AllColumns \ missing, restricted,
           Asking("distinct_count", allowed, asked, limit)) :
        missing \in {{}, {"device"}, {"user_id"}, AllColumns}, restricted \in {{}, {"user_id"}},
        allowed \in {Both, {}},
        asked \in {{}, {<<"device">>}, {<<"device", "platform">>}}, limit \in {1, 2}}

\* Limits in and out of range, and a dimension asked for twice.
OfLimits ==
    {Scene(Rows, {}, AllColumns, {}, Asking("event_count", Both, asked, limit)) :
        asked \in {{}, {<<"device", "device", "platform">>}}, limit \in {0, 1, 2, 6, 7}}

\* A change of a metric that no dimension divides.
OfUndivided == {Scene(Opposed, {}, AllColumns, {}, Asking("event_count", {}, {}, 4))}

-----------------------------------------------------------------------------
(***************************************************************************)
(* Funnels, retention, and the days of a zone.                             *)
(***************************************************************************)
Funnel(period, steps, window) ==
    [type |-> "funnel", period |-> period, steps |-> steps, window |-> window]

Retention(period, grain, periods, zone) ==
    [type |-> "retention", period |-> period, cohort |-> "open", returning |-> "open",
     grain |-> grain, periods |-> periods, zone |-> zone]

\* Steps on the same hour, one day apart, just after the window, of two users.
Steps ==
    {Event(1, "open", 1, Yesterday - 60), Event(1, "pay", 1, Yesterday - 60),
     Event(1, "pay", 1, Yesterday - 36), Event(2, "pay", 1, Yesterday - 40),
     Event(2, "open", 1, Yesterday - 64), Event(1, "done", 1, Yesterday - 37)}

Funnels ==
    {Scene(events, {}, AllColumns, {}, Funnel("last_7_complete_days", steps, window)) :
        events \in SUBSET Steps,
        steps \in {<<"open", "pay", "done">>, <<"pay", "pay">>}, window \in {1}}
    \cup {Scene({}, {}, AllColumns, {}, Funnel("last_7_complete_days", <<"open">>, 1))}

\* Opened on each of several days, at the first and last hours of them.
Opened ==
    {Event(1, "open", 1, Yesterday), Event(1, "open", 1, Yesterday + 18),
     Event(1, "open", 1, Yesterday - 24), Event(2, "open", 1, Yesterday - 6),
     Event(2, "open", 1, Yesterday - 24 * 14), Event(1, "open", 1, Yesterday - 24 * 13),
     Event(1, "open", 1, Yesterday - 24 * 20)}

AroundMonth ==
    {Event(1, "open", 1, 24 * 3), Event(1, "open", 1, 24 * 5), Event(2, "open", 1, 24 * 6)}

Retentions ==
    {Scene(events, {}, AllColumns, {}, Retention("last_30_complete_days", grain, periods, zone)) :
        events \in SUBSET Opened, grain \in {"day", "week"}, periods \in {1, 2},
        zone \in {Kolkata, Steady(-8)}}
    \cup {[Scene(AroundMonth, {}, AllColumns, {}, Retention("last_30_complete_days", "month", periods, Kolkata))
               EXCEPT !.now = 24 * 32 + 7] : periods \in {1, 2}}

\* Kolkata; Los Angeles; New York, where clocks go forward on a day that has
\* begun in UTC; Sydney, where they go back and forward before it has; Amman,
\* where midnight comes twice.
Zones ==
    {Kolkata, Steady(-8),
     [before |-> -5, after |-> -4, change |-> 24 * 9 + 7],
     [before |-> 11, after |-> 10, change |-> 24 * 9 - 8],
     [before |-> 10, after |-> 11, change |-> 24 * 10 - 8],
     [before |-> 3, after |-> 2, change |-> 24 * 10 - 2]}

Times == {24 * 4, 24 * 4 + 1, 24 * 10 - 11, 24 * 10 - 3, 24 * 10 + 8}

Calendar ==
    {[events |-> {}, late |-> {}, columns |-> AllColumns, restricted |-> {},
      zone |-> zone, now |-> now, request |-> Funnel(kind, <<"open", "pay">>, 1)] :
        zone \in Zones, now \in Times, kind \in Kinds}

MCEvents == Rows \cup {Late} \cup Opposed \cup Steps \cup Opened \cup AroundMonth

MCScenarios ==
    OfRows \cup OfOpposed \cup OfRequests \cup OfLimits \cup OfUndivided
        \cup Funnels \cup Retentions \cup Calendar
=============================================================================
