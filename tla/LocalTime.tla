------------------------------- MODULE LocalTime -------------------------------
(***************************************************************************)
(* The periods of a question (src/time.js): which instants begin and end   *)
(* "the last 7 complete days" of a time zone.                              *)
(*                                                                         *)
(* Instants are hours of UTC, dates days; the hours from 24 * d on are     *)
(* date d in UTC.  Day 0 is a Monday.  A zone is ahead of UTC by one       *)
(* number of hours until its clocks change, and by another from then on.   *)
(***************************************************************************)
EXTENDS Integers, FiniteSetsExt

CONSTANTS
    Months,             \* the dates that are the first of a month
    MaximumRangeDays    \* dataSource.maximumRangeDays

\* No month is shorter than February.
ASSUME CalendarAssumption ==
    /\ Months \subseteq Int
    /\ \A month, later \in Months : month < later => month + 28 <= later
    /\ MaximumRangeDays \in Nat \ {0}

Zone == [before: Int, after: Int, change: Int]

\* What Intl.DateTimeFormat knows of a zone.
Offset(zone, t) == IF t < zone.change THEN zone.before ELSE zone.after

Local(zone, t) == t + Offset(zone, t)

\* dateKey.
LocalDate(zone, t) == Local(zone, t) \div 24

\* Mutant: the candidate is taken for the local midnight.
MidnightOfUTC(zone, date) == 24 * date

\* zonedMidnight: midnight of UTC, less what the zone is ahead at that time.
ZonedMidnight(zone, date) == 24 * date - Offset(zone, 24 * date)

StartOfWeek(date) == date - (date % 7)

\* The calendar begins before the month before a date's.
CalendarReaches(date) == \E first, month \in Months : first < month /\ month <= date

StartOfMonth(date) == Max({first \in Months : first <= date})

PreviousMonthStart(date) == Max({first \in Months : first < StartOfMonth(date)})

Period == [start: Int, end: Int]

\* range.
Days(zone, from, to) == [start |-> ZonedMidnight(zone, from), end |-> ZonedMidnight(zone, to)]

Kinds == {"yesterday", "last_7_complete_days", "last_30_complete_days",
          "previous_calendar_week", "current_month_to_date", "previous_calendar_month"}

ResolvePeriod(kind, zone, now) ==
    LET today == LocalDate(zone, now) IN
    CASE kind = "yesterday" -> Days(zone, today - 1, today)
      [] kind = "last_7_complete_days" -> Days(zone, today - 7, today)
      [] kind = "last_30_complete_days" -> Days(zone, today - 30, today)
      [] kind = "previous_calendar_week" ->
             Days(zone, StartOfWeek(today) - 7, StartOfWeek(today))
      [] kind = "current_month_to_date" -> Days(zone, StartOfMonth(today), today)
      [] kind = "previous_calendar_month" ->
             Days(zone, PreviousMonthStart(today), StartOfMonth(today))

PrecedingEqualPeriod(period) ==
    [start |-> period.start - (period.end - period.start), end |-> period.start]

\* assertRangeWithinLimit.  On the first of a month the month to date is empty.
WithinLimit(period) ==
    /\ period.end - period.start > 0
    /\ period.end - period.start <= 24 * MaximumRangeDays

Within(t, period) == period.start <= t /\ t < period.end

-----------------------------------------------------------------------------
\* When zonedMidnight is right: the zone is ahead by as much at midnight of UTC
\* as at the instant it returns.
MidnightExact(zone, date) ==
    Offset(zone, ZonedMidnight(zone, date)) = Offset(zone, 24 * date)

IsLocalMidnight(zone, t) == Local(zone, t) % 24 = 0

\* The clocks do not change in the hour before t, nor between t and midnight of
\* UTC of the date that begins about t.
ClocksSteady(zone, t) ==
    \A s \in {t - 1, 24 * LocalDate(zone, t + 12)} : Offset(zone, s) = Offset(zone, t)
=============================================================================
