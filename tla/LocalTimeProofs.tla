---------------------------- MODULE LocalTimeProofs ----------------------------
(***************************************************************************)
(* Theorems of LocalTime, for every zone, date and time.                   *)
(***************************************************************************)
EXTENDS LocalTime, TLAPS

\* A zone whose clocks change by an hour at most.
HourZone == {zone \in Zone : zone.before - zone.after \in {-1, 0, 1}}

LEMMA OffsetType ==
    ASSUME NEW zone \in Zone, NEW t \in Int
    PROVE  Offset(zone, t) \in Int
  BY DEF Zone, Offset

LEMMA LocalDateType ==
    ASSUME NEW zone \in Zone, NEW t \in Int
    PROVE  /\ LocalDate(zone, t) \in Int
           /\ 24 * LocalDate(zone, t) <= Local(zone, t)
           /\ Local(zone, t) < 24 * LocalDate(zone, t) + 24
  BY OffsetType DEF LocalDate, Local

LEMMA MidnightType ==
    ASSUME NEW zone \in Zone, NEW date \in Int
    PROVE  /\ ZonedMidnight(zone, date) \in Int
           /\ ZonedMidnight(zone, date) = 24 * date - Offset(zone, 24 * date)
  BY OffsetType DEF ZonedMidnight

\* zonedMidnight returns midnight of its date exactly when the clocks do not
\* change between that instant and midnight of UTC: always in a zone without
\* summer time, and not on the two days of the year in a zone east of UTC.
THEOREM MidnightIsLocal ==
    ASSUME NEW zone \in Zone, NEW date \in Int
    PROVE  MidnightExact(zone, date)
               <=> Local(zone, ZonedMidnight(zone, date)) = 24 * date
  <1> DEFINE t == ZonedMidnight(zone, date)
  <1>1. /\ t \in Int /\ t = 24 * date - Offset(zone, 24 * date)
        /\ Offset(zone, 24 * date) \in Int
    BY MidnightType, OffsetType
  <1>2. Offset(zone, t) \in Int
    BY <1>1, OffsetType
  <1> QED BY <1>1, <1>2 DEF MidnightExact, Local

\* A date that has begun has begun at its midnight, where the clocks are steady:
\* no day that is not over, nor an hour of it, is called complete.
THEOREM MidnightIsOver ==
    ASSUME NEW zone \in HourZone, NEW date \in Int, NEW now \in Int,
           date <= LocalDate(zone, now),
           ClocksSteady(zone, ZonedMidnight(zone, date))
    PROVE  /\ ZonedMidnight(zone, date) <= now
           /\ IsLocalMidnight(zone, ZonedMidnight(zone, date))
  <1> DEFINE t == ZonedMidnight(zone, date)
             o == Offset(zone, 24 * date)
  <1>1. zone \in Zone /\ zone.before - zone.after \in {-1, 0, 1}
    BY DEF HourZone
  <1>2. /\ t \in Int /\ o \in Int /\ t = 24 * date - o
        /\ zone.before \in Int /\ zone.after \in Int /\ zone.change \in Int
    BY <1>1, MidnightType, OffsetType DEF Zone
  <1> HIDE DEF t, o
  <1>3. LocalDate(zone, t + 12) = date
    <2>1. Offset(zone, t + 12) \in Int /\ Offset(zone, t + 12) - o \in {-1, 0, 1}
      BY <1>1, <1>2 DEF o, Offset
    <2>2. Local(zone, t + 12) = 24 * date + 12 + (Offset(zone, t + 12) - o)
      BY <1>2, <2>1 DEF Local
    <2> QED BY <1>2, <2>1, <2>2 DEF LocalDate
  <1>4. Offset(zone, t) = o /\ Offset(zone, t - 1) = Offset(zone, t)
    BY <1>3 DEF ClocksSteady, t, o
  <1>5. Local(zone, t) = 24 * date
    BY <1>2, <1>4 DEF Local
  <1>6. IsLocalMidnight(zone, t)
    BY <1>5 DEF IsLocalMidnight
  <1>7. 24 * date <= now + Offset(zone, now) /\ Offset(zone, now) \in Int
    BY <1>1, LocalDateType, OffsetType DEF Local
  <1>8. t <= now
    <2>1. CASE Offset(zone, now) = o
      BY <1>2, <1>7, <2>1
    <2>2. CASE Offset(zone, now) # o
      BY <1>1, <1>2, <1>4, <1>7, <2>2 DEF Offset
    <2> QED BY <2>1, <2>2
  <1> QED BY <1>6, <1>8 DEF t

\* The two periods of a comparison are of equal length, the earlier ends where
\* the later begins, and no event is counted in both.
THEOREM PrecedingAbuts ==
    ASSUME NEW period \in Period, NEW t \in Int
    PROVE  LET before == PrecedingEqualPeriod(period) IN
           /\ before.end = period.start
           /\ before.end - before.start = period.end - period.start
           /\ ~(Within(t, period) /\ Within(t, before))
           /\ period.start <= period.end =>
                  (before.start <= t /\ t < period.end => Within(t, period) \/ Within(t, before))
  BY DEF PrecedingEqualPeriod, Period, Within
=============================================================================
