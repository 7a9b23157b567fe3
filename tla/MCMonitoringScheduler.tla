------------------------- MODULE MCMonitoringScheduler -------------------------
(***************************************************************************)
(* Instances of MonitoringScheduler for TLC.                               *)
(***************************************************************************)
EXTENDS MonitoringScheduler, TLC

CONSTANTS revenue, signups, mail, slack, i1, i2

Threshold(destinations, cooldown, enabled) ==
    [kind |-> "business", period |-> 1, cooldown |-> cooldown,
     destinations |-> destinations, enabled |-> enabled, nextRun |-> 0]

MissingData(period) ==
    [kind |-> "missing_data", period |-> period, cooldown |-> 0,
     destinations |-> <<mail, mail>>, enabled |-> TRUE, nextRun |-> 0]

\* One rule, edited from an hourly threshold to a longer cadence, where it lists its
\* destination twice, and back.
Edited == {Threshold(<<mail>>, 2, TRUE), MissingData(2)}

\* One rule that is switched on and off.
Switched == {Threshold(<<mail>>, 2, TRUE), Threshold(<<mail>>, 2, FALSE)}

\* Rules that nobody edits.
Hourly == {Threshold(<<mail>>, 2, TRUE)}

\* Rules whose next_run_at differ.
Staggered == {[Threshold(<<mail>>, 2, TRUE) EXCEPT !.nextRun = hour] : hour \in {0, 1}}

InvocationSymmetry == Permutations({i1, i2})
=============================================================================
