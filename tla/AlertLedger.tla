------------------------------ MODULE AlertLedger ------------------------------
(***************************************************************************)
(* What scheduled monitoring promises about one window of one rule, seen   *)
(* from its history (src/docs/PHASE7.md, "Safety behavior", "Delivery" and *)
(* "Scheduler"): the window is claimed once, for a list of destinations;   *)
(* each is told once at most for each time it is listed, and its delivery  *)
(* or its dead letter is on record; the window is closed once, quiet when  *)
(* nobody was told, as an alert when all that are listed were.             *)
(***************************************************************************)
EXTENDS Naturals, Sequences, FiniteSets

CONSTANTS Rules, Windows, Destinations,
          Lists   \* the lists of destinations a window may be claimed for

VARIABLES
    window,      \* of each <<rule, window>>: how far it is
    listed,      \* the destinations it was claimed for
    deliveries   \* the record of each notification

ledger == <<window, listed, deliveries>>

Statuses == {"delivered", "dead_letter"}

Init ==
    /\ window = [w \in Rules \X Windows |-> "unclaimed"]
    /\ listed = [w \in Rules \X Windows |-> <<>>]
    /\ deliveries = <<>>

\* How often a sequence holds an element.
Times(list, element) == Cardinality({m \in DOMAIN list : list[m] = element})

\* How often a destination was told of a window.
Recorded(w, destination, status) ==
    Times(deliveries, [rule |-> w[1], window |-> w[2],
                       destination |-> destination, status |-> status])

Told(w, destination) ==
    Recorded(w, destination, "delivered") + Recorded(w, destination, "dead_letter")

Claim(w, list) ==
    /\ window[w] = "unclaimed"
    /\ window' = [window EXCEPT ![w] = "running"]
    /\ listed' = [listed EXCEPT ![w] = list]
    /\ UNCHANGED deliveries

Tell(w, destination, status) ==
    /\ window[w] = "running"
    /\ Told(w, destination) < Times(listed[w], destination)
    /\ deliveries' = Append(deliveries,
           [rule |-> w[1], window |-> w[2], destination |-> destination, status |-> status])
    /\ UNCHANGED <<window, listed>>

CloseQuiet(w) ==
    /\ window[w] = "running"
    /\ \A destination \in Destinations : Told(w, destination) = 0
    /\ window' = [window EXCEPT ![w] = "quiet"]
    /\ UNCHANGED <<listed, deliveries>>

CloseAlerted(w) ==
    /\ window[w] = "running"
    /\ \A destination \in Destinations : Told(w, destination) = Times(listed[w], destination)
    /\ window' = [window EXCEPT ![w] = "alerted"]
    /\ UNCHANGED <<listed, deliveries>>

Next ==
    \E w \in Rules \X Windows :
        \/ \E list \in Lists : Claim(w, list)
        \/ \E destination \in Destinations, status \in Statuses : Tell(w, destination, status)
        \/ CloseQuiet(w) \/ CloseAlerted(w)

Spec == Init /\ [][Next]_ledger
=============================================================================
