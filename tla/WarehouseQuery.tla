----------------------------- MODULE WarehouseQuery -----------------------------
(***************************************************************************)
(* What a query of the warehouse promises to the handler that awaits it    *)
(* (src/docs/PHASE1.md, "Phase 1B warehouse adapter"): it reads at most    *)
(* once, inside a bounded read-only transaction; it answers with what it   *)
(* read or fails, and by then nothing of it is left at the warehouse.      *)
(***************************************************************************)
CONSTANT Callers

VARIABLE query   \* how far the query of each caller is

Init == query = [c \in Callers |-> "none"]

Move(c, from, to) ==
    /\ query[c] \in from
    /\ query' = [query EXCEPT ![c] = to]

Ended == {"none", "answered", "failed"}

Begin(c) == Move(c, Ended, "begun")

\* Refused before anything is opened, or failed at any point.
Fail(c) == Move(c, Ended \cup {"begun", "guarded", "read", "lost"}, "failed")

\* The read-only transaction is open and both its deadlines are set.
Guard(c) == Move(c, {"begun"}, "guarded")

Read(c) == Move(c, {"guarded"}, "read")

\* Something went wrong: from here there is no answer.
Lose(c) == Move(c, {"begun", "guarded", "read"}, "lost")

Answer(c) == Move(c, {"read"}, "answered")

\* The handler has ended, and with it what it held.
Forget(c) == Move(c, Ended, "none")

Next ==
    \E c \in Callers :
        Begin(c) \/ Fail(c) \/ Guard(c) \/ Read(c) \/ Lose(c) \/ Answer(c) \/ Forget(c)

Spec == Init /\ [][Next]_query
=============================================================================
