---------------------------- MODULE MetricRegistry ----------------------------
(***************************************************************************)
(* What the governance of metric versions promises its users, whatever the *)
(* number of handlers: a registry in which every operation is one atomic   *)
(* step.  A version is drafted once with a definition that never changes,  *)
(* goes to review, is verified only while its latest validation passed,    *)
(* and on activation replaces the active version of its metric at once.    *)
(*                                                                         *)
(* src/docs/PHASE2.md, "Trust invariants" and "Lifecycle", states these    *)
(* promises; SemanticGovernance shows that the handlers keep them.         *)
(***************************************************************************)
EXTENDS Naturals

CONSTANTS Metrics, Entities, MaxVersion

VARIABLES
    status,      \* of each version
    definition,  \* of each version that exists
    verdict      \* of the latest validation of each version

registry == <<status, definition, verdict>>

Versions == Metrics \X (1..MaxVersion)

Definitions ==
    [entity: Entities, allowlisted: BOOLEAN, ratio: {<<>>} \cup (Metrics \X Metrics)]

Init ==
    /\ status = [v \in Versions |-> IF v[2] = 1 THEN "active" ELSE "absent"]
    /\ definition \in [Versions -> Definitions]
    /\ verdict = [v \in Versions |-> "none"]

Draft(v) ==
    /\ status[v] = "absent"
    /\ status' = [status EXCEPT ![v] = "draft"]
    /\ \E d \in Definitions : definition' = [definition EXCEPT ![v] = d]
    /\ UNCHANGED verdict

Submit(v) ==
    /\ status[v] = "draft"
    /\ status' = [status EXCEPT ![v] = "in_review"]
    /\ UNCHANGED <<definition, verdict>>

Validate(v) ==
    /\ status[v] # "absent"
    /\ UNCHANGED <<status, definition>>
    /\ \E outcome \in {"passed", "failed"} : verdict' = [verdict EXCEPT ![v] = outcome]

Verify(v) ==
    /\ status[v] = "in_review"
    /\ verdict[v] = "passed"
    /\ status' = [status EXCEPT ![v] = "verified"]
    /\ UNCHANGED <<definition, verdict>>

Activate(v) ==
    /\ status[v] = "verified"
    /\ status' = [w \in Versions |->
                     IF w = v THEN "active"
                     ELSE IF w[1] = v[1] /\ status[w] = "active" THEN "superseded"
                     ELSE status[w]]
    /\ UNCHANGED <<definition, verdict>>

Next ==
    \E v \in Versions :
        \/ Draft(v)
        \/ Submit(v)
        \/ Validate(v)
        \/ Verify(v)
        \/ Activate(v)

Spec == Init /\ [][Next]_registry
=============================================================================
