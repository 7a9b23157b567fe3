------------------------ MODULE MCInvestigationReviews ------------------------
(***************************************************************************)
(* Instances of InvestigationReviews for TLC.                              *)
(***************************************************************************)
EXTENDS InvestigationReviews

CONSTANTS revenue, ann, bob, vera, r1, r2

AnalystsAndViewer == ann :> "analyst" @@ bob :> "metric_approver" @@ vera :> "viewer"

RequestSymmetry == Permutations({r1, r2})
=============================================================================
