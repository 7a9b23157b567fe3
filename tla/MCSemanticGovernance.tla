------------------------- MODULE MCSemanticGovernance -------------------------
(***************************************************************************)
(* Instances of SemanticGovernance for TLC.                                *)
(***************************************************************************)
EXTENDS SemanticGovernance, TLC

CONSTANTS m1, m2, m3, user, editor, approver, r1, r2

\* Nobody changes roles.
FixedRoles == editor :> {"metric_editor"} @@ approver :> {"metric_approver"}

\* The editor is made an approver, and back: each change gives and takes.
PromotedEditor == [FixedRoles EXCEPT ![editor] = @ \cup {"metric_approver"}]

CountOf(entity) == [entity |-> entity, allowlisted |-> TRUE, ratio |-> <<>>]
RatioOf(n, d) == [entity |-> user, allowlisted |-> TRUE, ratio |-> <<n, d>>]

\* Two ratios, each over the other's metric, and one that is malformed.
RatioDrafts ==
    {<<m1, RatioOf(m2, m3)>>, <<m2, RatioOf(m1, m3)>>, <<m2, RatioOf(m3, m3)>>}

\* Nobody asks about the versions of the seed.
SecondVersions == {<<m1, 2>>, <<m2, 2>>}

RequestSymmetry == Permutations({r1, r2})
=============================================================================
