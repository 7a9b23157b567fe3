--------------------------- MODULE MCQuestionService ---------------------------
(***************************************************************************)
(* Instances of QuestionService for TLC.                                   *)
(***************************************************************************)
EXTENDS QuestionService, TLC

CONSTANTS ana, h1, h2

HandlerSymmetry == Permutations({h1, h2})
=============================================================================
