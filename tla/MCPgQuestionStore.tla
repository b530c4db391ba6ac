-------------------------- MODULE MCPgQuestionStore --------------------------
(***************************************************************************)
(* Instances of PgQuestionStore for TLC.                                   *)
(***************************************************************************)
EXTENDS PgQuestionStore, MCCommands, TLC

OneInstant == {1}
TwoInstants == 1 .. 2
Symmetry == Permutations(Requests)
=============================================================================
