--------------------------- MODULE MCSecurityAudit ---------------------------
(***************************************************************************)
(* Instances of SecurityAudit for TLC.  The unit of time is a minute.      *)
(***************************************************************************)
EXTENDS SecurityAudit, TLC

OneInstant == {1}
ThreeInstants == {1, 3, 4}
Symmetry == Permutations(Requests)
=============================================================================
