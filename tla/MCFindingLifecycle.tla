-------------------------- MODULE MCFindingLifecycle --------------------------
EXTENDS FindingLifecycle
\* One finding that blocks and one that does not.
TwoSeverities == ("f1" :> "P1") @@ ("f2" :> "P2")
=============================================================================
