------------------------------- MODULE MCCiGate -------------------------------
(***************************************************************************)
(* CiGate for TLC: every stage, with up to MaxFaults faults in one run.    *)
(***************************************************************************)
EXTENDS CiGate

AllStages == Writers
=============================================================================
