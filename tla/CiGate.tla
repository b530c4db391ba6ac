-------------------------------- MODULE CiGate --------------------------------
(***************************************************************************)
(* A CI gate: scripts/ci/run-stage6r*.sh runs the check of the test        *)
(* identifiers, the builds and the test suites one after the other with    *)
(* their output in one log, and then the evidence writer of the stage.     *)
(*                                                                         *)
(* Two channels tell the writer what happened, and neither is complete:    *)
(* the exit code of the gate does not cover the identifier check (set +e), *)
(* and the log covers only what was printed and reached the disk.  A fault *)
(* is a step that does not go as it should, or the loss of the rest of the *)
(* log (tee cannot write it).                                              *)
(***************************************************************************)
EXTENDS CiEvidence, FiniteSets

CONSTANTS
  Stages,    \* the gates that are run
  MaxFaults  \* bound on the faults of a run

ASSUME GateAssumption == Stages \subseteq Writers /\ MaxFaults \in Nat

VARIABLES
  stage,     \* which gate runs
  root,      \* the runner's user is root
  pc,        \* the step of the plan; 0 before the preflight
  outcome,   \* step |-> how it went
  log,       \* what reached the log file
  logging,   \* tee can still write
  gateExit,  \* exit code of the gate so far: SUITE_FAILURE
  evidence,  \* "none", "accepted" or "rejected": the JSON file
  exit       \* exit code of the script, or -1 while it runs

gateVars == <<stage, root, pc, outcome, log, logging, gateExit, evidence, exit>>

(***************************************************************************)
(* The steps of the scripts.  onFail is where a failed step leads; counts  *)
(* says whether its failure reaches the exit code.                         *)
(***************************************************************************)
Step(what, onFail, counts) == [what |-> what, onFail |-> onFail, counts |-> counts]

\* run-stage6r5 and later: check-test-ids.sh, then test-all.sh.
FullPlan == <<
  Step("ids", 2, FALSE),
  Step("build", 8, TRUE), Step("domain", 4, TRUE), Step("api", 5, TRUE),
  Step("mobile", 6, TRUE), Step("oidc", 7, TRUE), Step("townReadiness", 8, TRUE),
  Step("build", 10, TRUE), Step("postgresql", 10, TRUE),
  Step("build", 12, TRUE), Step("dr", 12, TRUE)>>

\* run-stage6r4c: test-stage6r4-db-security.sh, which stops at the first failure.
SecurityPlan == <<
  Step("ids", 6, TRUE), Step("build", 6, TRUE), Step("api", 6, TRUE),
  Step("build", 6, TRUE), Step("postgresql", 6, TRUE)>>

Plan == IF stage = "6R-4C" THEN SecurityPlan ELSE FullPlan
Finished == pc > Len(Plan)

Suites == SuitesOf(stage)

\* The number of tests that a suite has: what the writer expects, or the
\* number of today for a suite that the writer does not know.
Tests(s) == IF s \in DOMAIN Suites THEN Suites[s] ELSE Suites6R11[s]

(***************************************************************************)
(* How a step may go, with what it prints and its exit code.  A suite that *)
(* is "fewer" or "more" passes with a test too few or too many; "bailed"   *)
(* dies after its heading, "unstarted" before it, and "late" after it has  *)
(* printed that all its tests passed.                                      *)
(***************************************************************************)
SuiteOutcomes == {"good", "late", "red", "fewer", "more", "bailed", "unstarted"}
BuildOutcomes == {"good", "warned", "broken"}
Outcomes(what) ==
  CASE what = "ids" -> {"good", "red"}
    [] what = "build" -> BuildOutcomes
    [] OTHER -> SuiteOutcomes

SuiteLines(what, how) ==
  CASE how \in {"good", "late"} -> <<Heading(what), Result(Tests(what), 0)>>
    [] how = "red" -> <<Heading(what), Result(Tests(what) - 1, 1)>>
    [] how = "fewer" -> <<Heading(what), Result(Tests(what) - 1, 0)>>
    [] how = "more" -> <<Heading(what), Result(Tests(what) + 1, 0)>>
    [] how = "bailed" -> <<Heading(what)>>
    [] how = "unstarted" -> <<>>

Printed(what, how) ==
  CASE what = "ids" -> IF how = "good" THEN <<IdsPassed>> ELSE <<>>
    [] what = "build" ->
         <<BuildCounts(IF how = "warned" THEN 1 ELSE 0, IF how = "broken" THEN 1 ELSE 0)>>
    [] OTHER -> SuiteLines(what, how)

Failed(how) == how \in {"late", "red", "broken", "bailed", "unstarted"}

Faults ==
  Cardinality({i \in DOMAIN outcome : outcome[i] \notin {"good", "skipped"}})
    + (IF logging THEN 0 ELSE 1)

GateInit ==
  /\ stage \in Stages
  /\ root \in BOOLEAN
  /\ pc = 0
  /\ outcome = [i \in DOMAIN Plan |-> "skipped"]
  /\ log = <<>>
  /\ logging = TRUE
  /\ gateExit = 0
  /\ evidence = "none"
  /\ exit = -1

\* The guard against root: the suites are not started.
Preflight ==
  /\ pc = 0
  /\ gateExit' = IF root THEN 2 ELSE 0
  /\ pc' = IF root THEN Len(Plan) + 1 ELSE 1
  /\ UNCHANGED <<stage, root, outcome, log, logging, evidence, exit>>

RunGateStep ==
  /\ pc \in DOMAIN Plan
  /\ \E how \in Outcomes(Plan[pc].what) :
       /\ how = "good" \/ Faults < MaxFaults
       /\ outcome' = [outcome EXCEPT ![pc] = how]
       /\ log' = IF logging THEN log \o Printed(Plan[pc].what, how) ELSE log
       /\ gateExit' = IF Failed(how) /\ Plan[pc].counts THEN 1 ELSE gateExit
       /\ pc' = IF Failed(how) THEN Plan[pc].onFail ELSE pc + 1
  /\ UNCHANGED <<stage, root, logging, evidence, exit>>

\* The disk is full: tee reads on and writes no more.
LoseLog ==
  /\ pc \in DOMAIN Plan
  /\ logging
  /\ Faults < MaxFaults
  /\ logging' = FALSE
  /\ UNCHANGED <<stage, root, pc, outcome, log, gateExit, evidence, exit>>

\* main of the writer: the JSON file first.
WriteJson ==
  /\ Finished
  /\ evidence = "none"
  /\ evidence' = IF Accepts(stage, log, [root |-> root, gateExit |-> gateExit])
                 THEN "accepted" ELSE "rejected"
  /\ UNCHANGED <<stage, root, pc, outcome, log, logging, gateExit, exit>>

\* Mutant: the script ends with the exit code of the gate.
ExitWithGate ==
  /\ evidence # "none"
  /\ exit = -1
  /\ exit' = gateExit
  /\ UNCHANGED <<stage, root, pc, outcome, log, logging, gateExit, evidence>>

\* main of the writer, the summary file, and the exit of the script.  When
\* the summary cannot be written the writer dies with exit code 1.
WriteSummary ==
  /\ evidence # "none"
  /\ exit = -1
  /\ \E written \in BOOLEAN :
       exit' = CASE gateExit # 0 -> gateExit
                 [] gateExit = 0 /\ written /\ evidence = "accepted" -> 0
                 [] OTHER -> 1
  /\ UNCHANGED <<stage, root, pc, outcome, log, logging, gateExit, evidence>>

GateNext == Preflight \/ RunGateStep \/ LoseLog \/ WriteJson \/ WriteSummary
GateSpec == GateInit /\ [][GateNext]_gateVars

\* Every step that the writer of this stage vouches for.  6R-4C does not
\* look at warnings.
Vouched(i) ==
  /\ Plan[i].what \in DOMAIN Suites \cup {"ids", "build"}
  /\ ~(stage = "6R-4C" /\ outcome[i] = "warned")

\* Accepted evidence (acceptance_status) tells the truth about what ran,
\* although the exit code misses the identifier check and the log may miss
\* any line: nobody is root, and every build and every registered suite ran
\* to its end with exactly the expected tests passed.
AcceptedMeansGreen ==
  evidence = "accepted" => ~root /\ \A i \in DOMAIN Plan : Vouched(i) => outcome[i] = "good"

\* A suite that the writer does not know, and that has another number of
\* tests than it has today.
ForeignCount(i) ==
  /\ Plan[i].what \notin DOMAIN Suites \cup {"ids", "build"}
  /\ outcome[i] \in {"fewer", "more"}

\* parse_suites never reports a suite as passed on the strength of another
\* suite's lines, whatever died in between.  The one way in which it can is
\* a suite that the writer does not know, whose heading does not take over
\* from a suite that died, and which has as many tests as that one.
PassedIsItsOwn ==
  \A i \in DOMAIN Plan :
    /\ Plan[i].what \in DOMAIN Suites
    /\ ParseSuites(Suites, log)[Plan[i].what].status = "passed"
    => outcome[i] \in {"good", "late"} \/ \E j \in DOMAIN Plan : ForeignCount(j)

\* A green job ran every step of its plan, and none of them failed.  Neither
\* the exit code of the gate nor the evidence knows that alone: the one
\* misses the identifier check, the other the suites that the writer of the
\* stage does not register, and the summary may fail after the evidence.
GreenJobRanItsPlan ==
  exit = 0 => \A i \in DOMAIN Plan : outcome[i] # "skipped" /\ ~Failed(outcome[i])

=============================================================================
