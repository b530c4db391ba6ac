----------------------------- MODULE ControllerCli -----------------------------
(***************************************************************************)
(* The commands of scripts/qf-ai-controller.py: what each passes to the    *)
(* decisions of core.py, and the exit status that a workflow step sees.    *)
(* A step runs under `set -e`, so a command that exits with 1 ends its     *)
(* job.  Raised is the result of a command that raised ControllerError.    *)
(***************************************************************************)
EXTENDS ReviewGate

Raised(reason) == Decision("qf:stopped", FALSE, {reason})

\* main: 0 when the decision is accepted.
ExitCode(decision) == IF decision.accepted THEN 0 ELSE 1
Succeeds(decision) == ExitCode(decision) = 0

\* The exit status of `preflight` is 0 for every result that it returns.
CommandPreflight(plane, baseline, expectedPhase) ==
  IF ~ControlPlaneIsSound(plane) THEN Raised("registry drift")
  ELSE LET verdict == ValidateThreatBaseline(baseline, expectedPhase)
       IN IF verdict.accepted THEN Decision(baseline.phase, TRUE, {}) ELSE Raised("unsafe baseline")

CommandWorkOrder(order, facts) == ValidateWorkOrder(order, facts)

CommandScope(order, paths) == ValidateScope(paths, order.scope, order.prohibited)

CommandManufacturingResult(result, order, patch, base, paths) ==
  ValidateManufacturingResult(result, order, patch, base, paths)

CommandPatchIdentity(manufactured, verified, published) ==
  ValidatePatchIdentity(manufactured, verified, published)

CommandRoute(repository, headRepository) == RouteOrigin(repository, headRepository)

\* The checks are validated first, and their verdict is one of the gates.
CommandReviewGate(request, review, checks, registry, order, facts) ==
  LET green == ValidateRequiredChecks(registry, order.tests, checks, facts.head).accepted
  IN ValidateReviewGate(request, review,
       [head |-> facts.head, tree |-> facts.tree, exitCode |-> facts.exitCode,
        baseDrift |-> facts.baseDrift, expectedDefault |-> facts.expectedDefault,
        checksGreen |-> green])

CommandLoop(review, phase, iteration, maxIterations, samePatch, budgetExceeded) ==
  LoopTransition(Findings(review), phase, iteration, maxIterations, samePatch, budgetExceeded)

\* Without --path the record is validated at its own path.
CommandReviewRecord(record) ==
  IF ~IsSha(record.commit) THEN Raised("reviewed_commit_sha is invalid")
  ELSE ValidateReviewRecord(ReviewRecordPath(record), record, "unchecked")

CommandDispositionRecord(record, review, existing, today, organizers) ==
  ValidateDispositionRecord(record, review, existing, today, organizers)

CommandPublicOutput(text, canaries) ==
  IF canaries = {} THEN Raised("no runtime canary")
  ELSE IF PublicOutputIsClean(text, canaries)
       THEN Decision("qf:public-output-clean", TRUE, {})
       ELSE Decision("qf:stopped", FALSE, {"public-output-canary"})

CommandAppointment(record, pr, review, facts) ==
  LET applicability == AppointmentApplicability(pr.files, facts.apiSuccess, TRUE)
  IN IF applicability.accepted /\ applicability.state = "applicable"
     THEN ValidateAppointment(record, pr, review, facts)
     ELSE applicability
=============================================================================
