-------------------------- MODULE ControllerDecisions --------------------------
(***************************************************************************)
(* The decisions of the AI controller, scripts/ai_controller/core.py, as   *)
(* operators: each takes documents and facts and returns a Decision.       *)
(*                                                                         *)
(* A document is a record of the fields that its decision reads.  Commit   *)
(* identifiers are naturals, and 0 is a malformed one; the hash of a       *)
(* document is the document itself.  Whether a document satisfies its JSON *)
(* Schema is a field, schemaValid: an input of the decision.            *)
(***************************************************************************)
EXTENDS Integers, Sequences, FiniteSets, SequencesExt

Decision(state, accepted, reasons) ==
  [state |-> state, accepted |-> accepted, reasons |-> reasons]

IsSha(sha) == sha > 0

(***************************************************************************)
(* The control plane: what the registries of the repository must agree     *)
(* with in the code.                                                       *)
(***************************************************************************)
PreconditionIds == 1 .. 18
GateIds == 1 .. 20
StopIds == 1 .. 31

StopImplementations ==
  [i \in StopIds |->
     CASE i \in {1, 18, 20} -> "loop_transition"
       [] i = 2 -> "route_origin"
       [] i \in {3, 4, 17, 22, 25, 26} -> "validate_work_order"
       [] i = 5 -> "validate_scope"
       [] i \in {6, 9, 21} -> "validate_required_checks"
       [] i = 7 -> "validate_control_plane"
       [] i \in {8, 10, 11, 12, 13, 15, 19} -> "validate_review_gate"
       [] i \in {14, 30} -> "validate_review_record"
       [] i \in {16, 31} -> "validate_disposition_record"
       [] i \in {23, 24} -> "validate_threat_baseline"
       [] i \in {27, 28} -> "validate_appointment"
       [] i = 29 -> "appointment_applicability"]

\* A path is the sequence of its pieces; "/" separates segments and is a
\* piece of its own, and a prefix may end within a segment.
DenyPrefixes == {
  <<".github", "/", "ai", "/">>, <<".github", "/", "workflows", "/">>,
  <<"docs", "/", "governance", "/">>, <<"scripts", "/", "ai_controller", "/">>,
  <<"docs", "/", "evidence", "/", "automation", "/", "reviews", "/">>,
  <<"docs", "/", "evidence", "/", "automation", "/", "dispositions", "/">>,
  <<"tests", "/", "automation", "/">>}
DenyFiles == {
  <<"AGENTS.md">>, <<"CLAUDE.md">>, <<"REVIEW.md">>,
  <<"scripts", "/", "qf-ai-controller.py">>,
  <<"scripts", "/", "test-github-autodrive-controller.sh">>}

\* validate_registry: a registry is the sequence of its entries.
RegistryIsValid(entries, implemented) ==
  LET ids == {entries[i].id : i \in DOMAIN entries}
  IN /\ \A i \in DOMAIN entries : entries[i].required /\ entries[i].complete
     /\ Cardinality(ids) = Len(entries)
     /\ ids = implemented

\* validate_registry of the registries that have no set of identifiers in
\* the code.
RegistryIsConsistent(entries) ==
  RegistryIsValid(entries, {entries[i].id : i \in DOMAIN entries})

\* check_registry_execution: executed is a function on the identifiers that
\* ran, with their evidence and result.
RegistryIsExecuted(expected, implemented, executed) ==
  /\ expected = implemented
  /\ expected = DOMAIN executed
  /\ \A i \in expected : executed[i] \in {"GREEN", "RED"}

\* validate_control_plane.
ControlPlaneIsSound(plane) ==
  /\ RegistryIsValid(plane.gates, GateIds)
  /\ RegistryIsValid(plane.preconditions, PreconditionIds)
  /\ RegistryIsValid(plane.stops, StopIds)
  /\ \A other \in {plane.requiredChecks, plane.findingIds, plane.organizers, plane.denylist} :
       RegistryIsConsistent(other)
  /\ plane.denyPrefixes = DenyPrefixes
  /\ plane.denyFiles = DenyFiles
  /\ plane.stopImplementations = StopImplementations
  /\ plane.schemasApproved

\* stop_conditions of Decision.as_dict: the STOP identifiers among the reasons.
StopReasons == [i \in StopIds |-> "STOP-" \o ToString(i)]
StopConditions(decision) == {i \in StopIds : StopReasons[i] \in decision.reasons}

(***************************************************************************)
(* Scope of a manufactured patch.                                          *)
(***************************************************************************)
IsUnder(path, prefix) == IsPrefix(prefix, path)

HasBadSegment(path) ==
  \/ path = <<>> \/ Head(path) = "/" \/ Last(path) = "/"
  \/ \E i \in DOMAIN path : path[i] \in {".", ".."}
  \/ \E i \in 2 .. Len(path) : path[i - 1] = "/" /\ path[i] = "/"

\* For comparison: only the listed files are denied.
PathIsDeniedFile(path) == HasBadSegment(path) \/ path \in DenyFiles

\* path_is_denied: one leading "./" is dropped.
PathIsDenied(path) ==
  LET normalized == IF IsPrefix(<<".", "/">>, path) THEN SubSeq(path, 3, Len(path)) ELSE path
  IN \/ HasBadSegment(normalized)
     \/ normalized \in DenyFiles
     \/ \E prefix \in DenyPrefixes : IsUnder(normalized, prefix)

ScopeReasons(paths, allowed, prohibited) ==
  {reason \in {"control-plane-denied", "work-order-prohibited", "scope-exceeded"} :
     \E path \in paths :
       CASE reason = "control-plane-denied" -> PathIsDenied(path)
         [] reason = "work-order-prohibited" -> \E item \in prohibited : IsUnder(path, item)
         [] reason = "scope-exceeded" ->
              allowed # {} /\ ~\E item \in allowed : IsUnder(path, item)}

ValidateScope(paths, allowed, prohibited) ==
  LET reasons == ScopeReasons(paths, allowed, prohibited)
  IN Decision(IF reasons = {} THEN "qf:manufacturing" ELSE "qf:stopped", reasons = {}, reasons)

(***************************************************************************)
(* Work orders.                                                            *)
(***************************************************************************)
\* The hash of the part that the organizer approves.
SpecOf(order) ==
  [objective |-> order.objective, risk |-> order.risk, scope |-> order.scope,
   prohibited |-> order.prohibited, tests |-> order.tests]

\* execution identity: id, version and the hash of spec.
ExecutionOf(order) == <<order.id, order.version, SpecOf(order)>>

SecondHumanApproved(order, defaultSha) ==
  \/ order.risk = "normal" /\ order.secondDecision = "NOT_REQUIRED"
  \/ /\ order.risk \in {"sensitive", "governance"}
     /\ order.secondReviewer \notin {"", order.organizer}
     /\ order.secondDecision = "APPROVED"
     /\ order.secondSha = defaultSha

BudgetIsSet(budget) == budget.iterations \in 0 .. 3 /\ budget.limits > 0

\* For comparison: any well-formed commit of the workflow will do.
WorkflowIsKnown(facts) == IsSha(facts.workflowSha)

WorkflowIsCurrent(facts) == IsSha(facts.workflowSha) /\ facts.workflowSha = facts.defaultSha

\* validate_work_order, WO-PRE-1 to WO-PRE-18 in their order.  facts are the
\* arguments of the command: the actor,
\* the default branch and workflow commits, the ancestry of the base, the
\* clock, what the deduplication found, the visibility and the registries.
Precondition(order, facts) ==
  <<IsSha(facts.defaultSha),
    facts.actor \in facts.organizers,
    order.organizer \in facts.organizers,
    order.decision = "APPROVED",
    order.schemaValid,
    order.state = "READY",
    order.executionId = ExecutionOf(order),
    facts.dedup \in {"first", "processed"},
    order.hash = SpecOf(order),
    order.expires > facts.now,
    IsSha(order.base) /\ facts.baseIsAncestor,
    order.tests = facts.requiredChecks,
    SecondHumanApproved(order, facts.defaultSha),
    BudgetIsSet(order.budget),
    facts.visibility = "public",
    order.scope # {} /\ order.prohibited # {},
    order.risk \in {"normal", "sensitive", "governance"},
    WorkflowIsCurrent(facts)>>

PreconditionReasons == [i \in PreconditionIds |-> "WO-PRE-" \o ToString(i)]

ValidateWorkOrder(order, facts) ==
  LET passed == Precondition(order, facts)
      executed == [i \in PreconditionIds |-> IF passed[i] THEN "GREEN" ELSE "RED"]
      reasons ==
        {PreconditionReasons[i] : i \in {j \in PreconditionIds : ~passed[j]}}
          \cup (IF RegistryIsExecuted(facts.preconditions, PreconditionIds, executed)
                THEN {} ELSE {"STOP-7"})
  IN IF facts.dedup = "processed" /\ reasons = {}
     THEN Decision("qf:no-op", TRUE, {"already-processed"})
     ELSE Decision(IF reasons = {} THEN "qf:manufacturing" ELSE "qf:stopped",
                   reasons = {}, reasons)

(***************************************************************************)
(* Routing, checks and patches.                                            *)
(***************************************************************************)
RouteOrigin(repository, headRepository) ==
  IF headRepository # repository
  THEN Decision("qf:no-op", TRUE, {"external-or-indeterminate-origin"})
  ELSE Decision("qf:route", TRUE, {})

\* validate_required_checks: actual is a function from the names of checks
\* to their conclusion and head.
ValidateRequiredChecks(registry, ofOrder, actual, sha) ==
  LET reasons ==
        (IF registry = ofOrder /\ ofOrder = DOMAIN actual THEN {} ELSE {"AUTO-T09a"})
          \cup {"AUTO-T09b" : name \in {n \in DOMAIN actual :
                  actual[n].conclusion # "success" \/ actual[n].head # sha}}
  IN Decision(IF reasons = {} THEN "qf:ci-green" ELSE "qf:ci-red", reasons = {}, reasons)

ValidatePatchIdentity(manufactured, verified, published) ==
  IF manufactured = verified /\ verified = published
  THEN Decision("qf:patch-verified", TRUE, {})
  ELSE Decision("qf:stopped", FALSE, {"patch-hash-mismatch"})

\* For comparison: the report may name more than the patch has.
ReportCoversPatch(result, paths) == paths \subseteq result.scopeChanged

ReportMatchesPatch(result, paths) == result.scopeChanged = paths

\* validate_manufacturing_result: the manufacturer's report about a patch is
\* compared with the patch, and the patch with the work order.
ValidateManufacturingResult(result, order, patch, base, paths) ==
  LET reasons ==
        {reason \in {"json-schema", "work-order", "work-order-hash", "base", "patch",
                     "scope", "tests", "iteration"} :
           CASE reason = "json-schema" -> ~result.schemaValid
             [] reason = "work-order" -> result.id # order.id
             [] reason = "work-order-hash" -> result.hash # SpecOf(order)
             [] reason = "base" -> result.base # base \/ ~IsSha(base)
             [] reason = "patch" -> result.patch # patch
             [] reason = "scope" -> ~ReportMatchesPatch(result, paths)
             [] reason = "tests" -> result.tests # order.tests
             [] reason = "iteration" -> result.iteration \notin 1 .. 4}
          \cup ScopeReasons(paths, order.scope, order.prohibited)
  IN Decision(IF reasons = {} THEN "qf:manufactured" ELSE "qf:stopped", reasons = {}, reasons)

(***************************************************************************)
(* The review loop.                                                        *)
(***************************************************************************)
PhaseLimit(phase) == CASE phase = "A" -> 0 [] phase = "B" -> 1 [] phase = "C" -> 3

\* Mutant: the iteration after the last is permitted.
AtPhaseLimitLate(phase, iteration, maxIterations) ==
  phase = "A" \/ iteration > PhaseLimit(phase) \/ iteration > maxIterations

\* Phase A permits no automatic correction.
AtPhaseLimit(phase, iteration, maxIterations) ==
  phase = "A" \/ iteration >= PhaseLimit(phase) \/ iteration >= maxIterations

Blocks(finding) == finding.severity \in {"P0", "P1"} /\ finding.status # "VERIFIED"

\* loop_transition: the next iteration is that of a manufacturing decision.
LoopTransition(findings, phase, iteration, maxIterations, samePatch, budgetExceeded) ==
  LET reasons ==
        {reason \in {"STOP-20", "STOP-18", "STOP-1"} :
           CASE reason = "STOP-20" -> budgetExceeded \/ iteration > maxIterations
             [] reason = "STOP-18" -> samePatch
             [] reason = "STOP-1" -> \E f \in findings : Blocks(f)}
  IN CASE reasons # {} -> Decision("qf:stopped", FALSE, reasons)
       [] reasons = {} /\ findings = {} -> Decision("qf:organizer-acceptance", TRUE, {})
       [] reasons = {} /\ findings # {} /\ AtPhaseLimit(phase, iteration, maxIterations) ->
            Decision("qf:changes-requested", TRUE, {"human-return"})
       [] OTHER -> Decision("qf:manufacturing", TRUE, {"bounded-retry"})

(***************************************************************************)
(* Durable records.                                                        *)
(***************************************************************************)
ReviewRecordPath(review) == <<"reviews", review.commit, review>>

ValidateReviewRecord(path, review, existsOnDefault) ==
  LET reasons ==
        (IF path = ReviewRecordPath(review) THEN {} ELSE {"review-record-path-or-hash"})
          \cup (IF existsOnDefault = "no" THEN {"review-record-not-durable"} ELSE {})
  IN Decision(IF reasons = {} THEN "qf:review-record-valid" ELSE "qf:stopped",
              reasons = {}, reasons)

Dispositions ==
  {"ACCEPTED_PLAN", "REJECTED_WITH_REASON", "DEFERRED", "POLICY_DECISION_REQUIRED", "CLOSED"}

\* validate_disposition_record: one decision about a finding.  due and
\* complete stand for the fields that its disposition needs.
DecisionReasons(decision, reviewIds, today) ==
  {reason \in {"unknown-finding", "deferral-incomplete", "rejection-reason-missing",
               "policy-decision-incomplete", "disposition-enum"} :
     CASE reason = "unknown-finding" -> decision.finding \notin reviewIds
       [] reason = "deferral-incomplete" ->
            decision.disposition = "DEFERRED" /\ (~decision.complete \/ decision.due < today)
       [] reason = "rejection-reason-missing" ->
            decision.disposition = "REJECTED_WITH_REASON" /\ ~decision.complete
       [] reason = "policy-decision-incomplete" ->
            decision.disposition = "POLICY_DECISION_REQUIRED" /\ ~decision.complete
       [] reason = "disposition-enum" -> decision.disposition \notin Dispositions}

\* Mutant: the reference is not looked up.
SupersedesAny(record, existing) == TRUE

SupersedesExisting(record, existing) ==
  record.supersedes = <<>> \/ \E h \in existing : record.supersedes = <<h>>

\* review is the record that the caller read, existing the hashes of the
\* records that are there.
ValidateDispositionRecord(record, review, existing, today, organizers) ==
  LET reviewIds == {f.id : f \in ToSet(review.findings)}
      reasons ==
        (IF record.schemaValid THEN {} ELSE {"disposition-record-json-schema"})
          \cup (IF record.decidedBy \in organizers THEN {} ELSE {"disposition-actor"})
          \cup (IF record.review = review THEN {} ELSE {"review-artifact-reference"})
          \cup (UNION {DecisionReasons(d, reviewIds, today) : d \in record.decisions})
          \cup (IF SupersedesExisting(record, existing) THEN {} ELSE {"supersedes-invalid"})
  IN Decision(IF reasons = {} THEN "qf:disposition-valid" ELSE "qf:stopped",
              reasons = {}, reasons)

(***************************************************************************)
(* Appointment of the independent reviewer, and the threat baseline.       *)
(***************************************************************************)
AppointmentApplicability(files, apiSuccess, paginationComplete) ==
  IF ~apiSuccess \/ ~paginationComplete \/ files = {}
  THEN Decision("qf:stopped", FALSE, {"applicability-indeterminate"})
  ELSE Decision(IF "appointment" \in files THEN "applicable" ELSE "not_applicable", TRUE, {})

ChangesOnlyTheRecord(pr) == pr.files = {"appointment"}

\* review is the newest review of the nominee, with commit 0 for none.
ValidateAppointment(record, pr, review, facts) ==
  LET reasons ==
        {reason \in {"independence", "appointment-author", "nominee-organizer",
                     "nominee-write", "mixed-change", "review-state", "stale-approval"} :
           CASE reason = "independence" ->
                  record.organizer \notin facts.organizers \/ record.nominee = record.organizer
             [] reason = "appointment-author" -> pr.author # record.organizer
             [] reason = "nominee-organizer" -> record.nominee \in facts.organizers
             [] reason = "nominee-write" -> record.nominee \in facts.writers
             [] reason = "mixed-change" -> ~ChangesOnlyTheRecord(pr)
             [] reason = "review-state" ->
                  review.user # record.nominee \/ review.state # "APPROVED"
             [] reason = "stale-approval" -> review.commit # pr.head}
  IN Decision(IF reasons = {} THEN "qf:role-appointment-green" ELSE "qf:stopped",
              reasons = {}, reasons)

PublicOutputIsClean(text, canaries) == text \cap canaries = {}

PhaseIsExpected(baseline, expectedPhase) == baseline.phase = expectedPhase

ValidateThreatBaseline(baseline, expectedPhase) ==
  LET Applies(reason) ==
        CASE reason = "STOP-24" -> baseline.visibility # "public"
          [] reason = "app-bypass" -> baseline.appBypass
          [] reason = "app-privilege" -> baseline.appPrivileged
          [] reason = "STOP-23" ->
               \/ ~PhaseIsExpected(baseline, expectedPhase)
               \/ baseline.phase = "A" /\ baseline.unmeasured
          [] reason = "unexpected-bootstrap-role" ->
               baseline.phase = "BOOTSTRAP_DISABLED" /\ baseline.appointment # "VACANT"
          [] reason = "phase-enabled-before-appointment" ->
               baseline.phase = "A" /\ baseline.appointment # "APPOINTED"
          [] reason = "app-not-measured-or-installed" ->
               baseline.phase = "A" /\ ~baseline.appInstalled
          [] reason = "default-workflows-unmeasured" ->
               baseline.phase = "A" /\ ~baseline.defaultWorkflows
          [] reason = "unsupported-phase" -> baseline.phase \notin {"BOOTSTRAP_DISABLED", "A"}
      reasons ==
        {reason \in {"STOP-24", "app-bypass", "app-privilege", "STOP-23",
                     "unexpected-bootstrap-role", "phase-enabled-before-appointment",
                     "app-not-measured-or-installed", "default-workflows-unmeasured",
                     "unsupported-phase"} : Applies(reason)}
  IN Decision(CASE reasons # {} -> "qf:stopped"
                [] baseline.phase = "BOOTSTRAP_DISABLED" /\ reasons = {} -> "qf:bootstrap-safe"
                [] OTHER -> "qf:phase-a-baseline",
              reasons = {}, reasons)
=============================================================================
