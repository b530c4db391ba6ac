------------------------------- MODULE ReviewGate -------------------------------
(***************************************************************************)
(* validate_review_gate of scripts/ai_controller/core.py: the twenty       *)
(* checks that decide whether the output of the reviewer is accepted.      *)
(*                                                                         *)
(* A review request and a review are records; wellFormed is the part of    *)
(* their JSON Schema that concerns no field modelled here.  The findings   *)
(* of a review and the fix candidates of a request are sequences, because  *)
(* duplicates matter; NoReview is what the gate is given when the reviewer *)
(* left no output.  facts are the arguments of the command.                *)
(***************************************************************************)
EXTENDS ControllerDecisions

NoReview ==
  [present |-> FALSE, wellFormed |-> FALSE, commit |-> 0, tree |-> 0, default |-> 0,
   order |-> "", mode |-> "", request |-> <<>>, decision |-> "", blocking |-> FALSE,
   findings |-> <<>>]

Findings(review) == ToSet(review.findings)
FindingIds(review) == {f.id : f \in Findings(review)}
VerifiedIds(review) == {f.id : f \in {g \in Findings(review) : g.status = "VERIFIED"}}

\* technical-review.schema.json and review-request.schema.json.
ReviewMatchesSchema(review) ==
  /\ review.present /\ review.wellFormed
  /\ review.mode \in {"INITIAL", "REVERIFY"}
  /\ review.decision \in {"PASS", "PASS_WITH_FINDINGS", "FAIL"}
  /\ IsSha(review.commit) /\ IsSha(review.tree) /\ IsSha(review.default)
  /\ \A f \in Findings(review) :
       /\ f.severity \in {"P0", "P1", "P2", "P3"}
       /\ f.status \in {"OPEN", "VERIFIED"}
       /\ f.disposition = "UNDECIDED"

RequestMatchesSchema(request) ==
  /\ request.wellFormed
  /\ request.mode \in {"INITIAL", "REVERIFY"}
  /\ IsSha(request.head) /\ IsSha(request.tree)

DecisionIsConsistent(review) ==
  \/ review.decision = "PASS" /\ review.findings = <<>> /\ ~review.blocking
  \/ review.decision = "PASS_WITH_FINDINGS" /\ review.findings # <<>> /\ ~review.blocking
  \/ review.decision = "FAIL" /\ review.blocking

\* An empty prior is the null of the request.
ShapeMatchesMode(request) ==
  \/ /\ request.mode = "INITIAL"
     /\ request.prior = <<>> /\ request.eligible = {} /\ request.candidates = <<>>
  \/ /\ request.mode = "REVERIFY"
     /\ request.prior # <<>> /\ request.eligible # {} /\ request.candidates # <<>>

\* candidate_by_id: the last candidate of a finding is the one compared with
\* the head.
CandidateIds(request) == {c.finding : c \in ToSet(request.candidates)}
CandidateOf(request, id) ==
  request.candidates[SelectLastInSeq(request.candidates, LAMBDA c : c.finding = id)]

\* Only a second review can say that a finding is fixed.
StatusFitsMode(finding, mode) ==
  finding.status \in (IF mode = "INITIAL" THEN {"OPEN"} ELSE {"OPEN", "VERIFIED"})

\* Mutant: a fix candidate of any finding and any head will do.
VerifiedIsEligible(request, review, head) ==
  /\ VerifiedIds(review) \subseteq request.eligible
  /\ CandidateIds(request) # {} \/ VerifiedIds(review) = {}

VerifiedIsBacked(request, review, head) ==
  /\ VerifiedIds(review) \subseteq request.eligible
  /\ VerifiedIds(review) \subseteq CandidateIds(request)
  /\ \A id \in CandidateIds(request) : CandidateOf(request, id).sha = head

\* Mutant: forgets the P1 findings.
BlockingP0IsDeclared(review) ==
  (\E f \in Findings(review) : f.severity = "P0" /\ Blocks(f)) => review.blocking

BlockingIsDeclared(review) == (\E f \in Findings(review) : Blocks(f)) => review.blocking

GateCheck(request, review, facts) ==
  [i \in GateIds |->
     CASE i = 1 -> facts.exitCode = 0
       [] i = 2 -> review.present
       [] i = 3 -> review.commit = facts.head
       [] i = 4 -> request.tree = review.tree /\ review.tree = facts.tree
       [] i = 5 -> facts.checksGreen
       [] i = 6 -> review.present /\ review.wellFormed
       [] i = 7 -> RequestMatchesSchema(request)
       [] i = 8 -> ReviewMatchesSchema(review) /\ review.order = request.order
       [] i = 9 -> DecisionIsConsistent(review)
       [] i = 10 -> review.mode = request.mode /\ ShapeMatchesMode(request)
       [] i = 11 -> review.request = <<request>>
       [] i = 12 -> Cardinality(FindingIds(review)) = Len(review.findings)
       [] i = 13 -> \A f \in Findings(review) : StatusFitsMode(f, request.mode)
       [] i = 14 -> VerifiedIsBacked(request, review, facts.head)
       [] i = 15 -> \A f \in Findings(review) : f.status # "CLOSED"
       [] i = 16 -> \A f \in Findings(review) : f.disposition = "UNDECIDED"
       [] i = 17 -> BlockingIsDeclared(review)
       [] i = 18 -> request.head = facts.head /\ facts.head = review.commit
       [] i = 19 -> /\ ~facts.baseDrift
                    /\ facts.expectedDefault \in {0, review.default}
       [] i = 20 -> TRUE]

GateReasons == [i \in GateIds |-> "REV-GATE-" \o ToString(i)]

ValidateReviewGate(request, review, facts) ==
  LET passed == GateCheck(request, review, facts)
      reasons == {GateReasons[i] : i \in {j \in GateIds : ~passed[j]}}
  IN Decision(CASE reasons # {} -> "qf:stopped"
                [] reasons = {} /\ review.findings # <<>> -> "qf:changes-requested"
                [] reasons = {} /\ review.findings = <<>> -> "qf:review-green",
              reasons = {}, reasons)
=============================================================================
