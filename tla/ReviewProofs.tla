----------------------------- MODULE ReviewProofs -----------------------------
(***************************************************************************)
(* The review of changes: proofs about the workflow chains                 *)
(* (ReviewPipeline) and about the findings of one work order               *)
(* (FindingLifecycle), for every number of chains, heads and corrections.  *)
(* The two have no state in common.                                        *)
(*                                                                         *)
(* The chains rest on what a run carries from job to job (RunHolds): a job *)
(* reads no label and no branch again, so that what the gate accepted, and *)
(* for which head, has to be known of the run itself.  The findings rest   *)
(* on the fix candidates of a request being some of all of them, whichever *)
(* order the request lists them in (CandidatesAreKept).                    *)
(***************************************************************************)
EXTENDS ReviewPipeline, FindingLifecycle, FiniteSetTheorems, WellFoundedInduction, TLAPS

Verdicts == {"qf:organizer-acceptance", "qf:changes-requested", "qf:stopped"}
Verdict == Verdicts \cup {"qf:organizer-hold"}

FindingLists == {<<>>, <<Finding("P1")>>, <<Finding("P2")>>}
Reviews ==
  [present : BOOLEAN, wellFormed : BOOLEAN, commit : Nat, tree : Nat, default : Nat,
   order : {"", "WO"}, mode : {"", "INITIAL"},
   request : {<<>>} \cup {<<InitialRequest(h)>> : h \in Nat},
   decision : {"", "PASS", "PASS_WITH_FINDINGS", "FAIL"}, blocking : BOOLEAN,
   findings : FindingLists]

\* The runs of a chain, by what they carry.
Bare == [stage : {"route", "request", "review", "hold"}, head : Nat]
AtGate == [stage : {"gate"}, head : Nat, review : Reviews]
AtLoop == [stage : {"loop"}, head : Nat, review : Reviews, accepted : BOOLEAN, publish : BOOLEAN]
AtLabel == [stage : {"label", "labelled"}, head : Nat, label : Verdict, review : Reviews,
            publish : BOOLEAN]
ChainRuns == {Idle} \cup Bare \cup AtGate \cup AtLoop \cup AtLabel

Typed ==
  /\ tip \in Nat /\ reruns \in Nat
  /\ head \in 1 .. MaxHead
  /\ green \in [1 .. MaxHead -> SUBSET Checks]
  /\ chains \in [Chains -> ChainRuns]
  /\ evidence \subseteq [review : Reviews, pr : BOOLEAN]

\* What the gate has accepted.
Gated(review) ==
  /\ review.request = <<InitialRequest(review.commit)>>
  /\ BlockingIsDeclared(review)

\* What a run was started with, and what it holds.
RunHolds(run) ==
  /\ run.stage # "idle" => run.head <= head
  /\ run.stage \notin {"idle", "route"} => Label("qf:ci-green", run.head) \in labels
  /\ run.stage = "loop" /\ run.accepted => run.review.commit = run.head
  /\ run.stage = "loop" /\ run.publish => run.accepted
  /\ run.stage = "label" /\ run.label = "qf:organizer-acceptance" =>
       run.review.commit = run.head /\ run.review.findings = <<>>
  /\ run.stage \in {"loop", "label", "labelled"} /\ run.publish => Gated(run.review)

ChainsHold == \A n \in Chains : RunHolds(chains[n])

PipelineHolds == Typed /\ ChainsHold /\ RecordsAreGated
-----------------------------------------------------------------------------
LEMMA SuccessIsAccepted ==
  ASSUME NEW decision, Succeeds(decision)
  PROVE  decision.accepted
BY DEF Succeeds, ExitCode

\* A decision of the gate that succeeds has passed each of its checks.
LEMMA GateAccepts ==
  ASSUME NEW request, NEW review, NEW checks, NEW registry, NEW order, NEW facts,
         Succeeds(CommandReviewGate(request, review, checks, registry, order, facts))
  PROVE  /\ review.commit = facts.head /\ review.request = <<request>>
         /\ BlockingIsDeclared(review)
<1> DEFINE gate == [head |-> facts.head, tree |-> facts.tree, exitCode |-> facts.exitCode,
                    baseDrift |-> facts.baseDrift, expectedDefault |-> facts.expectedDefault,
                    checksGreen |-> ValidateRequiredChecks(registry, order.tests, checks,
                                                           facts.head).accepted]
           passed == GateCheck(request, review, gate)
<1>1. \A i \in GateIds : passed[i]
  <2>1. ValidateReviewGate(request, review, gate).accepted
    BY SuccessIsAccepted DEF CommandReviewGate
  <2> HIDE DEF gate
  <2>2. {GateReasons[i] : i \in {j \in GateIds : ~GateCheck(request, review, gate)[j]}} = {}
    BY <2>1 DEF ValidateReviewGate, Decision
  <2> QED
    BY <2>2
<1>2. 3 \in GateIds /\ 11 \in GateIds /\ 17 \in GateIds
  BY DEF GateIds
<1>3. passed[3] = (review.commit = gate.head)
  BY <1>2 DEF GateCheck
<1>4. passed[11] = (review.request = <<request>>)
  BY <1>2 DEF GateCheck
<1>5. passed[17] = BlockingIsDeclared(review)
  BY <1>2 DEF GateCheck
<1> QED
  BY <1>1, <1>2, <1>3, <1>4, <1>5

\* What the reviewer may answer is a review.
LEMMA AnswersAreReviews ==
  ASSUME Typed, NEW kind \in Kinds, NEW h \in Nat
  PROVE  Answer(kind, h) \in Reviews
<1>1. /\ kind \in {"clean", "findings", "blocking", "inconsistent", "other-commit"}
      /\ tip \in Nat /\ h + 1 \in Nat
  BY ReviewAssumption DEF Typed
<1> QED
  BY <1>1 DEF Answer, Reviews, FindingLists

LEMMA NoReviewIsReview == NoReview \in Reviews
BY DEF NoReview, Reviews, FindingLists

\* In Phase A the loop makes a verdict, and acceptance has no findings.
LEMMA LoopHasVerdict ==
  ASSUME NEW run \in AtLoop
  PROVE  /\ LoopLabel(run) \in Verdicts
         /\ LoopLabel(run) = "qf:organizer-acceptance" =>
              run.accepted /\ run.review.findings = <<>>
<1> DEFINE findings == Findings(run.review)
<1>1. CommandLoop(run.review, "A", 0, 0, FALSE, FALSE).state \in Verdicts
  BY DEF CommandLoop, LoopTransition, AtPhaseLimit, Decision, Verdicts
<1>2. CommandLoop(run.review, "A", 0, 0, FALSE, FALSE).state = "qf:organizer-acceptance" =>
        findings = {}
  BY DEF CommandLoop, LoopTransition, AtPhaseLimit, Decision
<1>3. findings = {} => run.review.findings = <<>>
  <2>1. run.review.findings \in FindingLists
    BY DEF AtLoop, Reviews
  <2>2. ASSUME NEW f PROVE ToSet(<<f>>) # {}
    <3>1. 1 \in DOMAIN <<f>>
      OBVIOUS
    <3> QED
      BY <3>1 DEF ToSet
  <2> QED
    BY <2>1, <2>2 DEF Findings, FindingLists
<1> QED
  BY <1>1, <1>2, <1>3 DEF LoopLabel, Verdicts
-----------------------------------------------------------------------------
LEMMA PipelineInit == Init => PipelineHolds
<1> SUFFICES ASSUME Init PROVE PipelineHolds
  OBVIOUS
<1>1. Typed
  BY ReviewAssumption DEF Init, Typed, ChainRuns
<1>2. ChainsHold
  BY DEF Init, ChainsHold, RunHolds, Idle
<1>3. RecordsAreGated
  BY DEF Init, RecordsAreGated
<1> QED
  BY <1>1, <1>2, <1>3 DEF PipelineHolds

\* A step of one chain keeps the invariant when its new run does and labels
\* are only added.
LEMMA ChainStep ==
  ASSUME PipelineHolds, NEW n \in Chains, NEW run \in ChainRuns, Goto(n, run),
         UNCHANGED <<tip, durable, head, green, reruns>>, labels \subseteq labels',
         evidence' \subseteq [review : Reviews, pr : BOOLEAN], RecordsAreGated', RunHolds(run)'
  PROVE  PipelineHolds'
<1>1. /\ chains' \in [Chains -> ChainRuns]
      /\ chains'[n] = run /\ \A other \in Chains \ {n} : chains'[other] = chains[other]
  BY DEF PipelineHolds, Typed, Goto
<1>2. Typed'
  BY <1>1 DEF PipelineHolds, Typed
<1>3. ChainsHold'
  <2>1. ASSUME NEW other \in Chains \ {n} PROVE RunHolds(chains[other])'
    BY <1>1, <2>1 DEF PipelineHolds, ChainsHold, RunHolds
  <2> QED
    BY <1>1, <2>1 DEF ChainsHold
<1> QED
  BY <1>2, <1>3 DEF PipelineHolds

\* The chain ends, or goes on where the platform starts its next run.
LEMMA EndStep ==
  ASSUME PipelineHolds, NEW n \in Chains, Goto(n, Idle),
         UNCHANGED <<tip, durable, head, green, reruns>>, labels \subseteq labels',
         evidence' \subseteq [review : Reviews, pr : BOOLEAN], RecordsAreGated'
  PROVE  PipelineHolds'
<1>1. RunHolds(Idle)' /\ Idle \in ChainRuns
  BY DEF RunHolds, Idle, ChainRuns
<1> QED
  BY <1>1, ChainStep

LEMMA NextRunStep ==
  ASSUME PipelineHolds, NEW n \in Chains, NEW run \in ChainRuns, StartNext(n, run),
         UNCHANGED <<tip, durable, head, green, reruns>>, labels \subseteq labels',
         evidence' \subseteq [review : Reviews, pr : BOOLEAN], RecordsAreGated', RunHolds(run)'
  PROVE  PipelineHolds'
<1>1. Goto(n, run) \/ Goto(n, Idle)
  BY DEF StartNext
<1>2. CASE Goto(n, run)
  BY <1>2, ChainStep
<1>3. CASE Goto(n, Idle)
  BY <1>3, EndStep
<1> QED
  BY <1>1, <1>2, <1>3

\* Which stages a run of each kind is at.
LEMMA StagesOfRuns ==
  ASSUME NEW run \in ChainRuns
  PROVE  /\ run.stage = "idle" => run = Idle
         /\ run.stage \in {"route", "request", "review", "hold"} => run \in Bare
         /\ run.stage = "gate" => run \in AtGate
         /\ run.stage = "loop" => run \in AtLoop
         /\ run.stage \in {"label", "labelled"} => run \in AtLabel
         /\ run.stage # "idle" => run # Idle /\ run.head \in Nat
BY DEF ChainRuns, Idle, Bare, AtGate, AtLoop, AtLabel

\* The pull request, main and the checks: no run moves on.
LEMMA OutsideStep ==
  ASSUME PipelineHolds,
         \/ PushHead \/ MoveMain \/ MergeRecord \/ OpenRecord
         \/ \E h \in 1 .. head, c \in Checks : RerunCheck(h, c)
  PROVE  PipelineHolds'
<1>1. UNCHANGED <<chains, labels>>
  BY DEF PushHead, MoveMain, MergeRecord, OpenRecord, RerunCheck
<1>2. /\ head' \in 1 .. MaxHead /\ head <= head'
      /\ head' # head => head' = head + 1 /\ green' = green
  BY ReviewAssumption
     DEF PushHead, MoveMain, MergeRecord, OpenRecord, RerunCheck, PipelineHolds, Typed
<1>3. /\ green' \in [1 .. MaxHead -> SUBSET Checks]
      /\ \A h \in 1 .. MaxHead : green'[h] \subseteq green[h]
  BY DEF PushHead, MoveMain, MergeRecord, OpenRecord, RerunCheck, PipelineHolds, Typed
<1>4. tip' \in Nat /\ reruns' \in Nat
  BY DEF PushHead, MoveMain, MergeRecord, OpenRecord, RerunCheck, PipelineHolds, Typed
<1>5. ASSUME OpenRecord
       PROVE  \E e \in evidence, f \in [review : Reviews, pr : BOOLEAN] :
                evidence' = (evidence \ {e}) \cup {f} /\ f.review = e.review
  <2>1. PICK e \in evidence : evidence' = (evidence \ {e}) \cup {[e EXCEPT !.pr = TRUE]}
    BY <1>5 DEF OpenRecord
  <2>2. e \in [review : Reviews, pr : BOOLEAN]
    BY DEF PipelineHolds, Typed
  <2>3. PICK f : f = [e EXCEPT !.pr = TRUE]
    OBVIOUS
  <2>4. f \in [review : Reviews, pr : BOOLEAN] /\ f.review = e.review
    BY <2>2, <2>3
  <2> QED
    BY <2>1, <2>3, <2>4
<1>6. evidence' \subseteq [review : Reviews, pr : BOOLEAN]
  <2>1. CASE UNCHANGED evidence
    BY <2>1 DEF PipelineHolds, Typed
  <2>2. CASE OpenRecord
    BY <1>5, <2>2 DEF PipelineHolds, Typed
  <2> QED
    BY <2>1, <2>2 DEF PushHead, MoveMain, MergeRecord, RerunCheck
<1>7. Typed'
  BY <1>1, <1>2, <1>3, <1>4, <1>6 DEF PipelineHolds, Typed
<1>8. \A n \in Chains : chains[n].stage # "idle" => chains[n].head \in Nat /\ chains[n].head <= head
  BY StagesOfRuns DEF PipelineHolds, Typed, ChainsHold, RunHolds
<1>9. ChainsHold'
  BY <1>1, <1>2, <1>8 DEF PipelineHolds, Typed, ChainsHold, RunHolds
<1>10. RecordsAreGated'
  <2>1. CASE UNCHANGED <<durable, evidence>>
    BY <2>1 DEF PipelineHolds, RecordsAreGated
  <2>2. CASE MergeRecord
    BY <2>2 DEF MergeRecord, PipelineHolds, RecordsAreGated
  <2>3. CASE OpenRecord
    <3>1. UNCHANGED durable
      BY <2>3 DEF OpenRecord
    <3> QED
      BY <1>5, <2>3, <3>1 DEF PipelineHolds, RecordsAreGated
  <2> QED
    BY <2>1, <2>2, <2>3 DEF PushHead, MoveMain, RerunCheck
<1> QED
  BY <1>7, <1>9, <1>10 DEF PipelineHolds

\* The end of a check starts a run about its head.
LEMMA CheckStep ==
  ASSUME PipelineHolds, NEW n \in Chains, NEW h \in 1 .. head, NEW c \in Checks,
         NEW success \in BOOLEAN, CompleteCheck(n, h, c, success)
  PROVE  PipelineHolds'
<1> DEFINE run == [stage |-> "route", head |-> h]
<1>0. h \in 1 .. MaxHead
  BY ReviewAssumption DEF PipelineHolds, Typed
<1>1. /\ chains[n] = Idle /\ chains' = [chains EXCEPT ![n] = run]
      /\ UNCHANGED <<tip, durable, head, reruns, labels, evidence>>
      /\ green' \in [1 .. MaxHead -> SUBSET Checks]
      /\ \A other \in 1 .. MaxHead : other # h => green'[other] = green[other]
  BY <1>0 DEF CompleteCheck, PipelineHolds, Typed
<1>2. run \in ChainRuns /\ run.stage = "route" /\ run.head = h /\ run # Idle
  BY <1>0 DEF ChainRuns, Bare, Idle
<1> HIDE DEF run
<1>3. /\ chains' \in [Chains -> ChainRuns] /\ chains'[n] = run
      /\ \A other \in Chains : other # n => chains'[other] = chains[other]
  BY <1>1, <1>2 DEF PipelineHolds, Typed
<1>4. Typed'
  BY <1>0, <1>1, <1>3 DEF PipelineHolds, Typed
<1>5. ChainsHold'
  BY <1>1, <1>2, <1>3 DEF PipelineHolds, Typed, ChainsHold, RunHolds
<1>6. RecordsAreGated'
  BY <1>1 DEF PipelineHolds, RecordsAreGated
<1> QED
  BY <1>4, <1>5, <1>6 DEF PipelineHolds

\* A run that settles is over when its label and its record are done with.
LEMMA SettleStep ==
  ASSUME PipelineHolds, NEW n \in Chains, NEW run \in AtLoop \cup AtLabel, Settle(n, run),
         UNCHANGED <<tip, durable, head, green, reruns>>, labels \subseteq labels',
         evidence' \subseteq [review : Reviews, pr : BOOLEAN], RecordsAreGated', RunHolds(run)'
  PROVE  PipelineHolds'
<1>1. run \in ChainRuns /\ (Goto(n, run) \/ Goto(n, Idle))
  BY DEF ChainRuns, Settle
<1>2. CASE Goto(n, run)
  BY <1>1, <1>2, ChainStep
<1>3. CASE Goto(n, Idle)
  BY <1>3, EndStep
<1> QED
  BY <1>1, <1>2, <1>3

\* From the route to the answer of the reviewer.
LEMMA AskStep ==
  ASSUME PipelineHolds, NEW n \in Chains,
         \/ Route(n) \/ Request(n) \/ EmptyReview(n) \/ JobFails(n)
         \/ At(n, "review") /\ \E kind \in Kinds : Review(n, Answer(kind, chains[n].head))
  PROVE  PipelineHolds'
<1>1. UNCHANGED <<tip, durable, head, green, reruns, evidence>>
  BY DEF Route, Request, EmptyReview, JobFails, Review
<1>2. evidence' \subseteq [review : Reviews, pr : BOOLEAN] /\ RecordsAreGated'
  BY <1>1 DEF PipelineHolds, Typed, RecordsAreGated
<1>3. chains[n] \in ChainRuns /\ RunHolds(chains[n])
  BY DEF PipelineHolds, Typed, ChainsHold
<1>4. PICK h : h = chains[n].head
  OBVIOUS
<1>5. \A stage \in {"route", "request", "review", "hold"} :
        h \in Nat => [stage |-> stage, head |-> h] \in ChainRuns
  BY DEF ChainRuns, Bare
<1>6. CASE Route(n) /\ RouteIsValid(h)
  <2> DEFINE run == [stage |-> "request", head |-> h]
  <2>1. h \in Nat /\ h <= head /\ labels' = labels \cup {Label("qf:ci-green", h)} /\ StartNext(n, run)
    BY <1>3, <1>4, <1>6, StagesOfRuns DEF Route, At, RunHolds
  <2>2. RunHolds(run)'
    BY <1>1, <2>1 DEF RunHolds
  <2> QED
    BY <1>1, <1>2, <1>5, <2>1, <2>2, NextRunStep
<1>7. CASE Route(n) /\ ~RouteIsValid(h)
  <2>1. labels' = labels /\ Goto(n, Idle)
    BY <1>4, <1>7 DEF Route, End
  <2> QED
    BY <1>1, <1>2, <2>1, EndStep
<1>8. CASE Request(n)
  <2>1. PICK stage \in {"hold", "review"} : StartNext(n, [stage |-> stage, head |-> h])
    BY <1>4, <1>8 DEF Request
  <2> DEFINE run == [stage |-> stage, head |-> h]
  <2>2. h \in Nat /\ h <= head /\ labels' = labels /\ Label("qf:ci-green", h) \in labels
    BY <1>3, <1>4, <1>8, StagesOfRuns DEF Request, At, RunHolds
  <2>3. RunHolds(run)'
    BY <1>1, <2>2 DEF RunHolds
  <2> QED
    BY <1>1, <1>2, <1>5, <2>1, <2>2, <2>3, NextRunStep
<1>9. CASE JobFails(n)
  <2>1. labels' = labels /\ Goto(n, Idle)
    BY <1>9 DEF JobFails, End
  <2> QED
    BY <1>1, <1>2, <2>1, EndStep
<1>10. ASSUME NEW review \in Reviews, Review(n, review)
       PROVE  PipelineHolds'
  <2> DEFINE run == [stage |-> "gate", head |-> h, review |-> review]
  <2>1. /\ h \in Nat /\ h <= head /\ labels' = labels /\ Label("qf:ci-green", h) \in labels
        /\ StartNext(n, run)
    BY <1>3, <1>4, <1>10, StagesOfRuns DEF Review, At, RunHolds
  <2>2. RunHolds(run)'
    BY <1>1, <2>1 DEF RunHolds
  <2>3. run \in ChainRuns
    BY <2>1 DEF ChainRuns, AtGate
  <2> QED
    BY <1>1, <1>2, <2>1, <2>2, <2>3, NextRunStep
<1>11. CASE EmptyReview(n)
  BY <1>10, <1>11, NoReviewIsReview DEF EmptyReview
<1>12. ASSUME At(n, "review"), NEW kind \in Kinds, Review(n, Answer(kind, h))
       PROVE  PipelineHolds'
  <2>1. h \in Nat
    BY <1>3, <1>4, <1>12, StagesOfRuns DEF At
  <2>2. PICK review : review = Answer(kind, h)
    OBVIOUS
  <2>3. review \in Reviews
    BY <2>1, <2>2, AnswersAreReviews DEF PipelineHolds
  <2> QED
    BY <1>10, <1>12, <2>2, <2>3
<1> QED
  BY <1>4, <1>6, <1>7, <1>8, <1>9, <1>11, <1>12

\* From the answer of the reviewer to the label and the record.
LEMMA VerdictStep ==
  ASSUME PipelineHolds, NEW n \in Chains,
         Gate(n) \/ Loop(n) \/ Hold(n) \/ AddLabel(n) \/ PublishBranch(n)
  PROVE  PipelineHolds'
<1>1. UNCHANGED <<tip, durable, head, green, reruns>>
  BY DEF Gate, Loop, Hold, AddLabel, PublishBranch
<1>2. UNCHANGED evidence => evidence' \subseteq [review : Reviews, pr : BOOLEAN] /\ RecordsAreGated'
  BY <1>1 DEF PipelineHolds, Typed, RecordsAreGated
<1>3. PICK run : run = chains[n]
  OBVIOUS
<1>4. run \in ChainRuns /\ RunHolds(run)
  BY <1>3 DEF PipelineHolds, Typed, ChainsHold
<1>5. CASE Gate(n)
  <2>1. run \in AtGate /\ UNCHANGED <<labels, evidence>>
    BY <1>3, <1>4, <1>5, StagesOfRuns DEF Gate, At
  <2>2. /\ run.stage = "gate" /\ run.head \in Nat /\ run.head <= head /\ run.review \in Reviews
        /\ Label("qf:ci-green", run.head) \in labels
    BY <1>4, <2>1 DEF AtGate, RunHolds
  <2>3. CASE ~GateHasDecision(run)
    <3>1. Goto(n, Idle)
      BY <1>3, <1>5, <2>3 DEF Gate, End
    <3> QED
      BY <1>1, <1>2, <2>1, <3>1, EndStep
  <2>4. CASE GateHasDecision(run)
    <3>1. PICK accepted : accepted = Succeeds(GateDecision(run))
      OBVIOUS
    <3>2. accepted \in BOOLEAN
      BY <3>1 DEF Succeeds
    <3> DEFINE next == [stage |-> "loop", head |-> run.head, review |-> run.review,
                        accepted |-> accepted, publish |-> accepted]
    <3>3. StartNext(n, next)
      BY <1>3, <1>5, <2>4, <3>1 DEF Gate
    <3>4. /\ next \in ChainRuns /\ next.stage = "loop" /\ next.head = run.head
          /\ next.review = run.review /\ next.accepted = accepted /\ next.publish = accepted
      BY <2>2, <3>2 DEF ChainRuns, AtLoop
    <3>5. accepted => run.review.commit = run.head /\ Gated(run.review)
      <4> SUFFICES ASSUME accepted PROVE run.review.commit = run.head /\ Gated(run.review)
        OBVIOUS
      <4>1. head = run.head
        BY <2>4 DEF GateHasDecision
      <4> DEFINE selected == [c \in Checks |-> [conclusion |-> IF c \in green[run.head]
                                                             THEN "success" ELSE "",
                                               head |-> run.head]]
                 facts == [head |-> head, tree |-> head, exitCode |-> 0,
                           baseDrift |-> run.review.default # tip, expectedDefault |-> tip]
      <4>2. Succeeds(CommandReviewGate(InitialRequest(run.head), run.review, selected, Checks,
                                       [tests |-> Checks], facts))
        BY <3>1 DEF GateDecision
      <4>3. facts.head = head
        OBVIOUS
      <4> HIDE DEF selected, facts
      <4>4. /\ run.review.commit = head /\ run.review.request = <<InitialRequest(run.head)>>
            /\ BlockingIsDeclared(run.review)
        BY <4>2, <4>3, GateAccepts
      <4> QED
        BY <4>1, <4>4 DEF Gated
    <3> HIDE DEF next
    <3>6. RunHolds(next)'
      BY <1>1, <2>1, <2>2, <3>4, <3>5 DEF RunHolds
    <3> QED
      BY <1>1, <1>2, <2>1, <3>3, <3>4, <3>6, NextRunStep
  <2> QED
    BY <2>3, <2>4
<1>6. CASE Loop(n)
  <2>1. run \in AtLoop /\ UNCHANGED <<labels, evidence>>
    BY <1>3, <1>4, <1>6, StagesOfRuns DEF Loop, At
  <2>2. /\ run.stage = "loop" /\ run.head \in Nat /\ run.head <= head /\ run.review \in Reviews
        /\ run.publish \in BOOLEAN /\ Label("qf:ci-green", run.head) \in labels
        /\ run.accepted => run.review.commit = run.head
        /\ run.publish => Gated(run.review)
    BY <1>4, <2>1 DEF AtLoop, RunHolds
  <2>3. PICK label : label = LoopLabel(run)
    OBVIOUS
  <2>4. /\ label \in Verdict
        /\ label = "qf:organizer-acceptance" => run.accepted /\ run.review.findings = <<>>
    BY <2>1, <2>3, LoopHasVerdict DEF Verdict
  <2>5. PICK next : next = ToLabel(run, label, run.review, run.publish)
    OBVIOUS
  <2>6. Settle(n, next)
    BY <1>3, <1>6, <2>3, <2>5 DEF Loop
  <2>7. /\ next \in AtLabel /\ next.head = run.head /\ next.label = label
        /\ next.review = run.review /\ next.publish = run.publish
        /\ next.stage \in {"label", "labelled"}
    BY <2>2, <2>4, <2>5 DEF ToLabel, AtLabel
  <2>8. RunHolds(next)'
    BY <1>1, <2>1, <2>2, <2>4, <2>7 DEF RunHolds
  <2> QED
    BY <1>1, <1>2, <1>3, <2>1, <2>6, <2>7, <2>8, SettleStep
<1>7. CASE Hold(n)
  <2>1. run \in Bare /\ run.stage = "hold" /\ UNCHANGED <<labels, evidence>>
    BY <1>3, <1>4, <1>7, StagesOfRuns DEF Hold, At
  <2>2. run.head \in Nat /\ run.head <= head /\ Label("qf:ci-green", run.head) \in labels
    BY <1>4, <2>1 DEF Bare, RunHolds
  <2>3. PICK next : next = ToLabel(run, "qf:organizer-hold", NoReview, FALSE)
    OBVIOUS
  <2>4. Settle(n, next)
    BY <1>3, <1>7, <2>3 DEF Hold
  <2>5. /\ next \in AtLabel /\ next.head = run.head /\ next.label = "qf:organizer-hold"
        /\ ~next.publish /\ next.stage \in {"label", "labelled"}
    <3>1. "qf:organizer-hold" \in Verdict
      BY DEF Verdict
    <3> QED
      BY <2>2, <2>3, <3>1, NoReviewIsReview DEF ToLabel, AtLabel
  <2>6. RunHolds(next)'
    BY <1>1, <2>1, <2>2, <2>5 DEF RunHolds
  <2> QED
    BY <1>1, <1>2, <1>3, <2>1, <2>4, <2>5, <2>6, SettleStep
<1>8. CASE AddLabel(n)
  <2>1. /\ run \in AtLabel /\ run.stage = "label" /\ UNCHANGED evidence
        /\ labels' = labels \cup {Label(run.label, run.head)}
    BY <1>3, <1>4, <1>8, StagesOfRuns DEF AddLabel, At
  <2>2. PICK next : next = [run EXCEPT !.stage = "labelled"]
    OBVIOUS
  <2>3. Settle(n, next)
    BY <1>3, <1>8, <2>2 DEF AddLabel
  <2>4. /\ next \in AtLabel /\ next.stage = "labelled" /\ next.head = run.head
        /\ next.review = run.review /\ next.publish = run.publish
    BY <2>1, <2>2 DEF AtLabel
  <2>5. RunHolds(next)'
    BY <1>1, <1>4, <2>1, <2>4 DEF RunHolds
  <2> QED
    BY <1>1, <1>2, <2>1, <2>3, <2>4, <2>5, SettleStep
<1>9. CASE PublishBranch(n)
  <2>1. /\ run \in AtLoop \cup AtLabel /\ run.stage \in {"loop", "label", "labelled"}
        /\ run.publish /\ UNCHANGED labels
    BY <1>3, <1>4, <1>9, StagesOfRuns DEF PublishBranch, MayPublish
  <2>2. run.review \in Reviews /\ Gated(run.review)
    BY <1>4, <2>1 DEF AtLoop, AtLabel, RunHolds
  <2>3. PICK next : next = [run EXCEPT !.publish = FALSE]
    OBVIOUS
  <2>4. Settle(n, next)
    BY <1>3, <1>9, <2>3 DEF PublishBranch
  <2>5. /\ next \in AtLoop \cup AtLabel /\ next.stage = run.stage /\ next.head = run.head
        /\ next.review = run.review /\ ~next.publish
        /\ run.stage = "loop" => next.accepted = run.accepted
        /\ run.stage \in {"label", "labelled"} => next.label = run.label
    BY <2>1, <2>3 DEF AtLoop, AtLabel
  <2>6. RunHolds(next)'
    <3>1. CASE run.stage = "loop"
      BY <1>1, <1>4, <2>1, <2>5, <3>1 DEF RunHolds
    <3>2. CASE run.stage \in {"label", "labelled"}
      BY <1>1, <1>4, <2>1, <2>5, <3>2 DEF RunHolds
    <3> QED
      BY <2>1, <3>1, <3>2
  <2>7. evidence' \subseteq evidence \cup {[review |-> run.review, pr |-> FALSE]}
    BY <1>3, <1>9 DEF PublishBranch
  <2>8. evidence' \subseteq [review : Reviews, pr : BOOLEAN]
    <3>1. [review |-> run.review, pr |-> FALSE] \in [review : Reviews, pr : BOOLEAN]
      BY <2>2
    <3> QED
      BY <2>7, <3>1 DEF PipelineHolds, Typed
  <2>9. RecordsAreGated'
    BY <1>1, <2>2, <2>7 DEF PipelineHolds, RecordsAreGated, Gated, BlockingIsDeclared
  <2> QED
    BY <1>1, <2>1, <2>4, <2>5, <2>6, <2>8, <2>9, SettleStep
<1> QED
  BY <1>5, <1>6, <1>7, <1>8, <1>9

(***************************************************************************)
(* The inductive invariant of the chains.                                  *)
(***************************************************************************)
THEOREM ChainsAreSound == Spec => []PipelineHolds
<1>1. PipelineHolds /\ [Next]_vars => PipelineHolds'
  <2>1. CASE UNCHANGED vars
    BY <2>1 DEF vars, PipelineHolds, Typed, ChainsHold, RunHolds, RecordsAreGated
  <2>2. ASSUME PipelineHolds, NEW n \in Chains, Step(n)
        PROVE  PipelineHolds'
    BY <2>2, AskStep, VerdictStep DEF Step
  <2> QED
    BY <2>1, <2>2, OutsideStep, CheckStep DEF Next
<1> QED
  BY <1>1, PipelineInit, PTL DEF Spec

(***************************************************************************)
(* Only the gated answer about a commit becomes a record of it.            *)
(***************************************************************************)
THEOREM OnlyGatedIsRecorded == Spec => []RecordsAreGated
<1>1. PipelineHolds => RecordsAreGated
  BY DEF PipelineHolds
<1> QED
  BY <1>1, ChainsAreSound, PTL

(***************************************************************************)
(* A label of acceptance was earned by a chain.                            *)
(***************************************************************************)
THEOREM AcceptancesAreEarned == Spec => AcceptanceIsEarned
<1> DEFINE Earned(l) ==
      l.name = "qf:organizer-acceptance" =>
        /\ Label("qf:ci-green", l.head) \in labels
        /\ \E n \in Chains :
             /\ At(n, "label") /\ chains[n].head = l.head
             /\ chains[n].review.commit = l.head
             /\ chains[n].review.findings = <<>>
           Step_ == \A l \in labels' \ labels : Earned(l)
<1>1. PipelineHolds /\ [Next]_vars => [Step_]_vars
  <2> SUFFICES ASSUME PipelineHolds, Next, NEW l \in labels' \ labels PROVE Earned(l)
    OBVIOUS
  <2>1. CASE UNCHANGED labels
    BY <2>1
  <2>2. ASSUME NEW n \in Chains, Route(n) PROVE Earned(l)
    BY <2>2 DEF Route, Label
  <2>3. ASSUME NEW n \in Chains, AddLabel(n) PROVE Earned(l)
    <3>1. l = Label(chains[n].label, chains[n].head) /\ At(n, "label")
      BY <2>3 DEF AddLabel
    <3>2. l.name = chains[n].label /\ l.head = chains[n].head
      BY <3>1 DEF Label
    <3> QED
      BY <3>1, <3>2 DEF PipelineHolds, ChainsHold, RunHolds, At
  <2> QED
    BY <2>1, <2>2, <2>3 DEF Next, PushHead, MoveMain, MergeRecord, OpenRecord, RerunCheck,
       CompleteCheck, Step, Request, Review, EmptyReview, Gate, Loop, Hold, PublishBranch, JobFails
<1> QED
  BY <1>1, ChainsAreSound, PTL DEF Spec, AcceptanceIsEarned
-----------------------------------------------------------------------------
Linked(record) ==
  /\ record.decidedBy \in Organizers
  /\ record.review \in reviews
  /\ \A d \in record.decisions : d.finding \in FindingIds(record.review)
  /\ ToSet(record.supersedes) \subseteq records

LedgerHolds == \A record \in drafts \cup records : Linked(record)

\* What a validated draft refers to.
LEMMA DraftsAreLinked ==
  ASSUME NEW review \in reviews, NEW record,
         Succeeds(CommandDispositionRecord(record, review, records, day, Organizers))
  PROVE  Linked(record)
<1> DEFINE ids == {f.id : f \in ToSet(review.findings)}
<1>1. ValidateDispositionRecord(record, review, records, day, Organizers).accepted
  BY DEF Succeeds, ExitCode, CommandDispositionRecord
<1>2. /\ (IF record.decidedBy \in Organizers THEN {} ELSE {"disposition-actor"}) = {}
      /\ (IF record.review = review THEN {} ELSE {"review-artifact-reference"}) = {}
      /\ UNION {DecisionReasons(d, ids, day) : d \in record.decisions} = {}
      /\ (IF SupersedesExisting(record, records) THEN {} ELSE {"supersedes-invalid"}) = {}
  <2> DEFINE schema == IF record.schemaValid THEN {} ELSE {"disposition-record-json-schema"}
             actor == IF record.decidedBy \in Organizers THEN {} ELSE {"disposition-actor"}
             reference == IF record.review = review THEN {} ELSE {"review-artifact-reference"}
             decided == UNION {DecisionReasons(d, ids, day) : d \in record.decisions}
             superseded == IF SupersedesExisting(record, records) THEN {}
                           ELSE {"supersedes-invalid"}
             all == schema \cup actor \cup reference \cup decided \cup superseded
  <2>1. ValidateDispositionRecord(record, review, records, day, Organizers) =
          Decision(IF all = {} THEN "qf:disposition-valid" ELSE "qf:stopped", all = {}, all)
    BY Zenon DEF ValidateDispositionRecord
  <2>2. \A state, reasons : Decision(state, reasons = {}, reasons).accepted => reasons = {}
    BY DEF Decision
  <2> HIDE DEF all
  <2>3. all = {}
    BY <1>1, <2>1, <2>2, Zenon
  <2> HIDE DEF schema, actor, reference, decided, superseded
  <2>4. actor = {} /\ reference = {} /\ decided = {} /\ superseded = {}
    BY <2>3 DEF all
  <2> QED
    BY <2>4 DEF actor, reference, decided, superseded
<1>3. record.decidedBy \in Organizers /\ record.review = review
  BY <1>2
<1>4. \A d \in record.decisions : d.finding \in FindingIds(review)
  <2> SUFFICES ASSUME NEW d \in record.decisions PROVE d.finding \in ids
    BY DEF FindingIds, Findings
  <2>1. DecisionReasons(d, ids, day) = {}
    BY <1>2
  <2> QED
    BY <2>1 DEF DecisionReasons
<1>5. ToSet(record.supersedes) \subseteq records
  <2>1. record.supersedes = <<>> \/ \E h \in records : record.supersedes = <<h>>
    BY <1>2 DEF SupersedesExisting
  <2> QED
    BY <2>1 DEF ToSet
<1> QED
  BY <1>3, <1>4, <1>5 DEF Linked

(***************************************************************************)
(* Every disposition record, drafted or merged, is signed by an organizer, *)
(* decides findings of a review that exists, and supersedes a record that  *)
(* was merged before it.                                                   *)
(***************************************************************************)
THEOREM LedgerStaysLinked == LifecycleSpec => []LedgerIsLinked
<1>1. LifecycleInit => LedgerHolds
  BY DEF LifecycleInit, LedgerHolds
<1>2. LedgerHolds /\ [LifecycleNext]_lifecycleVars => LedgerHolds'
  <2> SUFFICES ASSUME LedgerHolds, [LifecycleNext]_lifecycleVars PROVE LedgerHolds'
    OBVIOUS
  <2>1. ASSUME reviews \subseteq reviews', records \subseteq records',
               \A record \in drafts' \cup records' : Linked(record)
        PROVE  LedgerHolds'
    BY <2>1 DEF LedgerHolds, Linked
  <2>2. ASSUME NEW review \in reviews, DraftRecord(review)
        PROVE  LedgerHolds'
    <3>1. PICK record :
            /\ Succeeds(CommandDispositionRecord(record, review, records, day, Organizers))
            /\ drafts' = drafts \cup {record} /\ UNCHANGED <<reviews, records>>
      BY <2>2 DEF DraftRecord
    <3>2. Linked(record)
      BY <3>1, DraftsAreLinked
    <3> QED
      BY <2>1, <3>1, <3>2 DEF LedgerHolds
  <2>3. ASSUME NEW record \in drafts, MergeDraft(record) \/ CloseDraft(record)
        PROVE  LedgerHolds'
    BY <2>1, <2>3 DEF MergeDraft, CloseDraft, LedgerHolds
  <2>4. CASE ReviewHead
    BY <2>1, <2>4 DEF ReviewHead, LedgerHolds
  <2>5. CASE UNCHANGED <<reviews, drafts, records>>
    BY <2>1, <2>5 DEF LedgerHolds
  <2> QED
    BY <2>2, <2>3, <2>4, <2>5 DEF LifecycleNext, AutomaticCorrection, HumanCorrection,
       Correct, NextDay, lifecycleVars
<1>3. LedgerHolds => LedgerIsLinked
  BY DEF LedgerHolds, Linked, LedgerIsLinked
<1> QED
  BY <1>1, <1>2, <1>3, PTL DEF LifecycleSpec
-----------------------------------------------------------------------------
(***************************************************************************)
(* The automatic corrections of a work order end: never more of them than  *)
(* the phase and the organizers' limit allow.                              *)
(***************************************************************************)
THEOREM LoopIsBounded ==
  ASSUME Phase \in {"A", "B", "C"}, MaxIterations \in Nat
  PROVE  LifecycleSpec => []CorrectionsAreBounded
<1> DEFINE Bounded == iteration \in Nat /\ CorrectionsAreBounded
<1>1. LifecycleInit => Bounded
  BY DEF LifecycleInit, CorrectionsAreBounded, PhaseLimit
<1>2. Bounded /\ [LifecycleNext]_lifecycleVars => Bounded'
  <2> SUFFICES ASSUME Bounded, [LifecycleNext]_lifecycleVars PROVE Bounded'
    OBVIOUS
  <2>1. CASE UNCHANGED iteration
    BY <2>1 DEF CorrectionsAreBounded
  <2>2. ASSUME NEW fixed, AutomaticCorrection(fixed)
        PROVE  Bounded'
    <3>1. PICK review \in reviews, same \in BOOLEAN :
            CommandLoop(review, Phase, iteration, MaxIterations, same, FALSE).state
              = "qf:manufacturing"
      BY <2>2 DEF AutomaticCorrection
    <3>2. ~AtPhaseLimit(Phase, iteration, MaxIterations)
      BY <3>1 DEF CommandLoop, LoopTransition, Decision
    <3>3. iteration < PhaseLimit(Phase) /\ iteration < MaxIterations
      BY <3>2 DEF AtPhaseLimit, PhaseLimit
    <3>4. iteration' = iteration + 1
      BY <2>2 DEF AutomaticCorrection
    <3> QED
      BY <3>3, <3>4 DEF CorrectionsAreBounded, PhaseLimit
  <2> QED
    BY <2>1, <2>2 DEF LifecycleNext, HumanCorrection, ReviewHead, DraftRecord,
       MergeDraft, CloseDraft, NextDay, lifecycleVars
<1> QED
  BY <1>1, <1>2, PTL DEF LifecycleSpec
-----------------------------------------------------------------------------
\* A set of naturals that is not empty has a least element.
LEMMA LeastExists ==
  ASSUME NEW T \in SUBSET Nat, T # {}
  PROVE  \E least \in T : \A n \in T : least <= n
<1>1. PICK R : R = OpToRel(<, Nat)
  OBVIOUS
<1>2. \A p : p \in R <=> p \in {q \in Nat \X Nat : q[1] < q[2]}
  BY <1>1, Zenon DEF OpToRel
<1>3. IsWellFoundedOn(R, Nat)
  BY <1>1, NatLessThanWellFounded, Zenon
<1>4. PICK least \in T : \A n \in T : ~(<<n, least>> \in R)
  BY <1>3, WFMin, Zenon
<1>5. \A n \in T : ~(n < least)
  BY <1>2, <1>4
<1> QED
  BY <1>5

\* A bounded one has a greatest.
LEMMA GreatestExists ==
  ASSUME NEW bound \in Nat, NEW T \in SUBSET (0 .. bound), T # {}
  PROVE  \E last \in T : \A n \in T : n <= last
<1>1. PICK U : U = {n \in Nat : bound - n \in T}
  OBVIOUS
<1>2. \A n \in T : bound - n \in U
  BY <1>1
<1>3. U # {} /\ U \in SUBSET Nat
  BY <1>1, <1>2
<1>4. PICK least \in U : \A n \in U : least <= n
  BY <1>3, LeastExists
<1>5. bound - least \in T /\ least \in Nat
  BY <1>1, <1>4
<1>6. \A n \in T : n <= bound - least
  <2> SUFFICES ASSUME NEW n \in T PROVE n <= bound - least
    OBVIOUS
  <2>1. least <= bound - n
    BY <1>2, <1>4
  <2> QED
    BY <1>5, <2>1
<1> QED
  BY <1>5, <1>6

Fixes == [finding : Ids, sha : Nat]

\* A finite set, as a sequence.
LEMMA SetsHaveOrders ==
  ASSUME NEW S, IsFiniteSet(S)
  PROVE  SetToSeq(S) \in Seq(S)
<1>1. Cardinality(S) = Cardinality(S)
  BY DEF Cardinality, Cardinality
<1>2. PICK f : f \in Bijection(1 .. Cardinality(S), S)
  <2>1. PICK n \in Nat : ExistsBijection(1 .. n, S)
    BY FS_NatBijection
  <2>2. Cardinality(S) = n
    BY <2>1, FS_CountingElements
  <2>3. Bijection(1 .. n, S) # {}
    BY <2>1, Zenon DEF ExistsBijection
  <2> QED
    BY <2>2, <2>3
<1>3. f \in [1 .. Cardinality(S) -> S] /\ IsInjective(f)
  BY <1>1, <1>2 DEF Bijection, Injection, IsInjective, IsInjective
<1>4. SetToSeq(S) \in [1 .. Cardinality(S) -> S]
  BY <1>3, Zenon DEF SetToSeq
<1>5. Cardinality(S) \in Nat
  BY FS_CardinalityType
<1> QED
  BY <1>1, <1>4, <1>5

\* The first n of a sequence, those about some findings: a function that
\* builds it step by step.
IsKept(f, all, ids, n) ==
  f = [k \in 0 .. n |-> IF k = 0 THEN <<>>
                        ELSE IF all[k].finding \in ids THEN Append(f[k - 1], all[k])
                        ELSE f[k - 1]]

LEMMA KeptExists ==
  ASSUME NEW all, NEW ids, NEW n \in Nat
  PROVE  \E f : IsKept(f, all, ids, n)
<1> DEFINE unkept == {m \in Nat : ~\E f : IsKept(f, all, ids, m)}
<1> SUFFICES ASSUME unkept # {} PROVE FALSE
  OBVIOUS
<1>1. PICK m \in unkept : \A k \in unkept : m <= k
  BY LeastExists
<1>2. m # 0
  <2>1. PICK f : f = [k \in 0 .. 0 |-> <<>>]
    OBVIOUS
  <2>2. IsKept(f, all, ids, 0)
    BY <2>1 DEF IsKept
  <2> QED
    BY <1>1, <2>2
<1>3. m \in Nat /\ m - 1 \in Nat /\ m - 1 \notin unkept
  BY <1>1, <1>2
<1>4. PICK f : IsKept(f, all, ids, m - 1)
  BY <1>3
<1>5. PICK next : next = IF all[m].finding \in ids THEN Append(f[m - 1], all[m]) ELSE f[m - 1]
  OBVIOUS
<1>6. PICK g : g = [k \in 0 .. m |-> IF k = m THEN next ELSE f[k]]
  OBVIOUS
<1>7. \A k \in 0 .. m :
        g[k] = IF k = 0 THEN <<>>
               ELSE IF all[k].finding \in ids THEN Append(g[k - 1], all[k]) ELSE g[k - 1]
  <2> SUFFICES ASSUME NEW k \in 0 .. m
               PROVE  g[k] = IF k = 0 THEN <<>>
                             ELSE IF all[k].finding \in ids THEN Append(g[k - 1], all[k])
                             ELSE g[k - 1]
    OBVIOUS
  <2>1. \A j \in 0 .. m - 1 :
          f[j] = IF j = 0 THEN <<>>
                 ELSE IF all[j].finding \in ids THEN Append(f[j - 1], all[j]) ELSE f[j - 1]
    BY <1>4 DEF IsKept
  <2>2. \A j \in 0 .. m - 1 : g[j] = f[j]
    BY <1>3, <1>6
  <2>3. CASE k = m
    BY <1>2, <1>3, <1>5, <1>6, <2>2, <2>3
  <2>4. CASE k # m
    BY <1>3, <2>1, <2>2, <2>4
  <2> QED
    BY <2>3, <2>4
<1>8. IsKept(g, all, ids, m)
  BY <1>6, <1>7 DEF IsKept
<1> QED
  BY <1>1, <1>8

\* The candidates of a request are some of the candidates.
LEMMA CandidatesAreKept ==
  ASSUME NEW ids, candidates \in Seq(Fixes)
  PROVE  CandidatesFor(ids) \in Seq(ToSet(candidates))
<1>0. PICK last \in Nat : last = Len(candidates)
  OBVIOUS
<1>1. PICK found, all :
        last = Len(candidates) /\ found = ToSet(candidates) /\ all = candidates
  BY <1>0
<1>2. \A n \in 1 .. last : all[n] \in found
  BY <1>1 DEF ToSet
<1>3. PICK kept : /\ IsKept(kept, all, ids, last)
                  /\ CandidatesFor(ids) = kept[last]
  <2>1. PICK kept : kept = CHOOSE f : IsKept(f, all, ids, last)
    OBVIOUS
  <2>2. IsKept(kept, all, ids, last)
    BY <2>1, KeptExists, Zenon
  <2>3. CandidatesFor(ids) = kept[last]
    BY <1>1, <2>1, Zenon DEF CandidatesFor, IsKept
  <2> QED
    BY <2>2, <2>3
<1>4. \A n \in 0 .. last :
        kept[n] = IF n = 0 THEN <<>>
                  ELSE IF all[n].finding \in ids THEN Append(kept[n - 1], all[n])
                  ELSE kept[n - 1]
  BY <1>3 DEF IsKept
<1>5. PICK some :
        some = Seq(found) /\ <<>> \in some /\ \A t \in some, c \in found : Append(t, c) \in some
  <2>1. PICK some : some = Seq(found)
    OBVIOUS
  <2>2. <<>> \in some
    BY <2>1
  <2>3. ASSUME NEW t \in some, NEW c \in found PROVE Append(t, c) \in some
    BY <2>1, <2>3
  <2> QED
    BY <2>1, <2>2, <2>3
<1>6. PICK other : other = {n \in 0 .. last : kept[n] \notin some}
  OBVIOUS
<1>7. other = {}
  <2> SUFFICES ASSUME other # {} PROVE FALSE
    OBVIOUS
  <2>1. other \in SUBSET Nat
    BY <1>6
  <2>2. PICK n \in other : \A k \in other : n <= k
    BY <2>1, LeastExists
  <2>3. n \in 0 .. last /\ kept[n] \notin some
    BY <1>6, <2>2
  <2>4. n # 0
    BY <1>4, <1>5, <2>3
  <2>5. n - 1 \in 0 .. last /\ n - 1 \notin other
    BY <2>2, <2>3, <2>4
  <2>6. kept[n - 1] \in some /\ all[n] \in found
    BY <1>2, <1>6, <2>3, <2>4, <2>5
  <2>7. kept[n] = Append(kept[n - 1], all[n]) \/ kept[n] = kept[n - 1]
    BY <1>4, <2>3, <2>4
  <2> QED
    BY <1>5, <2>3, <2>6, <2>7
<1>8. kept[last] \in some
  BY <1>6, <1>7
<1> QED
  BY <1>1, <1>3, <1>5, <1>8

\* The candidate that the gate compares with the head is one of the finding.
LEMMA CandidateIsOfFinding ==
  ASSUME NEW request, NEW S, request.candidates \in Seq(S),
         NEW id \in CandidateIds(request)
  PROVE  /\ CandidateOf(request, id) \in ToSet(request.candidates)
         /\ CandidateOf(request, id).finding = id
<1>1. PICK all \in Seq(S) : all = request.candidates
  OBVIOUS
<1>2. PICK of : of = {i \in 1 .. Len(all) : all[i].finding = id}
  OBVIOUS
<1>3. of # {}
  BY <1>1, <1>2 DEF CandidateIds, ToSet
<1>4. PICK last \in of : \A i \in of : i <= last
  <2>1. Len(all) \in Nat /\ of \in SUBSET (0 .. Len(all))
    BY <1>2
  <2> QED
    BY <1>3, <2>1, GreatestExists
<1>5. Max(of) \in of
  BY <1>4 DEF Max
<1>6. CandidateOf(request, id) = all[Max(of)]
  BY <1>1, <1>2, <1>3 DEF CandidateOf, SelectLastInSeq
<1>7. Max(of) \in DOMAIN all /\ all[Max(of)].finding = id
  BY <1>1, <1>2, <1>5
<1> QED
  BY <1>1, <1>6, <1>7 DEF ToSet

\* What the gate has accepted of a second review.
LEMMA VerifiedIsFixed ==
  ASSUME NEW request, NEW review, NEW checks, NEW registry, NEW order, NEW facts,
         Succeeds(CommandReviewGate(request, review, checks, registry, order, facts))
  PROVE  /\ review.commit = facts.head
         /\ \A f \in Findings(review) : StatusFitsMode(f, request.mode)
         /\ VerifiedIsBacked(request, review, facts.head)
<1> DEFINE gate == [head |-> facts.head, tree |-> facts.tree, exitCode |-> facts.exitCode,
                    baseDrift |-> facts.baseDrift, expectedDefault |-> facts.expectedDefault,
                    checksGreen |-> ValidateRequiredChecks(registry, order.tests, checks,
                                                                facts.head).accepted]
           passed == GateCheck(request, review, gate)
<1>1. \A i \in GateIds : passed[i]
  <2>1. ValidateReviewGate(request, review, gate).accepted
    BY DEF CommandReviewGate, Succeeds, ExitCode
  <2> HIDE DEF gate
  <2>2. {GateReasons[i] :
           i \in {j \in GateIds : ~GateCheck(request, review, gate)[j]}} = {}
    BY <2>1 DEF ValidateReviewGate, Decision
  <2> QED
    BY <2>2
<1>2. 3 \in GateIds /\ 13 \in GateIds /\ 14 \in GateIds
  BY DEF GateIds
<1>3. passed[3] = (review.commit = gate.head)
  BY <1>2 DEF GateCheck
<1>4. passed[13] = (\A f \in Findings(review) : StatusFitsMode(f, request.mode))
  BY <1>2 DEF GateCheck
<1>5. passed[14] = VerifiedIsBacked(request, review, gate.head)
  BY <1>2 DEF GateCheck
<1> QED
  BY <1>1, <1>2, <1>3, <1>4, <1>5

\* The inductive invariant: no review is of a head to come, so that every
\* review of another head is of an earlier one.
FixesHold ==
  /\ branchHead \in Nat /\ candidates \in Seq(Fixes)
  /\ \A review \in reviews : review.commit \in Nat /\ review.commit <= branchHead
  /\ VerifiedWasFixed

\* What is recorded of earlier heads stays so.
LEMMA FixesStay ==
  ASSUME FixesHold, branchHead' \in Nat, branchHead <= branchHead', candidates' \in Seq(Fixes),
         ToSet(candidates) \subseteq ToSet(candidates'), reviews' = reviews
  PROVE  FixesHold'
<1>1. VerifiedWasFixed'
  <2> SUFFICES ASSUME NEW review \in reviews, NEW id \in VerifiedIds(review)
               PROVE  /\ \E earlier \in reviews :
                           earlier.commit < review.commit /\ id \in IdsWith(earlier, "OPEN")
                      /\ [finding |-> id, sha |-> review.commit] \in ToSet(candidates')
    BY DEF VerifiedWasFixed
  <2> QED
    BY DEF FixesHold, VerifiedWasFixed
<1> QED
  BY <1>1 DEF FixesHold

\* A correction adds candidates for the head that it makes.
LEMMA CorrectionsAddFixes ==
  ASSUME FixesHold, IsFiniteSet(Ids), NEW fixed \in SUBSET Ids, Correct(fixed)
  PROVE  FixesHold'
<1>1. PICK new : new = {[finding |-> id, sha |-> branchHead + 1] : id \in fixed}
  OBVIOUS
<1>2. branchHead \in Nat /\ candidates \in Seq(Fixes)
  BY DEF FixesHold
<1>3. IsFiniteSet(new)
  <2>1. IsFiniteSet(fixed)
    BY FS_Subset
  <2>2. PICK f : f = [id \in fixed |-> [finding |-> id, sha |-> branchHead + 1]]
    OBVIOUS
  <2>3. f \in Surjection(fixed, new)
    BY <1>1, <2>2 DEF Surjection
  <2> QED
    BY <2>1, <2>3, FS_Surjection
<1>4. new \subseteq Fixes
  BY <1>1, <1>2 DEF Fixes
<1>5. PICK added : added = SetToSeq(new)
  OBVIOUS
<1>6. added \in Seq(new)
  BY <1>3, <1>5, SetsHaveOrders
<1>7. added \in Seq(Fixes)
  BY <1>4, <1>6
<1>8. candidates' = candidates \o added /\ branchHead' = branchHead + 1 /\ reviews' = reviews
  BY <1>1, <1>5 DEF Correct
<1>9. candidates' \in Seq(Fixes) /\ ToSet(candidates) \subseteq ToSet(candidates')
  BY <1>2, <1>7, <1>8 DEF ToSet
<1> QED
  BY <1>2, <1>8, <1>9, FixesStay

\* A review that is recorded calls fixed what was open and has a candidate.
LEMMA ReviewsKeepFixes ==
  ASSUME FixesHold, ReviewHead
  PROVE  FixesHold'
<1> DEFINE Accepted(request, review) ==
             Succeeds(CommandReviewGate(request, review, Green, {"check"}, [tests |-> {"check"}],
               [head |-> branchHead, tree |-> branchHead, exitCode |-> 0, baseDrift |-> FALSE,
                expectedDefault |-> 1]))
<1>0. PICK request \in Requests :
        \E review : Accepted(request, review) /\ reviews' = reviews \cup {review}
  BY DEF ReviewHead
<1>1. PICK review : Accepted(request, review) /\ reviews' = reviews \cup {review}
  BY <1>0
<1>2. UNCHANGED <<branchHead, candidates>>
  BY DEF ReviewHead
<1>3. /\ review.commit = branchHead
      /\ \A f \in Findings(review) : StatusFitsMode(f, request.mode)
      /\ VerifiedIsBacked(request, review, branchHead)
  BY <1>1, VerifiedIsFixed
<1>4. ASSUME NEW id \in VerifiedIds(review)
      PROVE  /\ \E earlier \in reviews :
                  earlier.commit < branchHead /\ id \in IdsWith(earlier, "OPEN")
             /\ [finding |-> id, sha |-> branchHead] \in ToSet(candidates)
  <2>1. request.mode # "INITIAL"
    BY <1>3, <1>4 DEF VerifiedIds, StatusFitsMode
  <2>2. PICK prior \in reviews :
          /\ prior.commit # branchHead
          /\ request.eligible = IdsWith(prior, "OPEN")
          /\ request.candidates = CandidatesFor(IdsWith(prior, "OPEN"))
    BY <2>1 DEF Requests
  <2>3. prior.commit < branchHead /\ id \in IdsWith(prior, "OPEN")
    BY <1>3, <1>4, <2>2 DEF FixesHold, VerifiedIsBacked
  <2>4. request.candidates \in Seq(ToSet(candidates))
    BY <2>2, CandidatesAreKept DEF FixesHold
  <2>5. PICK fix : fix = CandidateOf(request, id)
    OBVIOUS
  <2>6. id \in CandidateIds(request) /\ fix.sha = branchHead
    BY <1>3, <1>4, <2>5 DEF VerifiedIsBacked
  <2>7. fix \in ToSet(request.candidates) /\ fix.finding = id
    BY <2>4, <2>5, <2>6, CandidateIsOfFinding
  <2>8. fix \in ToSet(candidates)
    BY <2>4, <2>7 DEF ToSet
  <2>9. fix \in Fixes
    BY <2>8 DEF FixesHold, ToSet
  <2>10. fix = [finding |-> id, sha |-> branchHead]
    BY <2>6, <2>7, <2>9 DEF Fixes
  <2> QED
    BY <2>2, <2>3, <2>8, <2>10
<1>5. VerifiedWasFixed'
  <2> SUFFICES ASSUME NEW other \in reviews', NEW id \in VerifiedIds(other)
               PROVE  /\ \E earlier \in reviews' :
                           earlier.commit < other.commit /\ id \in IdsWith(earlier, "OPEN")
                      /\ [finding |-> id, sha |-> other.commit] \in ToSet(candidates')
    BY DEF VerifiedWasFixed
  <2>1. CASE other \in reviews
    BY <1>1, <1>2, <2>1 DEF FixesHold, VerifiedWasFixed
  <2>2. CASE other = review
    BY <1>1, <1>2, <1>3, <1>4, <2>2
  <2> QED
    BY <1>1, <2>1, <2>2
<1> QED
  BY <1>1, <1>2, <1>3, <1>5 DEF FixesHold

(***************************************************************************)
(* A finding that a recorded review calls fixed was open in the review of  *)
(* an earlier head, and has a fix candidate for exactly the head reviewed. *)
(***************************************************************************)
THEOREM NothingIsCalledFixedUnfixed ==
  ASSUME IsFiniteSet(Ids)
  PROVE  LifecycleSpec => []VerifiedWasFixed
<1>1. LifecycleInit => FixesHold
  <2> SUFFICES ASSUME LifecycleInit PROVE FixesHold
    OBVIOUS
  <2>1. branchHead = 1 /\ candidates = <<>> /\ reviews = {}
    BY DEF LifecycleInit
  <2> QED
    BY <2>1 DEF FixesHold, VerifiedWasFixed
<1>2. FixesHold /\ [LifecycleNext]_lifecycleVars => FixesHold'
  <2> SUFFICES ASSUME FixesHold, [LifecycleNext]_lifecycleVars PROVE FixesHold'
    OBVIOUS
  <2>1. CASE UNCHANGED <<branchHead, candidates, reviews>>
    BY <2>1, FixesStay DEF FixesHold
  <2>2. ASSUME NEW fixed \in SUBSET Ids,
               AutomaticCorrection(fixed) \/ HumanCorrection(fixed)
        PROVE  FixesHold'
    BY <2>2, CorrectionsAddFixes DEF AutomaticCorrection, HumanCorrection
  <2>3. CASE ReviewHead
    BY <2>3, ReviewsKeepFixes
  <2> QED
    BY <2>1, <2>2, <2>3 DEF LifecycleNext, DraftRecord, MergeDraft, CloseDraft,
       NextDay, lifecycleVars
<1>3. FixesHold => VerifiedWasFixed
  BY DEF FixesHold
<1> QED
  BY <1>1, <1>2, <1>3, PTL DEF LifecycleSpec
=============================================================================
