----------------------------- MODULE ReviewPipeline -----------------------------
(***************************************************************************)
(* From the checks of a Draft pull request to its label and its durable    *)
(* review: the workflows qf-ci-gate-router.yml, qf-review-request.yml,     *)
(* qf-claude-technical-review.yml, qf-review-gate.yml,                     *)
(* qf-ai-loop-controller.yml and qf-review-result-publish.yml, for one     *)
(* pull request of one work order, in Phase A.                             *)
(*                                                                         *)
(* Each completion of a check starts a chain of workflow runs, in which    *)
(* the end of one run starts the next by workflow_run.  The platform stops *)
(* such a chain after some levels, and the workflows need five of them.    *)
(* Chains are concurrent, several can be about the same head, and while    *)
(* they run a human may push to the branch, main may move and checks may   *)
(* be run again.  The reviewer is an AI that may answer what it likes, or  *)
(* nothing.                                                                *)
(***************************************************************************)
EXTENDS ControllerCli

CONSTANTS
  Checks,          \* the required checks
  Chains,          \* names of the chains of runs; bounds those in progress
  Kinds,           \* the kinds of answer that the reviewer gives
  ReviewsFail,     \* whether the reviewer may answer nothing
  JobsFail,        \* whether other jobs fail
  MaxLevels,       \* levels of workflow_run that the platform starts
  MaxHead,         \* bound: heads of the branch, and green checks run again
  MaxTip           \* bound: commits of main

ASSUME ReviewAssumption ==
  /\ Checks # {} /\ MaxHead \in Nat \ {0} /\ MaxLevels \in Nat \ {0}
  /\ Kinds \subseteq {"clean", "findings", "blocking", "inconsistent", "other-commit"}

VARIABLES
  tip,             \* the tip of main
  durable,         \* review records on main
  head,            \* the head of the pull request; heads are 1, 2, ...
  green,           \* the checks of each head whose latest run succeeded
  reruns,          \* green checks that were run again
  chains,          \* the run that each chain is at
  labels,          \* labels of the pull request, and the heads they were given for
  evidence         \* evidence branches: the record and whether it has its PR

vars == <<tip, durable, head, green, reruns, chains, labels, evidence>>

Idle == [stage |-> "idle"]

AllGreen(h) == green[h] = Checks

Init ==
  /\ tip = 1 /\ durable = {}
  /\ head = 1 /\ reruns = 0
  /\ green = [h \in 1 .. MaxHead |-> {}]
  /\ chains = [n \in Chains |-> Idle]
  /\ labels = {} /\ evidence = {}

(***************************************************************************)
(* GitHub, the humans and the checks.                                      *)
(***************************************************************************)
PushHead ==
  /\ head + reruns < MaxHead
  /\ head' = head + 1
  /\ UNCHANGED <<tip, durable, green, reruns, chains, labels, evidence>>

MoveMain ==
  /\ tip < MaxTip
  /\ tip' = tip + 1
  /\ UNCHANGED <<durable, head, green, reruns, chains, labels, evidence>>

MergeRecord ==
  /\ tip < MaxTip
  /\ \E e \in evidence :
       /\ e.pr /\ e.review \notin durable
       /\ durable' = durable \cup {e.review}
  /\ tip' = tip + 1
  /\ UNCHANGED <<head, green, reruns, chains, labels, evidence>>

\* The end of a check, whatever its conclusion, starts a chain.
CompleteCheck(n, h, c, success) ==
  /\ chains[n] = Idle /\ c \notin green[h]
  /\ green' = IF success THEN [green EXCEPT ![h] = @ \cup {c}] ELSE green
  /\ chains' = [chains EXCEPT ![n] = [stage |-> "route", head |-> h]]
  /\ UNCHANGED <<tip, durable, head, reruns, labels, evidence>>

RerunCheck(h, c) ==
  /\ head + reruns < MaxHead /\ c \in green[h]
  /\ reruns' = reruns + 1
  /\ green' = [green EXCEPT ![h] = @ \ {c}]
  /\ UNCHANGED <<tip, durable, head, chains, labels, evidence>>

(***************************************************************************)
(* Steps of a chain.                                                       *)
(***************************************************************************)
At(n, stage) == chains[n].stage = stage
Goto(n, run) == chains' = [chains EXCEPT ![n] = run]
End(n) == Goto(n, Idle)

\* The level of workflow_run at which each workflow runs; the loop controller
\* and the publisher follow the gate, which only relays a hold.
Level(stage) ==
  CASE stage = "request" -> 2 [] stage = "review" -> 3 [] stage = "gate" -> 4
    [] stage \in {"loop", "hold"} -> 5

\* The end of a run starts the next one, unless that is a level too deep.
StartNext(n, run) == Goto(n, IF Level(run.stage) <= MaxLevels THEN run ELSE Idle)

\* The pull request and the checks as they are; the work order is compared
\* with itself.
RouteIsValid(h) ==
  /\ Succeeds(CommandRoute("repository", "repository"))
  /\ head = h
  /\ AllGreen(h)

Label(name, h) == [name |-> name, head |-> h]

Route(n) ==
  /\ At(n, "route")
  /\ LET h == chains[n].head
     IN IF RouteIsValid(h)
        THEN /\ labels' = labels \cup {Label("qf:ci-green", h)}
             /\ StartNext(n, [stage |-> "request", head |-> h])
        ELSE End(n) /\ UNCHANGED labels
  /\ UNCHANGED <<tip, durable, head, green, reruns, evidence>>

InitialRequest(h) ==
  [wellFormed |-> TRUE, order |-> "WO", mode |-> "INITIAL", head |-> h, tree |-> h,
   prior |-> <<>>, eligible |-> {}, candidates |-> <<>>]

\* A durable review of the work order holds the chain for the organizer.  The
\* step is the checkout of main: the rest of the run computes from it.
Request(n) ==
  /\ At(n, "request")
  /\ StartNext(n, [stage |-> IF durable # {} THEN "hold" ELSE "review", head |-> chains[n].head])
  /\ UNCHANGED <<tip, durable, head, green, reruns, labels, evidence>>

Finding(severity) ==
  [id |-> severity, severity |-> severity, status |-> "OPEN", disposition |-> "UNDECIDED"]

\* The answers of the reviewer to the request about head h.
Answer(kind, h) ==
  LET commit == IF kind = "other-commit" THEN h + 1 ELSE h
  IN [present |-> TRUE, wellFormed |-> TRUE, commit |-> commit, tree |-> commit,
      default |-> tip, order |-> "WO", mode |-> "INITIAL", request |-> <<InitialRequest(h)>>,
      decision |-> CASE kind \in {"clean", "other-commit"} -> "PASS"
                     [] kind = "blocking" -> "FAIL"
                     [] kind \in {"findings", "inconsistent"} -> "PASS_WITH_FINDINGS",
      blocking |-> kind = "blocking",
      findings |-> CASE kind \in {"clean", "other-commit"} -> <<>>
                     [] kind \in {"blocking", "inconsistent"} -> <<Finding("P1")>>
                     [] kind = "findings" -> <<Finding("P2")>>]

Review(n, review) ==
  /\ At(n, "review")
  /\ StartNext(n, [stage |-> "gate", head |-> chains[n].head, review |-> review])
  /\ UNCHANGED <<tip, durable, head, green, reruns, labels, evidence>>

\* An empty output fails the review, and there is no artifact.
EmptyReview(n) ==
  /\ ReviewsFail
  /\ Review(n, NoReview)

GateDecision(run) ==
  LET selected == [c \in Checks |-> 
          [conclusion |-> IF c \in green[run.head] THEN "success" ELSE "", head |-> run.head]]
  IN CommandReviewGate(InitialRequest(run.head), run.review, selected, Checks,
       [tests |-> Checks],
       [head |-> head, tree |-> head, exitCode |-> 0,
        baseDrift |-> run.review.default # tip, expectedDefault |-> tip])

\* Without an artifact, or with a stale head, the gate's job fails before it
\* has a decision; then the run of the loop controller fails too.
GateHasDecision(run) == run.review.present /\ head = run.head

Gate(n) ==
  /\ At(n, "gate")
  /\ LET run == chains[n]
     IN IF ~GateHasDecision(run)
        THEN End(n)
        ELSE \E accepted \in {Succeeds(GateDecision(run))} :
               StartNext(n, [stage |-> "loop", head |-> run.head, review |-> run.review,
                             accepted |-> accepted, publish |-> accepted])
  /\ UNCHANGED <<tip, durable, head, green, reruns, labels, evidence>>

\* Mutant: the findings are judged and the gate is not asked.
LoopLabelUngated(run) == CommandLoop(run.review, "A", 0, 0, FALSE, FALSE).state

LoopLabel(run) ==
  IF ~run.accepted THEN "qf:stopped" ELSE CommandLoop(run.review, "A", 0, 0, FALSE, FALSE).state

\* A chain ends when its label and its record are done with.
Settle(n, run) == Goto(n, IF run.stage = "labelled" /\ ~run.publish THEN Idle ELSE run)

ToLabel(run, label, review, publish) ==
  [stage |-> IF head = run.head THEN "label" ELSE "labelled", head |-> run.head,
   label |-> label, review |-> review, publish |-> publish]

\* The head is compared before the label is written.
Loop(n) ==
  /\ At(n, "loop")
  /\ LET run == chains[n]
     IN Settle(n, ToLabel(run, LoopLabel(run), run.review, run.publish))
  /\ UNCHANGED <<tip, durable, head, green, reruns, labels, evidence>>

Hold(n) ==
  /\ At(n, "hold")
  /\ Settle(n, ToLabel(chains[n], "qf:organizer-hold", NoReview, FALSE))
  /\ UNCHANGED <<tip, durable, head, green, reruns, labels, evidence>>

AddLabel(n) ==
  /\ At(n, "label")
  /\ labels' = labels \cup {Label(chains[n].label, chains[n].head)}
  /\ Settle(n, [chains[n] EXCEPT !.stage = "labelled"])
  /\ UNCHANGED <<tip, durable, head, green, reruns, evidence>>

\* The publisher runs beside the loop controller, for an accepted review.
MayPublish(n) == chains[n].stage \in {"loop", "label", "labelled"} /\ chains[n].publish

PublishBranch(n) ==
  /\ MayPublish(n)
  /\ LET review == chains[n].review
     IN IF /\ Succeeds(CommandReviewRecord(review))
           /\ review \notin durable                      \* test ! -e "$path"
           /\ ~\E e \in evidence : e.review = review     \* organizer:hold
        THEN evidence' = evidence \cup {[review |-> review, pr |-> FALSE]}
        ELSE UNCHANGED evidence
  /\ Settle(n, [chains[n] EXCEPT !.publish = FALSE])
  /\ UNCHANGED <<tip, durable, head, green, reruns, labels>>

OpenRecord ==
  /\ \E e \in evidence : ~e.pr /\ evidence' = (evidence \ {e}) \cup {[e EXCEPT !.pr = TRUE]}
  /\ UNCHANGED <<tip, durable, head, green, reruns, chains, labels>>

JobFails(n) ==
  /\ JobsFail /\ chains[n] # Idle
  /\ End(n)
  /\ UNCHANGED <<tip, durable, head, green, reruns, labels, evidence>>

Step(n) ==
  \/ Route(n) \/ Request(n)
  \/ At(n, "review") /\ \E kind \in Kinds : Review(n, Answer(kind, chains[n].head))
  \/ EmptyReview(n)
  \/ Gate(n) \/ Loop(n) \/ Hold(n) \/ AddLabel(n) \/ PublishBranch(n)
  \/ JobFails(n)

Next ==
  \/ PushHead \/ MoveMain \/ MergeRecord \/ OpenRecord
  \/ \E h \in 1 .. head, c \in Checks :
       \/ RerunCheck(h, c)
       \/ \E n \in Chains, success \in BOOLEAN : CompleteCheck(n, h, c, success)
  \/ \E n \in Chains : Step(n)

Spec == Init /\ [][Next]_vars

-----------------------------------------------------------------------------
\* A head is passed on to the organizer's acceptance only when it was labelled
\* green and the chain that labels it holds a review of exactly this head
\* without findings: silence, another head's review or a failed job never is
\* an acceptance.
AcceptanceIsEarned ==
  [][\A l \in labels' \ labels : l.name = "qf:organizer-acceptance" =>
       /\ Label("qf:ci-green", l.head) \in labels
       /\ \E n \in Chains :
            /\ At(n, "label") /\ chains[n].head = l.head
            /\ chains[n].review.commit = l.head
            /\ chains[n].review.findings = <<>>]_vars

\* What becomes a durable record, and holds every later review of the work
\* order, is the answer to the request about its commit, and blocks if it
\* has an open P0 or P1.
RecordsAreGated ==
  \A review \in durable \cup {e.review : e \in evidence} :
    /\ review.request = <<InitialRequest(review.commit)>>
    /\ (\E f \in Findings(review) : Blocks(f)) => review.blocking
=============================================================================
