--------------------------- MODULE FindingLifecycle ---------------------------
(***************************************************************************)
(* The findings about one work order, from the review that opens them to   *)
(* the organizer's record of their disposition: the commands review-gate,  *)
(* loop and disposition-record of scripts/qf-ai-controller.py, over        *)
(* several heads of the branch and in every phase.                         *)
(*                                                                         *)
(* In Phase A the workflows hold a second review for the organizer; who    *)
(* builds its request and drives the loop in the later phases is outside   *)
(* the repository, and modelled by what the commands expect: a request     *)
(* names the open findings of a durable review of another head and the fix *)
(* candidates for them, and the iteration that loop is given is the one it *)
(* returned.  A human may push to the branch at any time.                  *)
(***************************************************************************)
EXTENDS ControllerCli

CONSTANTS
  Severity,       \* [ids of findings -> severities]
  Phase,          \* the phase that loop is called with
  MaxIterations,  \* the corrections that the work order allows
  Organizers,     \* the logins of the allowlist
  Outsiders,      \* others who draft disposition records
  MaxBranchHead,  \* bound: heads of the branch
  MaxMoves,       \* bound: heads, days, and records on main and in drafts, together
  MaxDay          \* bound: days

Ids == DOMAIN Severity

VARIABLES
  branchHead,     \* the head of the branch; heads are 1, 2, ...
  iteration,      \* automatic corrections so far
  candidates,     \* Codex's fix candidates, oldest first
  reviews,        \* durable review records
  drafts,         \* validated disposition records, in pull requests
  records,        \* disposition records on main
  day

lifecycleVars == <<branchHead, iteration, candidates, reviews, drafts, records, day>>

LifecycleInit ==
  /\ branchHead = 1 /\ iteration = 0 /\ candidates = <<>>
  /\ reviews = {} /\ drafts = {} /\ records = {} /\ day = 1

Moves == branchHead + Cardinality(records \cup drafts) + day

IdsWith(review, status) == {f.id : f \in {g \in Findings(review) : g.status = status}}

(***************************************************************************)
(* Corrections.                                                            *)
(***************************************************************************)
\* A correction makes a new head, and names the findings that it fixes.
Correct(fixed) ==
  /\ branchHead < MaxBranchHead /\ Moves < MaxMoves
  /\ branchHead' = branchHead + 1
  /\ candidates' = candidates \o
       SetToSeq({[finding |-> id, sha |-> branchHead + 1] : id \in fixed})
  /\ UNCHANGED <<reviews, drafts, records, day>>

\* The loop asks for a correction of the head that was reviewed.
AutomaticCorrection(fixed) ==
  /\ \E review \in reviews, same \in BOOLEAN :
       /\ review.commit = branchHead
       /\ CommandLoop(review, Phase, iteration, MaxIterations, same, FALSE).state
            = "qf:manufacturing"
       /\ fixed \subseteq FindingIds(review)
  /\ iteration' = iteration + 1
  /\ Correct(fixed)

HumanCorrection(fixed) ==
  /\ UNCHANGED iteration
  /\ Correct(fixed)

(***************************************************************************)
(* Reviews.                                                                *)
(***************************************************************************)
\* The fix candidates for some findings, in their order.
CandidatesFor(ids) ==
  LET kept[n \in 0 .. Len(candidates)] ==
        IF n = 0 THEN <<>>
        ELSE IF candidates[n].finding \in ids THEN Append(kept[n - 1], candidates[n])
        ELSE kept[n - 1]
  IN kept[Len(candidates)]

Requests ==
  {[wellFormed |-> TRUE, order |-> "WO", mode |-> "INITIAL",
    head |-> branchHead, tree |-> branchHead, prior |-> <<>>, eligible |-> {}, candidates |-> <<>>]}
  \cup
  {[wellFormed |-> TRUE, order |-> "WO", mode |-> "REVERIFY",
    head |-> branchHead, tree |-> branchHead, prior |-> <<prior>>, eligible |-> IdsWith(prior, "OPEN"),
    candidates |-> CandidatesFor(IdsWith(prior, "OPEN"))]
     : prior \in {r \in reviews : r.commit # branchHead}}

\* The reviewer may give any status to any finding, and any mode.
FindingOf(id, status) ==
  [id |-> id, severity |-> Severity[id], status |-> status, disposition |-> "UNDECIDED"]

Answers(request) ==
  {LET findings == {FindingOf(id, status[id]) : id \in {i \in Ids : status[i] # "absent"}}
       blocking == \E f \in findings : Blocks(f)
   IN [present |-> TRUE, wellFormed |-> TRUE, commit |-> branchHead, tree |-> branchHead,
       default |-> 1, order |-> "WO", mode |-> mode, request |-> <<request>>,
       decision |-> CASE blocking -> "FAIL"
                      [] ~blocking /\ findings = {} -> "PASS"
                      [] OTHER -> "PASS_WITH_FINDINGS",
       blocking |-> blocking,
       findings |-> SetToSeq(findings)]
     : status \in [Ids -> {"absent", "OPEN", "VERIFIED"}], mode \in {"INITIAL", "REVERIFY"}}

Green == [c \in {"check"} |-> [conclusion |-> "success", head |-> branchHead]]

\* An accepted review is published and becomes durable; a head that has a
\* durable review is not reviewed again.
ReviewHead ==
  /\ ~\E r \in reviews : r.commit = branchHead
  /\ \E request \in Requests : \E review \in Answers(request) :
       /\ Succeeds(CommandReviewGate(request, review, Green, {"check"}, [tests |-> {"check"}],
            [head |-> branchHead, tree |-> branchHead, exitCode |-> 0, baseDrift |-> FALSE,
             expectedDefault |-> 1]))
       /\ Succeeds(CommandReviewRecord(review))
       /\ reviews' = reviews \cup {review}
  /\ UNCHANGED <<branchHead, iteration, candidates, drafts, records, day>>

(***************************************************************************)
(* Disposition records.                                                    *)
(***************************************************************************)
Drafts(review) ==
  [schemaValid : BOOLEAN, decidedBy : Organizers \cup Outsiders, review : {review},
   supersedes : {<<>>} \cup {<<r>> : r \in records \cup drafts},
   decisions : {{d} : d \in [finding : Ids, disposition : {"CLOSED", "DEFERRED"},
                             complete : BOOLEAN, due : 1 .. MaxDay]}]

\* A record is validated when it is drafted, against the records on main.
DraftRecord(review) ==
  /\ Moves < MaxMoves
  /\ \E record \in Drafts(review) \ records :
       /\ Succeeds(CommandDispositionRecord(record, review, records, day, Organizers))
       /\ drafts' = drafts \cup {record}
  /\ UNCHANGED <<branchHead, iteration, candidates, reviews, records, day>>

\* A human merges it or closes it.
MergeDraft(record) ==
  /\ records' = records \cup {record}
  /\ drafts' = drafts \ {record}
  /\ UNCHANGED <<branchHead, iteration, candidates, reviews, day>>

CloseDraft(record) ==
  /\ drafts' = drafts \ {record}
  /\ UNCHANGED <<branchHead, iteration, candidates, reviews, records, day>>

NextDay ==
  /\ day < MaxDay /\ Moves < MaxMoves
  /\ day' = day + 1
  /\ UNCHANGED <<branchHead, iteration, candidates, reviews, drafts, records>>

LifecycleNext ==
  \/ \E fixed \in SUBSET Ids : AutomaticCorrection(fixed) \/ HumanCorrection(fixed)
  \/ ReviewHead
  \/ \E review \in reviews : DraftRecord(review)
  \/ \E record \in drafts : MergeDraft(record) \/ CloseDraft(record)
  \/ NextDay

LifecycleSpec == LifecycleInit /\ [][LifecycleNext]_lifecycleVars

-----------------------------------------------------------------------------
\* A finding that a durable review calls fixed was open in a durable review
\* of an earlier head, and has a fix candidate for exactly this head,
\* whatever the reviewer answers and whoever pushes in between.
VerifiedWasFixed ==
  \A review \in reviews : \A id \in VerifiedIds(review) :
    /\ \E earlier \in reviews : earlier.commit < review.commit /\ id \in IdsWith(earlier, "OPEN")
    /\ [finding |-> id, sha |-> review.commit] \in ToSet(candidates)

\* Phase A makes no automatic correction, Phase B at most one and Phase C at
\* most three, and never more than the work order allows.
CorrectionsAreBounded ==
  iteration <= PhaseLimit(Phase) /\ (iteration > 0 => iteration <= MaxIterations)

\* A record on main is the organizer's, about findings of its review, and
\* what it supersedes is on main too, although records are validated before
\* they are merged and in any order.
LedgerIsLinked ==
  \A record \in records :
    /\ record.decidedBy \in Organizers
    /\ record.review \in reviews
    /\ \A d \in record.decisions : d.finding \in FindingIds(record.review)
    /\ ToSet(record.supersedes) \subseteq records

=============================================================================
