---------------------------- MODULE RoleAppointment ----------------------------
(***************************************************************************)
(* The required check qf-role-appointment-signature of a pull request:     *)
(* qf-role-appointment-signature.yml, the commands preflight and           *)
(* appointment, and what they read of the pull request through the API.    *)
(*                                                                         *)
(* A run is started by the events of the pull request and of its reviews,  *)
(* and its check belongs to the head of that moment.  It reads the pull    *)
(* request, the files, the reviews and the permission of the nominee one   *)
(* after the other, while commits are pushed and reviews are given and     *)
(* dismissed.  A commit's check is that of the newest run for it.          *)
(***************************************************************************)
EXTENDS ControllerCli

CONSTANTS
  People,         \* logins
  Organizers,     \* the logins of the allowlist on main
  Contents,       \* what a head may contain: the files it changes, its record
  Planes,         \* [plane, baseline, phase]: main's files, the phase variable
  MaxHead,        \* bound: heads
  MaxEvents       \* bound: heads and reviews together

VARIABLES
  setup,          \* main's control plane and baseline, and the phase variable
  author,         \* the author of the pull request
  commits,        \* the content of each head; the last one is the head
  reviews,        \* the reviews, oldest first
  writers,        \* who may write to the repository
  runs            \* the newest run for each head

vars == <<setup, author, commits, reviews, writers, runs>>

head == Len(commits)

Queued == [stage |-> "queued"]
NoReviewYet == [user |-> "", state |-> "", commit |-> 0]

Init ==
  /\ setup \in Planes /\ author \in People
  /\ \E content \in Contents : commits = <<content>>
  /\ reviews = <<>> /\ writers = Organizers
  /\ runs = <<Queued>>                                     \* opened

(***************************************************************************)
(* The pull request: GitHub and the humans.                                *)
(***************************************************************************)
Push(content) ==                                           \* synchronize
  /\ head < MaxHead /\ head + Len(reviews) < MaxEvents
  /\ commits' = Append(commits, content)
  /\ runs' = Append(runs, Queued)
  /\ UNCHANGED <<setup, author, reviews, writers>>

\* A review event starts a run for the head as it is.
Evaluate == runs' = [runs EXCEPT ![head] = Queued]

\* GitHub does not let the author review the pull request.
SubmitReview(user, state, commit) ==
  /\ user # author
  /\ head + Len(reviews) < MaxEvents
  /\ reviews' = Append(reviews, [user |-> user, state |-> state, commit |-> commit])
  /\ Evaluate
  /\ UNCHANGED <<setup, author, commits, writers>>

DismissReview(i) ==
  /\ reviews[i].state \in {"APPROVED", "CHANGES_REQUESTED"}
  /\ reviews' = [reviews EXCEPT ![i].state = "DISMISSED"]
  /\ Evaluate
  /\ UNCHANGED <<setup, author, commits, writers>>

\* A change of permissions is no event of the pull request.
ChangePermission(user) ==
  /\ writers' = IF user \in writers THEN writers \ {user} ELSE writers \cup {user}
  /\ UNCHANGED <<setup, author, commits, reviews, runs>>

(***************************************************************************)
(* A run.                                                                  *)
(***************************************************************************)
At(sha, stage) == runs[sha].stage = stage
Goto(sha, run) == runs' = [runs EXCEPT ![sha] = run]
Reads == UNCHANGED <<setup, author, commits, reviews, writers>>

ReadPull(sha) ==
  /\ At(sha, "queued")
  /\ Goto(sha, [stage |-> "pull", head |-> head, author |-> author])
  /\ Reads

NoRecord == [organizer |-> "", nominee |-> ""]

\* listFiles answers for the head as it is now; the rest is only read for a
\* pull request with the record.
ReadFiles(sha) ==
  /\ At(sha, "pull")
  /\ LET files == commits[head].files
     IN Goto(sha, [stage |-> IF "appointment" \in files THEN "files" ELSE "decide",
                   head |-> runs[sha].head, author |-> runs[sha].author, files |-> files,
                   record |-> NoRecord, review |-> NoReviewYet, writer |-> FALSE])
  /\ Reads

\* Mutant: any approval counts.
NewestApproval(user) ==
  LET last == SelectLastInSeq(reviews, LAMBDA r : r.user = user /\ r.state = "APPROVED")
  IN IF last = 0 THEN NoReviewYet ELSE reviews[last]

\* The newest review of a user, whatever its state.
NewestReview(user) ==
  LET last == SelectLastInSeq(reviews, LAMBDA r : r.user = user)
  IN IF last = 0 THEN NoReviewYet ELSE reviews[last]

\* The record is that of the commit that was read as the head; reading the
\* file fails the job when that commit does not have it.
ReadReviews(sha) ==
  /\ At(sha, "files")
  /\ LET content == commits[runs[sha].head]
     IN Goto(sha, IF "appointment" \notin content.files THEN [stage |-> "red"]
                  ELSE [runs[sha] EXCEPT !.stage = "reviews", !.record = content.record,
                                         !.review = NewestReview(content.record.nominee)])
  /\ Reads

ReadPermission(sha) ==
  /\ At(sha, "reviews")
  /\ Goto(sha, [runs[sha] EXCEPT !.stage = "decide",
                                 !.writer = runs[sha].record.nominee \in writers])
  /\ Reads

Decide(sha) ==
  /\ At(sha, "decide")
  /\ LET run == runs[sha]
         green ==
           /\ Succeeds(CommandPreflight(setup.plane, setup.baseline, setup.phase))
           /\ Succeeds(CommandAppointment(run.record,
                [author |-> run.author, files |-> run.files, head |-> run.head], run.review,
                [apiSuccess |-> TRUE, organizers |-> Organizers,
                 writers |-> IF run.writer THEN {run.record.nominee} ELSE {}]))
     IN Goto(sha, [stage |-> IF green THEN "green" ELSE "red"])
  /\ Reads

JobFails(sha) ==
  /\ runs[sha].stage \notin {"green", "red"}
  /\ Goto(sha, [stage |-> "red"])
  /\ Reads

Next ==
  \/ \E content \in Contents : Push(content)
  \/ \E user \in People \ Organizers : ChangePermission(user)
  \/ \E user \in People, state \in {"APPROVED", "CHANGES_REQUESTED", "COMMENTED"},
        commit \in 1 .. head : SubmitReview(user, state, commit)
  \/ \E i \in DOMAIN reviews : DismissReview(i)
  \/ \E sha \in 1 .. head :
       \/ ReadPull(sha) \/ ReadFiles(sha) \/ ReadReviews(sha) \/ ReadPermission(sha)
       \/ Decide(sha) \/ JobFails(sha)

Spec == Init /\ [][Next]_vars

-----------------------------------------------------------------------------
NewestSubmitted(user) ==
  LET mine == {i \in DOMAIN reviews : reviews[i].user = user}
  IN IF mine = {} THEN NoReviewYet ELSE reviews[CHOOSE i \in mine : \A j \in mine : j <= i]

\* A head whose check is green is signed by both: it changes nothing beside
\* the record, is the organizer's, and the newest review of the nominee, who
\* is another person and no organizer, approves exactly this head.  A
\* dismissal or a later review ends that, although the run reads one thing
\* after the other.
Signed(sha) ==
  LET record == commits[sha].record
      review == NewestSubmitted(record.nominee)
  IN /\ commits[sha].files = {"appointment"}
     /\ record.organizer = author /\ author \in Organizers
     /\ record.nominee \notin Organizers
     /\ review.state = "APPROVED" /\ review.commit = sha

GreenIsSigned ==
  At(head, "green") /\ "appointment" \in commits[head].files => Signed(head)

=============================================================================
