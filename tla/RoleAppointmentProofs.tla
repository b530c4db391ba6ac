------------------------ MODULE RoleAppointmentProofs ------------------------
(***************************************************************************)
(* The appointment of a second human, for every number of people, pushes,  *)
(* reviews and runs: a green evaluation of the head is backed by the pull  *)
(* request as it is.  A run reads the pull request over several steps, and *)
(* the pull request may change between them; the proof rests on what every *)
(* event does, which is to replace the run of the head by a queued one, so *)
(* that what the present run has read is still true (IsCurrent).           *)
(***************************************************************************)
EXTENDS RoleAppointment, TLAPS

Content == commits[head]
AppointmentIsChanged == "appointment" \in Content.files
Read(stage, record, review, writer) ==
  [stage |-> stage, head |-> head, author |-> author, files |-> Content.files,
   record |-> record, review |-> review, writer |-> writer]
Pulled == [stage |-> "pull", head |-> head, author |-> author]
Ended(stage) == [stage |-> stage]
NomineesReview == NewestReview(Content.record.nominee)

RunsTyped ==
  /\ commits \in Seq(Contents) /\ Len(commits) > 0
  /\ \E S : runs \in Seq(S)
  /\ \E S : reviews \in Seq(S)
  /\ Len(runs) = Len(commits)

\* The run of the head has read the pull request as it still is.
IsCurrent(run) ==
  \/ run = Queued \/ run = Ended("red") \/ run = Pulled
  \/ /\ AppointmentIsChanged
     /\ \/ run = Read("files", NoRecord, NoReviewYet, FALSE)
        \/ run = Read("reviews", Content.record, NomineesReview, FALSE)
        \/ \E writer \in BOOLEAN : run = Read("decide", Content.record, NomineesReview, writer)
  \/ /\ ~AppointmentIsChanged
     /\ run = Read("decide", NoRecord, NoReviewYet, FALSE)
  \/ /\ run = Ended("green")
     /\ AppointmentIsChanged => Signed(head)

HeadRunIsCurrent == IsCurrent(runs[head])

CheckHolds == RunsTyped /\ HeadRunIsCurrent

LEMMA StageOf ==
  /\ Queued.stage = "queued" /\ Pulled.stage = "pull"
  /\ \A stage : Ended(stage).stage = stage
  /\ \A stage, record, review, writer : Read(stage, record, review, writer).stage = stage
BY DEF Queued, Pulled, Ended, Read

\* What an accepted appointment has passed.
LEMMA AppointmentAccepts ==
  ASSUME NEW record, NEW pr, NEW review, NEW facts,
         "appointment" \in pr.files, facts.apiSuccess,
         Succeeds(CommandAppointment(record, pr, review, facts))
  PROVE  /\ record.organizer \in facts.organizers /\ pr.author = record.organizer
         /\ record.nominee \notin facts.organizers /\ pr.files = {"appointment"}
         /\ review.state = "APPROVED" /\ review.commit = pr.head
<1>1. CommandAppointment(record, pr, review, facts).accepted
  BY DEF Succeeds, ExitCode
<1>2. CommandAppointment(record, pr, review, facts) =
        ValidateAppointment(record, pr, review, facts)
  <2>1. pr.files # {}
    OBVIOUS
  <2> QED
    BY <2>1 DEF CommandAppointment, AppointmentApplicability, Decision
<1>3. ValidateAppointment(record, pr, review, facts).accepted
  BY <1>1, <1>2
<1>4. /\ record.organizer \in facts.organizers /\ pr.author = record.organizer
      /\ record.nominee \notin facts.organizers /\ ChangesOnlyTheRecord(pr)
      /\ review.state = "APPROVED" /\ review.commit = pr.head
  BY <1>3 DEF ValidateAppointment, Decision
<1> QED
  BY <1>4 DEF ChangesOnlyTheRecord

\* The newest review, if there is one, is the last one that was given.
LEMMA NewestIsSubmitted ==
  ASSUME RunsTyped, NEW user, NewestReview(user) # NoReviewYet
  PROVE  NewestReview(user) = NewestSubmitted(user)
<1>1. DOMAIN reviews = 1 .. Len(reviews)
  BY DEF RunsTyped
<1> DEFINE mine == {i \in DOMAIN reviews : reviews[i].user = user}
           last == SelectLastInSeq(reviews, LAMBDA r : r.user = user)
<1>2. last = IF mine # {} THEN Max(mine) ELSE 0
  BY <1>1 DEF SelectLastInSeq
<1>3. last # 0 /\ NewestReview(user) = reviews[last]
  BY DEF NewestReview
<1>4. mine # {} /\ last = Max(mine)
  BY <1>2, <1>3
<1>5. Max(mine) = CHOOSE i \in mine : \A j \in mine : j <= i
  BY DEF Max
<1>6. NewestSubmitted(user) = reviews[CHOOSE i \in mine : \A j \in mine : j <= i]
  BY <1>4 DEF NewestSubmitted
<1> QED
  BY <1>3, <1>4, <1>5, <1>6

\* The event of a review, or a new head: its run is queued.
LEMMA EventStep ==
  ASSUME CheckHolds,
         \/ \E content \in Contents : Push(content)
         \/ \E user, state, commit : SubmitReview(user, state, commit)
         \/ \E i \in DOMAIN reviews : DismissReview(i)
  PROVE  CheckHolds'
<1>1. /\ commits \in Seq(Contents) /\ Len(commits) > 0 /\ Len(runs) = Len(commits)
      /\ head = Len(commits)
  BY DEF CheckHolds, RunsTyped, head
<1>2. PICK S, R : runs \in Seq(S) /\ reviews \in Seq(R)
  BY DEF CheckHolds, RunsTyped
<1>3. S \subseteq S \cup {Queued} /\ runs \in Seq(S \cup {Queued})
  BY <1>2
<1>4. ASSUME RunsTyped', runs'[head'] = Queued
      PROVE  CheckHolds'
  BY <1>4 DEF CheckHolds, HeadRunIsCurrent, IsCurrent, Queued
<1>5. ASSUME NEW content \in Contents, Push(content)
      PROVE  CheckHolds'
  <2>1. commits' = Append(commits, content) /\ runs' = Append(runs, Queued)
    BY <1>5 DEF Push
  <2>2. /\ commits' \in Seq(Contents) /\ Len(commits') = Len(commits) + 1
        /\ runs' \in Seq(S \cup {Queued}) /\ Len(runs') = Len(runs) + 1
        /\ runs'[Len(runs) + 1] = Queued
    BY <1>1, <1>3, <2>1
  <2>3. reviews' = reviews
    BY <1>5 DEF Push
  <2>4. RunsTyped'
    BY <1>1, <1>2, <2>2, <2>3 DEF RunsTyped
  <2> QED
    BY <1>1, <1>4, <2>2, <2>4 DEF head
<1>6. ASSUME UNCHANGED commits, Evaluate, \E T : reviews' \in Seq(T)
      PROVE  CheckHolds'
  <2>1. runs' = [runs EXCEPT ![Len(commits)] = Queued]
    BY <1>1, <1>6 DEF Evaluate
  <2>2. /\ runs' \in Seq(S \cup {Queued}) /\ Len(runs') = Len(runs)
        /\ runs'[Len(commits)] = Queued
    BY <1>1, <1>3, <2>1
  <2>3. RunsTyped'
    BY <1>1, <1>6, <2>2 DEF RunsTyped
  <2> QED
    BY <1>1, <1>4, <1>6, <2>2, <2>3 DEF head
<1>7. ASSUME NEW user, NEW state, NEW commit, SubmitReview(user, state, commit)
      PROVE  CheckHolds'
  <2>1. PICK given : given = [user |-> user, state |-> state, commit |-> commit]
    OBVIOUS
  <2>2. reviews' = Append(reviews, given) /\ reviews \in Seq(R \cup {given})
    BY <1>2, <1>7, <2>1 DEF SubmitReview
  <2>3. reviews' \in Seq(R \cup {given})
    BY <2>2
  <2> QED
    BY <1>6, <1>7, <2>3 DEF SubmitReview
<1>8. ASSUME NEW i \in DOMAIN reviews, DismissReview(i)
      PROVE  CheckHolds'
  <2>1. PICK given : given = [reviews[i] EXCEPT !.state = "DISMISSED"]
    OBVIOUS
  <2>2. reviews' = [reviews EXCEPT ![i] = given]
    BY <1>8, <2>1 DEF DismissReview
  <2>3. reviews \in Seq(R \cup {given})
    BY <1>2
  <2>4. reviews' \in Seq(R \cup {given})
    BY <2>2, <2>3
  <2> QED
    BY <1>6, <1>8, <2>4 DEF DismissReview
<1> QED
  BY <1>5, <1>7, <1>8

\* What a run has read stays current while nothing of it changes.
LEMMA CurrentStays ==
  ASSUME UNCHANGED <<author, commits, reviews>>
  PROVE  \A run : IsCurrent(run) => IsCurrent(run)'
<1>1. UNCHANGED <<head, Content>>
  BY DEF head, Content
<1>2. UNCHANGED NomineesReview
  BY <1>1 DEF NomineesReview, NewestReview, SelectLastInSeq
<1>3. Signed(head) => Signed(head)'
  BY <1>1 DEF Signed, NewestSubmitted
<1>4. UNCHANGED AppointmentIsChanged
  BY <1>1 DEF AppointmentIsChanged
<1> QED
  BY <1>1, <1>2, <1>3, <1>4 DEF IsCurrent, Read, Pulled, Ended

\* A run of another head changes nothing about this one.
LEMMA RunGoesOn ==
  ASSUME CheckHolds, NEW sha \in 1 .. head, NEW run, Goto(sha, run), Reads,
         sha = head => IsCurrent(run)
  PROVE  CheckHolds'
<1>1. /\ commits \in Seq(Contents) /\ Len(commits) > 0 /\ Len(runs) = Len(commits)
      /\ head = Len(commits)
  BY DEF CheckHolds, RunsTyped, head
<1>2. PICK S : runs \in Seq(S)
  BY DEF CheckHolds, RunsTyped
<1>3. runs' = [runs EXCEPT ![sha] = run] /\ UNCHANGED <<author, commits, reviews>>
  BY DEF Goto, Reads
<1>4. runs \in Seq(S \cup {run})
  BY <1>2
<1>5. /\ runs' \in Seq(S \cup {run}) /\ Len(runs') = Len(runs)
      /\ runs'[sha] = run /\ (sha # Len(commits) => runs'[Len(commits)] = runs[Len(commits)])
  BY <1>1, <1>3, <1>4
<1>6. RunsTyped'
  BY <1>1, <1>3, <1>5 DEF CheckHolds, RunsTyped
<1>7. \A other : IsCurrent(other) => IsCurrent(other)'
  BY <1>3, CurrentStays
<1>8. IsCurrent(runs'[Len(commits)])
  BY <1>1, <1>5 DEF CheckHolds, HeadRunIsCurrent
<1>9. PICK last : last = runs'[Len(commits)]
  OBVIOUS
<1>10. IsCurrent(last)'
  BY <1>7, <1>8, <1>9
<1>11. head' = Len(commits)
  BY <1>3 DEF head
<1> QED
  BY <1>6, <1>9, <1>10, <1>11 DEF CheckHolds, HeadRunIsCurrent

\* What the run of the head does next.
LEMMA HeadRunReads ==
  ASSUME CheckHolds, NEW run,
         \/ ReadPull(head) \/ ReadFiles(head) \/ ReadReviews(head)
         \/ ReadPermission(head) \/ Decide(head) \/ JobFails(head),
         Goto(head, run)
  PROVE  IsCurrent(run)
<1>1. PICK sha : sha = head
  OBVIOUS
<1>2. PICK before : before = runs[sha]
  OBVIOUS
<1>3. sha \in DOMAIN runs /\ IsCurrent(before)
  BY <1>1, <1>2 DEF CheckHolds, RunsTyped, HeadRunIsCurrent, head
<1>4. \A other : Goto(sha, other) => run = other
  BY <1>1, <1>3 DEF Goto
<1>5. /\ before.stage = "pull" => before = Pulled
      /\ before.stage = "files" =>
           AppointmentIsChanged /\ before = Read("files", NoRecord, NoReviewYet, FALSE)
      /\ before.stage = "reviews" =>
           AppointmentIsChanged /\ before = Read("reviews", Content.record, NomineesReview, FALSE)
      /\ before.stage = "decide" =>
           \E writer \in BOOLEAN :
             \/ AppointmentIsChanged /\ before = Read("decide", Content.record, NomineesReview, writer)
             \/ ~AppointmentIsChanged /\ before = Read("decide", NoRecord, NoReviewYet, FALSE)
  <2>1. before = Queued => before.stage = "queued"
    BY StageOf
  <2>2. before = Ended("red") => before.stage = "red"
    BY StageOf
  <2>3. before = Ended("green") => before.stage = "green"
    BY StageOf
  <2>4. before = Pulled => before.stage = "pull"
    BY StageOf
  <2>5. \A stage, record, review, writer :
          before = Read(stage, record, review, writer) => before.stage = stage
    BY StageOf
  <2>6. CASE before.stage = "pull"
    BY <1>3, <2>1, <2>2, <2>3, <2>5, <2>6 DEF IsCurrent
  <2>7. CASE before.stage = "files"
    BY <1>3, <2>1, <2>2, <2>3, <2>4, <2>5, <2>7 DEF IsCurrent
  <2>8. CASE before.stage = "reviews"
    BY <1>3, <2>1, <2>2, <2>3, <2>4, <2>5, <2>8 DEF IsCurrent
  <2>9. CASE before.stage = "decide"
    BY <1>3, <2>1, <2>2, <2>3, <2>4, <2>5, <2>9 DEF IsCurrent
  <2> QED
    BY <2>6, <2>7, <2>8, <2>9
<1>6. CASE ReadPull(sha)
  BY <1>1, <1>4, <1>6 DEF ReadPull, IsCurrent, Pulled
<1>7. CASE ReadFiles(sha)
  <2>1. before = [stage |-> "pull", head |-> sha, author |-> author]
    BY <1>1, <1>2, <1>5, <1>7 DEF ReadFiles, At, Pulled
  <2>2. run = Read(IF AppointmentIsChanged THEN "files" ELSE "decide",
                   NoRecord, NoReviewYet, FALSE)
    BY <1>1, <1>2, <1>4, <1>7, <2>1 DEF ReadFiles, Read, AppointmentIsChanged, Content
  <2> QED
    BY <2>2 DEF IsCurrent
<1>8. CASE ReadReviews(sha)
  <2>1. /\ AppointmentIsChanged /\ "appointment" \in Content.files
        /\ before = Read("files", NoRecord, NoReviewYet, FALSE)
    BY <1>2, <1>5, <1>8 DEF ReadReviews, At, AppointmentIsChanged
  <2>2. before.head = sha /\ commits[before.head] = Content
    BY <1>1, <2>1 DEF Read, Content
  <2>3. run = [before EXCEPT !.stage = "reviews", !.record = Content.record,
                             !.review = NomineesReview]
    BY <1>2, <1>4, <1>8, <2>1, <2>2 DEF ReadReviews, NomineesReview
  <2>4. run = Read("reviews", Content.record, NomineesReview, FALSE)
    BY <2>1, <2>3 DEF Read
  <2> QED
    BY <2>1, <2>4 DEF IsCurrent
<1>9. CASE ReadPermission(sha)
  <2>1. AppointmentIsChanged /\ before = Read("reviews", Content.record, NomineesReview, FALSE)
    BY <1>2, <1>5, <1>9 DEF ReadPermission, At
  <2>2. PICK writer : writer = (before.record.nominee \in writers)
    OBVIOUS
  <2>3. writer \in BOOLEAN
    BY <2>2
  <2>4. run = [before EXCEPT !.stage = "decide", !.writer = writer]
    BY <1>2, <1>4, <1>9, <2>2 DEF ReadPermission
  <2>5. run = Read("decide", Content.record, NomineesReview, writer)
    BY <2>1, <2>4 DEF Read
  <2> QED
    BY <2>1, <2>3, <2>5 DEF IsCurrent
<1>10. CASE JobFails(sha)
  BY <1>4, <1>10 DEF JobFails, IsCurrent, Ended
<1>11. CASE Decide(sha)
  <2> DEFINE pr == [author |-> before.author, files |-> before.files, head |-> before.head]
             facts == [apiSuccess |-> TRUE, organizers |-> Organizers,
                       writers |-> IF before.writer THEN {before.record.nominee} ELSE {}]
             signed == Succeeds(CommandAppointment(before.record, pr, before.review, facts))
  <2>1. run = Ended("red") \/ (run = Ended("green") /\ signed)
    <3> DEFINE sound == Succeeds(CommandPreflight(setup.plane, setup.baseline, setup.phase))
    <3>1. Goto(sha, Ended(IF sound /\ signed THEN "green" ELSE "red"))
      BY <1>2, <1>11 DEF Decide, Ended
    <3> HIDE DEF sound, signed
    <3>2. run = Ended(IF sound /\ signed THEN "green" ELSE "red")
      BY <1>4, <3>1
    <3> QED
      BY <3>2
  <2>2. ASSUME AppointmentIsChanged, signed PROVE Signed(head)
    <3>1. PICK writer \in BOOLEAN : before = Read("decide", Content.record, NomineesReview, writer)
      BY <1>2, <1>5, <1>11, <2>2 DEF Decide, At
    <3>2. /\ before.author = author /\ before.files = Content.files /\ before.head = head
          /\ before.record = Content.record /\ before.review = NomineesReview
      BY <3>1 DEF Read
    <3>3. "appointment" \in pr.files /\ facts.apiSuccess
      BY <2>2, <3>2 DEF AppointmentIsChanged
    <3>4. /\ before.record.organizer \in facts.organizers /\ pr.author = before.record.organizer
          /\ before.record.nominee \notin facts.organizers /\ pr.files = {"appointment"}
          /\ before.review.state = "APPROVED" /\ before.review.commit = pr.head
      <4>1. PICK p, f, record, review :
                p = pr /\ f = facts /\ record = before.record /\ review = before.review
        OBVIOUS
      <4>2. Succeeds(CommandAppointment(record, p, review, f))
        BY <2>2, <4>1
      <4> HIDE DEF pr, facts
      <4> QED
        BY <3>3, <4>1, <4>2, AppointmentAccepts
    <3>5. NomineesReview # NoReviewYet
      <4>1. NoReviewYet.state = ""
        BY DEF NoReviewYet
      <4>2. NomineesReview.state = "APPROVED"
        BY <3>2, <3>4
      <4> QED
        BY <4>1, <4>2
    <3>6. NomineesReview = NewestSubmitted(Content.record.nominee)
      BY <3>5, NewestIsSubmitted DEF NomineesReview, CheckHolds
    <3> QED
      BY <3>2, <3>4, <3>6 DEF Signed, Content
  <2> QED
    BY <2>1, <2>2 DEF IsCurrent
<1> QED
  BY <1>1, <1>6, <1>7, <1>8, <1>9, <1>10, <1>11

(***************************************************************************)
(* The required check of a head that changes the appointment is green only *)
(* while the nominee's newest review approves this very head.              *)
(***************************************************************************)
THEOREM GreenMeansSigned == Spec => []GreenIsSigned
<1>1. Init => CheckHolds
  <2> SUFFICES ASSUME Init PROVE CheckHolds
    OBVIOUS
  <2>1. PICK content \in Contents : commits = <<content>>
    BY DEF Init
  <2>2. runs \in Seq({Queued}) /\ reviews \in Seq({}) /\ commits \in Seq(Contents)
    BY <2>1 DEF Init
  <2>3. runs[1] = Queued /\ Len(runs) = 1 /\ Len(commits) = 1
    BY <2>1 DEF Init
  <2>4. RunsTyped
    BY <2>2, <2>3 DEF RunsTyped
  <2> QED
    BY <2>3, <2>4 DEF CheckHolds, HeadRunIsCurrent, IsCurrent, head
<1>2. CheckHolds /\ [Next]_vars => CheckHolds'
  <2> SUFFICES ASSUME CheckHolds, [Next]_vars PROVE CheckHolds'
    OBVIOUS
  <2>1. CASE UNCHANGED <<author, commits, reviews, runs>>
    <3>1. PICK run : run = runs[head]
      OBVIOUS
    <3>2. UNCHANGED head
      BY <2>1 DEF head
    <3>3. IsCurrent(run)'
      BY <2>1, <3>1, CurrentStays DEF CheckHolds, HeadRunIsCurrent
    <3> QED
      BY <2>1, <3>1, <3>2, <3>3 DEF CheckHolds, RunsTyped, HeadRunIsCurrent
  <2>2. ASSUME NEW sha \in 1 .. head,
               \/ ReadPull(sha) \/ ReadFiles(sha) \/ ReadReviews(sha)
               \/ ReadPermission(sha) \/ Decide(sha) \/ JobFails(sha)
        PROVE  CheckHolds'
    <3>1. PICK run : Goto(sha, run)
      BY <2>2 DEF ReadPull, ReadFiles, ReadReviews, ReadPermission,
         Decide, JobFails
    <3>2. Reads
      BY <2>2 DEF ReadPull, ReadFiles, ReadReviews, ReadPermission,
         Decide, JobFails
    <3>3. sha = head => IsCurrent(run)
      BY <2>2, <3>1, HeadRunReads
    <3> QED
      BY <3>1, <3>2, <3>3, RunGoesOn
  <2> QED
    BY <2>1, <2>2, EventStep DEF Next, ChangePermission, vars
<1>3. CheckHolds => GreenIsSigned
  <2> SUFFICES ASSUME CheckHolds, runs[head].stage = "green", AppointmentIsChanged
               PROVE  Signed(head)
    BY DEF GreenIsSigned, At, AppointmentIsChanged, Content
  <2>1. PICK run : run = runs[head]
    OBVIOUS
  <2>2. IsCurrent(run) /\ run.stage = "green"
    BY <2>1 DEF CheckHolds, HeadRunIsCurrent
  <2>3. run # Queued /\ run # Ended("red") /\ run # Pulled
    BY <2>2, StageOf
  <2>4. \A stage, record, review, writer :
          run = Read(stage, record, review, writer) => stage = "green"
    BY <2>2, StageOf
  <2> QED
    BY <2>2, <2>3, <2>4 DEF IsCurrent
<1> QED
  BY <1>1, <1>2, <1>3, PTL DEF Spec
=============================================================================
