------------------------- MODULE QuestionDomainProofs -------------------------
(***************************************************************************)
(* Facts about the question aggregate that the proofs about the stores     *)
(* rest on.                                                                *)
(***************************************************************************)
EXTENDS QuestionDomain, TLAPS

Changes == Operations \ {"create"}

LEMMA InstantsAreNat == Instants \subseteq Nat \ {0}
BY DomainAssumption

\* A new question is a draft of version 1 (Question.cs, constructor).
LEMMA NewQuestionType ==
  ASSUME NEW c \in Command, NEW now \in Instants
  PROVE  /\ NewQuestion(c, now) \in Question
         /\ NewQuestion(c, now).version = 1
         /\ NewQuestion(c, now).tenant = c.tenant
         /\ NewQuestion(c, now).updatedAt = now
BY DEF NewQuestion, Question, Command, Statuses, NoVersion, NoInstant

\* A command on a question is accepted or refused with one of the codes.
LEMMA RefusalType ==
  ASSUME NEW q \in Question, NEW c \in Command, c.op \in Changes
  PROVE  Refusal(q, c) \in RefusalCodes \union {Accepted}
<1>1. CASE c.op = "update"
  BY <1>1 DEF Refusal, UpdateRefusal, RefusalCodes
<1>2. CASE c.op = "submit"
  BY <1>2 DEF Refusal, SubmitRefusal, RefusalCodes
<1>3. CASE c.op = "return"
  BY <1>3 DEF Refusal, ReturnRefusal, RefusalCodes
<1>4. CASE c.op = "approve"
  BY <1>4 DEF Refusal, ApproveRefusal, RefusalCodes
<1>5. CASE c.op = "withdraw"
  BY <1>5 DEF Refusal, WithdrawRefusal, RefusalCodes
<1> QED
  BY <1>1, <1>2, <1>3, <1>4, <1>5 DEF Changes, Operations

-----------------------------------------------------------------------------
(***************************************************************************)
(* One assignment to a field of a question keeps it a question and leaves  *)
(* its other fields alone.                                                 *)
(***************************************************************************)
Keeps(p, q, changed) ==
  /\ "tenant" \notin changed => p.tenant = q.tenant
  /\ "owner" \notin changed => p.owner = q.owner
  /\ "content" \notin changed => p.content = q.content
  /\ "status" \notin changed => p.status = q.status
  /\ "version" \notin changed => p.version = q.version
  /\ "updatedAt" \notin changed => p.updatedAt = q.updatedAt
  /\ "approvedVersion" \notin changed => p.approvedVersion = q.approvedVersion
  /\ "approvedBy" \notin changed => p.approvedBy = q.approvedBy

LEMMA SetContent ==
  ASSUME NEW q \in Question, NEW v \in Contents
  PROVE  /\ [q EXCEPT !.content = v] \in Question
         /\ [q EXCEPT !.content = v].content = v
         /\ Keeps([q EXCEPT !.content = v], q, {"content"})
BY DEF Question, Keeps

LEMMA SetStatus ==
  ASSUME NEW q \in Question, NEW v \in Statuses
  PROVE  /\ [q EXCEPT !.status = v] \in Question
         /\ [q EXCEPT !.status = v].status = v
         /\ Keeps([q EXCEPT !.status = v], q, {"status"})
BY DEF Question, Keeps

LEMMA SetVersion ==
  ASSUME NEW q \in Question, NEW v \in Nat \ {0}
  PROVE  /\ [q EXCEPT !.version = v] \in Question
         /\ [q EXCEPT !.version = v].version = v
         /\ Keeps([q EXCEPT !.version = v], q, {"version"})
BY DEF Question, Keeps

LEMMA SetUpdatedAt ==
  ASSUME NEW q \in Question, NEW v \in Instants
  PROVE  /\ [q EXCEPT !.updatedAt = v] \in Question
         /\ [q EXCEPT !.updatedAt = v].updatedAt = v
         /\ Keeps([q EXCEPT !.updatedAt = v], q, {"updatedAt"})
BY DEF Question, Keeps

LEMMA SetPublishedAt ==
  ASSUME NEW q \in Question, NEW v \in Instants
  PROVE  /\ [q EXCEPT !.publishedAt = v] \in Question
         /\ [q EXCEPT !.publishedAt = v].publishedAt = v
         /\ Keeps([q EXCEPT !.publishedAt = v], q, {"publishedAt"})
BY DEF Question, Keeps

LEMMA SetReviewReason ==
  ASSUME NEW q \in Question, NEW v \in BOOLEAN
  PROVE  /\ [q EXCEPT !.reviewReason = v] \in Question
         /\ [q EXCEPT !.reviewReason = v].reviewReason = v
         /\ Keeps([q EXCEPT !.reviewReason = v], q, {"reviewReason"})
BY DEF Question, Keeps

LEMMA SetWithdrawalReason ==
  ASSUME NEW q \in Question, NEW v \in BOOLEAN
  PROVE  /\ [q EXCEPT !.withdrawalReason = v] \in Question
         /\ [q EXCEPT !.withdrawalReason = v].withdrawalReason = v
         /\ Keeps([q EXCEPT !.withdrawalReason = v], q, {"withdrawalReason"})
BY DEF Question, Keeps

LEMMA SetApprovedVersion ==
  ASSUME NEW q \in Question, NEW v \in Nat
  PROVE  /\ [q EXCEPT !.approvedVersion = v] \in Question
         /\ [q EXCEPT !.approvedVersion = v].approvedVersion = v
         /\ Keeps([q EXCEPT !.approvedVersion = v], q, {"approvedVersion"})
BY DEF Question, Keeps

LEMMA SetApprovedBy ==
  ASSUME NEW q \in Question, NEW v \in Subjects
  PROVE  /\ [q EXCEPT !.approvedBy = v] \in Question
         /\ [q EXCEPT !.approvedBy = v].approvedBy = v
         /\ Keeps([q EXCEPT !.approvedBy = v], q, {"approvedBy"})
BY DEF Question, Keeps

\* An update replaces the content (Question.cs, Update).
LEMMA UpdatedEffect ==
  ASSUME NEW q \in Question, NEW c \in Command, NEW now \in Instants,
         c.op = "update"
  PROVE  LET p == Apply(q, c, now)
         IN  /\ p \in Question
             /\ p.version = q.version + 1
             /\ p.updatedAt = now
             /\ p.content = c.content
             /\ Keeps(p, q, {"content", "version", "updatedAt"})
<1> DEFINE p1 == [q EXCEPT !.content = c.content]
<1> DEFINE p2 == [p1 EXCEPT !.reviewReason = FALSE]
<1> DEFINE p3 == [p2 EXCEPT !.version = p2.version + 1]
<1> DEFINE p4 == [p3 EXCEPT !.updatedAt = now]
<1>0. Apply(q, c, now) = p4
  BY DEF Apply, Updated, Advance
<1>1. p1 \in Question /\ p1.content = c.content /\ Keeps(p1, q, {"content"})
  BY SetContent DEF Command
<1> HIDE DEF p1
<1>2. p2 \in Question /\ p2.reviewReason = FALSE /\ Keeps(p2, p1, {"reviewReason"})
  BY SetReviewReason, <1>1
<1> HIDE DEF p2
<1>3. p3 \in Question /\ p3.version = p2.version + 1 /\ Keeps(p3, p2, {"version"})
  BY SetVersion, <1>2 DEF Question
<1> HIDE DEF p3
<1>4. p4 \in Question /\ p4.updatedAt = now /\ Keeps(p4, p3, {"updatedAt"})
  BY SetUpdatedAt, <1>3
<1> HIDE DEF p4
<1> QED
  BY <1>0, <1>1, <1>2, <1>3, <1>4 DEF Keeps

\* A submission puts the question in review (Question.cs, Submit).
LEMMA SubmittedEffect ==
  ASSUME NEW q \in Question, NEW c \in Command, NEW now \in Instants,
         c.op = "submit"
  PROVE  LET p == Apply(q, c, now)
         IN  /\ p \in Question
             /\ p.version = q.version + 1
             /\ p.updatedAt = now
             /\ p.status = "IN_REVIEW"
             /\ Keeps(p, q, {"status", "version", "updatedAt"})
<1> DEFINE p1 == [q EXCEPT !.status = "IN_REVIEW"]
<1> DEFINE p2 == [p1 EXCEPT !.reviewReason = FALSE]
<1> DEFINE p3 == [p2 EXCEPT !.version = p2.version + 1]
<1> DEFINE p4 == [p3 EXCEPT !.updatedAt = now]
<1>0. Apply(q, c, now) = p4
  BY DEF Apply, Submitted, Advance
<1>1. p1 \in Question /\ p1.status = "IN_REVIEW" /\ Keeps(p1, q, {"status"})
  BY SetStatus DEF Statuses
<1> HIDE DEF p1
<1>2. p2 \in Question /\ p2.reviewReason = FALSE /\ Keeps(p2, p1, {"reviewReason"})
  BY SetReviewReason, <1>1
<1> HIDE DEF p2
<1>3. p3 \in Question /\ p3.version = p2.version + 1 /\ Keeps(p3, p2, {"version"})
  BY SetVersion, <1>2 DEF Question
<1> HIDE DEF p3
<1>4. p4 \in Question /\ p4.updatedAt = now /\ Keeps(p4, p3, {"updatedAt"})
  BY SetUpdatedAt, <1>3
<1> HIDE DEF p4
<1> QED
  BY <1>0, <1>1, <1>2, <1>3, <1>4 DEF Keeps

\* A return makes it a draft again (Question.cs, ReturnForChanges).
LEMMA ReturnedEffect ==
  ASSUME NEW q \in Question, NEW c \in Command, NEW now \in Instants,
         c.op = "return"
  PROVE  LET p == Apply(q, c, now)
         IN  /\ p \in Question
             /\ p.version = q.version + 1
             /\ p.updatedAt = now
             /\ p.status = "DRAFT"
             /\ Keeps(p, q, {"status", "version", "updatedAt"})
<1> DEFINE p1 == [q EXCEPT !.status = "DRAFT"]
<1> DEFINE p2 == [p1 EXCEPT !.reviewReason = TRUE]
<1> DEFINE p3 == [p2 EXCEPT !.version = p2.version + 1]
<1> DEFINE p4 == [p3 EXCEPT !.updatedAt = now]
<1>0. Apply(q, c, now) = p4
  BY DEF Apply, Returned, Advance
<1>1. p1 \in Question /\ p1.status = "DRAFT" /\ Keeps(p1, q, {"status"})
  BY SetStatus DEF Statuses
<1> HIDE DEF p1
<1>2. p2 \in Question /\ p2.reviewReason = TRUE /\ Keeps(p2, p1, {"reviewReason"})
  BY SetReviewReason, <1>1
<1> HIDE DEF p2
<1>3. p3 \in Question /\ p3.version = p2.version + 1 /\ Keeps(p3, p2, {"version"})
  BY SetVersion, <1>2 DEF Question
<1> HIDE DEF p3
<1>4. p4 \in Question /\ p4.updatedAt = now /\ Keeps(p4, p3, {"updatedAt"})
  BY SetUpdatedAt, <1>3
<1> HIDE DEF p4
<1> QED
  BY <1>0, <1>1, <1>2, <1>3, <1>4 DEF Keeps

\* An approval publishes the version it names (Question.cs, Approve).
LEMMA ApprovedEffect ==
  ASSUME NEW q \in Question, NEW c \in Command, NEW now \in Instants,
         c.op = "approve"
  PROVE  LET p == Apply(q, c, now)
         IN  /\ p \in Question
             /\ p.version = q.version + 1
             /\ p.updatedAt = now
             /\ p.status = "PUBLISHED"
             /\ p.approvedVersion = q.version
             /\ p.approvedBy = c.actor
             /\ Keeps(p, q, {"approvedVersion", "approvedBy", "status", "version", "updatedAt"})
<1> DEFINE p1 == [q EXCEPT !.approvedVersion = q.version]
<1> DEFINE p2 == [p1 EXCEPT !.approvedBy = c.actor]
<1> DEFINE p3 == [p2 EXCEPT !.status = "PUBLISHED"]
<1> DEFINE p4 == [p3 EXCEPT !.publishedAt = now]
<1> DEFINE p5 == [p4 EXCEPT !.reviewReason = FALSE]
<1> DEFINE p6 == [p5 EXCEPT !.version = p5.version + 1]
<1> DEFINE p7 == [p6 EXCEPT !.updatedAt = now]
<1>0. Apply(q, c, now) = p7
  BY DEF Apply, Approved, Advance
<1>1. p1 \in Question /\ p1.approvedVersion = q.version /\ Keeps(p1, q, {"approvedVersion"})
  BY SetApprovedVersion DEF Question
<1> HIDE DEF p1
<1>2. p2 \in Question /\ p2.approvedBy = c.actor /\ Keeps(p2, p1, {"approvedBy"})
  BY SetApprovedBy, <1>1 DEF Command
<1> HIDE DEF p2
<1>3. p3 \in Question /\ p3.status = "PUBLISHED" /\ Keeps(p3, p2, {"status"})
  BY SetStatus, <1>2 DEF Statuses
<1> HIDE DEF p3
<1>4. p4 \in Question /\ p4.publishedAt = now /\ Keeps(p4, p3, {"publishedAt"})
  BY SetPublishedAt, <1>3
<1> HIDE DEF p4
<1>5. p5 \in Question /\ p5.reviewReason = FALSE /\ Keeps(p5, p4, {"reviewReason"})
  BY SetReviewReason, <1>4
<1> HIDE DEF p5
<1>6. p6 \in Question /\ p6.version = p5.version + 1 /\ Keeps(p6, p5, {"version"})
  BY SetVersion, <1>5 DEF Question
<1> HIDE DEF p6
<1>7. p7 \in Question /\ p7.updatedAt = now /\ Keeps(p7, p6, {"updatedAt"})
  BY SetUpdatedAt, <1>6
<1> HIDE DEF p7
<1> QED
  BY <1>0, <1>1, <1>2, <1>3, <1>4, <1>5, <1>6, <1>7 DEF Keeps

\* A withdrawal ends publication (Question.cs, Withdraw).
LEMMA WithdrawnEffect ==
  ASSUME NEW q \in Question, NEW c \in Command, NEW now \in Instants,
         c.op = "withdraw"
  PROVE  LET p == Apply(q, c, now)
         IN  /\ p \in Question
             /\ p.version = q.version + 1
             /\ p.updatedAt = now
             /\ p.status = "WITHDRAWN"
             /\ Keeps(p, q, {"status", "version", "updatedAt"})
<1> DEFINE p1 == [q EXCEPT !.status = "WITHDRAWN"]
<1> DEFINE p2 == [p1 EXCEPT !.reviewReason = FALSE]
<1> DEFINE p3 == [p2 EXCEPT !.withdrawalReason = TRUE]
<1> DEFINE p4 == [p3 EXCEPT !.version = p3.version + 1]
<1> DEFINE p5 == [p4 EXCEPT !.updatedAt = now]
<1>0. Apply(q, c, now) = p5
  BY DEF Apply, Withdrawn, Advance
<1>1. p1 \in Question /\ p1.status = "WITHDRAWN" /\ Keeps(p1, q, {"status"})
  BY SetStatus DEF Statuses
<1> HIDE DEF p1
<1>2. p2 \in Question /\ p2.reviewReason = FALSE /\ Keeps(p2, p1, {"reviewReason"})
  BY SetReviewReason, <1>1
<1> HIDE DEF p2
<1>3. p3 \in Question /\ p3.withdrawalReason = TRUE /\ Keeps(p3, p2, {"withdrawalReason"})
  BY SetWithdrawalReason, <1>2
<1> HIDE DEF p3
<1>4. p4 \in Question /\ p4.version = p3.version + 1 /\ Keeps(p4, p3, {"version"})
  BY SetVersion, <1>3 DEF Question
<1> HIDE DEF p4
<1>5. p5 \in Question /\ p5.updatedAt = now /\ Keeps(p5, p4, {"updatedAt"})
  BY SetUpdatedAt, <1>4
<1> HIDE DEF p5
<1> QED
  BY <1>0, <1>1, <1>2, <1>3, <1>4, <1>5 DEF Keeps

\* Every command yields the next version of a well-formed question of the same
\* tenant and owner (Question.cs, Advance: Version++, UpdatedAt = now).
LEMMA ApplyType ==
  ASSUME NEW q \in Question, NEW c \in Command, NEW now \in Instants,
         c.op \in Changes
  PROVE  /\ Apply(q, c, now) \in Question
         /\ Apply(q, c, now).version = q.version + 1
         /\ Apply(q, c, now).tenant = q.tenant
         /\ Apply(q, c, now).owner = q.owner
         /\ Apply(q, c, now).updatedAt = now
BY UpdatedEffect, SubmittedEffect, ReturnedEffect, ApprovedEffect, WithdrawnEffect
   DEF Changes, Operations, Keeps
=============================================================================
