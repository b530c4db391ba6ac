---------------------------- MODULE QuestionDomain ----------------------------
(***************************************************************************)
(* The question aggregate (src/ToiNoMori.Domain/Question.cs): the state of *)
(* one question and its five commands, as pure operators that the stores   *)
(* share.  A command is refused with the code of the first rule it breaks  *)
(* or yields the next version of the question.                             *)
(*                                                                         *)
(* Data the rules never look at is abstracted: title, body and tags are    *)
(* one value of Contents, and a reason is the Boolean "a non-blank reason  *)
(* is present".  The rules for a blank subject are left out: a subject is  *)
(* the non-empty "sub" claim of an authenticated principal.                *)
(***************************************************************************)
EXTENDS Integers

CONSTANTS
  Tenants,      \* tenant identifiers
  Subjects,     \* authenticated subjects: owners, editors and reviewers
  QuestionIds,  \* the Guids that Guid.NewGuid() may return
  Contents,     \* title, body and tags of a question, as one value
  Keys,         \* Idempotency-Key header values
  Instants,     \* readings of TimeProvider.GetUtcNow()
  Null          \* SQL NULL, or a row that is not there

Statuses == {"DRAFT", "IN_REVIEW", "PUBLISHED", "WITHDRAWN"}

NoVersion == 0  \* approved_version IS NULL
NoInstant == 0  \* published_at IS NULL

Question ==
  [tenant : Tenants, owner : Subjects, content : Contents,
   status : Statuses, version : Nat \ {0}, updatedAt : Instants,
   publishedAt : Instants \union {NoInstant},
   reviewReason : BOOLEAN, withdrawalReason : BOOLEAN,
   approvedVersion : Nat, approvedBy : Subjects \union {Null}]

(***************************************************************************)
(* A command as it reaches the store.  A field that an operation does not  *)
(* read (the key of an update, the content of an approval) holds any       *)
(* value of its type.                                                      *)
(***************************************************************************)
Operations == {"create", "update", "submit", "return", "approve", "withdraw"}

Command ==
  [op : Operations, tenant : Tenants, id : QuestionIds, actor : Subjects,
   expected : Nat \ {0}, content : Contents, reason : BOOLEAN, key : Keys]

ASSUME DomainAssumption ==
  /\ Instants \subseteq Nat \ {0}
  /\ Null \notin Question
  /\ Null \notin Command
  /\ Null \notin Subjects

\* Mutated form: the constructor leaves the version at its default.
UnversionedQuestion(c, now) ==
  [tenant |-> c.tenant, owner |-> c.actor, content |-> c.content,
   status |-> "DRAFT", version |-> 0, updatedAt |-> now,
   publishedAt |-> NoInstant, reviewReason |-> FALSE,
   withdrawalReason |-> FALSE, approvedVersion |-> NoVersion,
   approvedBy |-> Null]

NewQuestion(c, now) ==
  [tenant |-> c.tenant, owner |-> c.actor, content |-> c.content,
   status |-> "DRAFT", version |-> 1, updatedAt |-> now,
   publishedAt |-> NoInstant, reviewReason |-> FALSE,
   withdrawalReason |-> FALSE, approvedVersion |-> NoVersion,
   approvedBy |-> Null]
-----------------------------------------------------------------------------
(***************************************************************************)
(* The rules, in the order in which the code tries them.                   *)
(***************************************************************************)
Accepted == "accepted"

\* Mutated form: the expected version is not compared.
UpdateAnyVersion(q, c) ==
  IF q.owner # c.actor THEN "question.owner.forbidden"
  ELSE IF q.status # "DRAFT" THEN "question.update.invalid_state"
  ELSE Accepted

UpdateRefusal(q, c) ==
  IF q.owner # c.actor THEN "question.owner.forbidden"
  ELSE IF q.status # "DRAFT" THEN "question.update.invalid_state"
  ELSE IF q.version # c.expected THEN "question.version.conflict"
  ELSE Accepted

SubmitRefusal(q, c) ==
  IF q.owner # c.actor THEN "question.owner.forbidden"
  ELSE IF q.status # "DRAFT" THEN "question.submit.invalid_state"
  ELSE Accepted

ReturnRefusal(q, c) ==
  IF q.status # "IN_REVIEW" THEN "question.return.invalid_state"
  ELSE IF ~c.reason THEN "question.return.reason_required"
  ELSE Accepted

\* Mutated form: the state is not checked.
ApproveAnyState(q, c) ==
  IF q.owner = c.actor THEN "question.approve.self_forbidden"
  ELSE IF q.version # c.expected THEN "question.version.conflict"
  ELSE Accepted

ApproveRefusal(q, c) ==
  IF q.status # "IN_REVIEW" THEN "question.approve.invalid_state"
  ELSE IF q.owner = c.actor THEN "question.approve.self_forbidden"
  ELSE IF q.version # c.expected THEN "question.version.conflict"
  ELSE Accepted

WithdrawRefusal(q, c) ==
  IF q.status # "PUBLISHED" THEN "question.withdraw.invalid_state"
  ELSE IF ~c.reason THEN "question.withdrawal.reason_required"
  ELSE Accepted

Refusal(q, c) ==
  CASE c.op = "update"   -> UpdateRefusal(q, c)
    [] c.op = "submit"   -> SubmitRefusal(q, c)
    [] c.op = "return"   -> ReturnRefusal(q, c)
    [] c.op = "approve"  -> ApproveRefusal(q, c)
    [] c.op = "withdraw" -> WithdrawRefusal(q, c)

RefusalCodes ==
  {"question.owner.forbidden", "question.version.conflict",
   "question.update.invalid_state", "question.submit.invalid_state",
   "question.return.invalid_state", "question.return.reason_required",
   "question.approve.invalid_state", "question.approve.self_forbidden",
   "question.withdraw.invalid_state", "question.withdrawal.reason_required"}
-----------------------------------------------------------------------------
(***************************************************************************)
(* The next version of a question under an accepted command.               *)
(***************************************************************************)
Advance(q, now) == [q EXCEPT !.version = @ + 1, !.updatedAt = now]

Updated(q, c, now) ==
  Advance([q EXCEPT !.content = c.content, !.reviewReason = FALSE], now)

Submitted(q, c, now) ==
  Advance([q EXCEPT !.status = "IN_REVIEW", !.reviewReason = FALSE], now)

Returned(q, c, now) ==
  Advance([q EXCEPT !.status = "DRAFT", !.reviewReason = TRUE], now)

\* Mutated form: the approved version is read after the version advances.
ApprovedAfterAdvance(q, c, now) ==
  Advance([q EXCEPT !.approvedVersion = q.version + 1, !.approvedBy = c.actor,
                    !.status = "PUBLISHED", !.publishedAt = now,
                    !.reviewReason = FALSE], now)

Approved(q, c, now) ==
  Advance([q EXCEPT !.approvedVersion = q.version, !.approvedBy = c.actor,
                    !.status = "PUBLISHED", !.publishedAt = now,
                    !.reviewReason = FALSE], now)

Withdrawn(q, c, now) ==
  Advance([q EXCEPT !.status = "WITHDRAWN", !.reviewReason = FALSE,
                    !.withdrawalReason = TRUE], now)

Apply(q, c, now) ==
  CASE c.op = "update"   -> Updated(q, c, now)
    [] c.op = "submit"   -> Submitted(q, c, now)
    [] c.op = "return"   -> Returned(q, c, now)
    [] c.op = "approve"  -> Approved(q, c, now)
    [] c.op = "withdraw" -> Withdrawn(q, c, now)
=============================================================================
