--------------------------- MODULE QuestionAnswers ---------------------------
(***************************************************************************)
(* What the callers of a question store deal with, whatever the store is   *)
(* made of (IQuestionStore): the questions, the stored answers of          *)
(* approvals, and the replies.                                             *)
(***************************************************************************)
EXTENDS QuestionDomain

CONSTANTS
  Requests,      \* HTTP requests
  RetentionTime  \* how long an idempotency record lives: 24 hours

VARIABLES
  questions,   \* id |-> the question, or Null
  idempotency  \* (tenant, key) |-> the stored answer of an approval, or Null

Slots == Tenants \X Keys
SlotOf(c) == <<c.tenant, c.key>>

Fingerprint(c) == <<c.tenant, c.id, c.actor, c.expected>>

StoredApproval ==
  [fingerprint : Tenants \X QuestionIds \X Subjects \X (Nat \ {0}),
   result : Question, expiresAt : Nat]

ASSUME AnswersAssumption ==
  /\ RetentionTime \in Nat \ {0}
  /\ Null \notin Requests
  /\ Null \notin StoredApproval

NotFound == "question.not_found"
Outcomes == {"success", NotFound} \union RefusalCodes

(***************************************************************************)
(* An audit row (AuditRecord.cs).  Its field "request" is a history field: *)
(* the correlation id of the row may be chosen by the client and repeat.   *)
(***************************************************************************)
AuditEntry ==
  [request : Requests, tenant : Tenants, actor : Subjects,
   target : QuestionIds, op : Operations, result : Outcomes, at : Instants]

Entry(r, c, result, now) ==
  [request |-> r, tenant |-> c.tenant, actor |-> c.actor, target |-> c.id,
   op |-> c.op, result |-> result, at |-> now]

KeyReused == "idempotency.key_reused"

Reply ==
  [status : {"none", "ok", "refused", "unavailable"},
   code : Outcomes \union {KeyReused, ""},
   result : Question \union {Null}]

NoReply == [status |-> "none", code |-> "", result |-> Null]
Ok(q) == [status |-> "ok", code |-> "", result |-> q]
Refused(code) == [status |-> "refused", code |-> code, result |-> Null]
Unavailable == [status |-> "unavailable", code |-> "", result |-> Null]
-----------------------------------------------------------------------------
(***************************************************************************)
(* Reads.  A question is visible to the tenant that owns it only.          *)
(***************************************************************************)
\* Mutated form: a lookup by id alone, blind to the tenant.
VisibleToEveryTenant(id, t) == questions[id] # Null

Visible(id, t) == questions[id] # Null /\ questions[id].tenant = t

\* Slot s holds an answer that has not expired at instant at.
Live(s, at) == idempotency[s] # Null /\ idempotency[s].expiresAt > at

\* What an anonymous reader of the public tenant t finds.
PublicQuestions(t) ==
  {id \in QuestionIds : Visible(id, t) /\ questions[id].status = "PUBLISHED"}
-----------------------------------------------------------------------------
(***************************************************************************)
(* The stored answer of an approval, as the approval leaves it.            *)
(***************************************************************************)
\* Mutated form: what is stored is the question as it was before approval.
StoreAnswerBefore(c, q, now) ==
  idempotency' = [idempotency EXCEPT ![SlotOf(c)] =
    [fingerprint |-> Fingerprint(c), result |-> questions[c.id],
     expiresAt |-> now + RetentionTime]]

StoreAnswer(c, q, now) ==
  idempotency' = [idempotency EXCEPT ![SlotOf(c)] =
    [fingerprint |-> Fingerprint(c), result |-> q,
     expiresAt |-> now + RetentionTime]]

\* An expired answer is removed before the key is used again.
DropExpired(c, now) ==
  idempotency' =
    [idempotency EXCEPT ![SlotOf(c)] = IF Live(SlotOf(c), now) THEN @ ELSE Null]

\* What happens to the key of an approval that is refused.
KeyAfterRefusal(c, now) ==
  IF c.op = "approve" THEN DropExpired(c, now) ELSE UNCHANGED idempotency

\* What happens to the key of a command that is accepted.
KeyAfterChange(c, q, now) ==
  IF c.op = "approve" THEN StoreAnswer(c, q, now) ELSE UNCHANGED idempotency
=============================================================================
