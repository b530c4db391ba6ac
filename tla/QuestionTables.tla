---------------------------- MODULE QuestionTables ----------------------------
(***************************************************************************)
(* The PostgreSQL tables of the question store (Persistence/Migrations)    *)
(* and the writes of PostgreSqlQuestionStore, as operators on them.  The   *)
(* variables hold the committed contents.                                  *)
(*                                                                         *)
(* A question_revisions row is [id, question, request]: the question it is *)
(* a revision of, the snapshot it records, and, as a history field, the    *)
(* request that wrote it.  Its Guid is abstracted to (id, version), which  *)
(* uq_revisions_tenant_question_version keeps unique.                      *)
(***************************************************************************)
EXTENDS QuestionAnswers

VARIABLES
  publishedRevision,  \* id |-> published_revision_id: a version, or NoVersion
  revisions,          \* rows of question_revisions
  audit               \* rows of audit_events

tables == <<questions, publishedRevision, revisions, audit, idempotency>>

Revision == [id : QuestionIds, question : Question, request : Requests]

EmptyTables ==
  /\ questions = [id \in QuestionIds |-> Null]
  /\ publishedRevision = [id \in QuestionIds |-> NoVersion]
  /\ revisions = {}
  /\ audit = {}
  /\ idempotency = [s \in Slots |-> Null]
-----------------------------------------------------------------------------
(***************************************************************************)
(* Writes of one transaction.                                              *)
(***************************************************************************)
\* The sub-select of UpdateQuestionAsync.  It runs before InsertRevisionAsync,
\* so that it finds a revision that an earlier transaction has written.
PublishedRevisionOf(id, q) ==
  IF \E rev \in revisions :
       rev.id = id /\ rev.question.version = q.approvedVersion
  THEN q.approvedVersion
  ELSE NoVersion

\* Mutated form: the success is not audited in the same transaction.
RecordUnaudited(r, c, q, now) ==
  /\ questions' = [questions EXCEPT ![c.id] = q]
  /\ publishedRevision' =
       [publishedRevision EXCEPT ![c.id] = PublishedRevisionOf(c.id, q)]
  /\ revisions' =
       revisions \union {[id |-> c.id, question |-> q, request |-> r]}
  /\ UNCHANGED audit

\* UpdateQuestionAsync, InsertRevisionAsync and InsertAuditAsync.
RecordChange(r, c, q, now) ==
  /\ questions' = [questions EXCEPT ![c.id] = q]
  /\ publishedRevision' =
       [publishedRevision EXCEPT ![c.id] = PublishedRevisionOf(c.id, q)]
  /\ revisions' =
       revisions \union {[id |-> c.id, question |-> q, request |-> r]}
  /\ audit' = audit \union {Entry(r, c, "success", now)}

\* Mutated form: the exception rolls the transaction back, audit row included.
RollBackRefusal(r, c, code, now) ==
  UNCHANGED <<questions, publishedRevision, revisions, audit>>

\* InsertAuditAsync on the path of a DomainRuleViolationException.
RecordRefusal(r, c, code, now) ==
  /\ audit' = audit \union {Entry(r, c, code, now)}
  /\ UNCHANGED <<questions, publishedRevision, revisions>>
=============================================================================
