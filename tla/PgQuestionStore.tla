---------------------------- MODULE PgQuestionStore ----------------------------
(***************************************************************************)
(* PostgreSqlQuestionStore: every request is a process that runs one       *)
(* READ COMMITTED transaction.  The steps of a transaction are the points  *)
(* where it waits or where another transaction may get in between: taking  *)
(* the advisory lock of the idempotency key, reading the stored answer,    *)
(* SELECT ... FOR UPDATE, and COMMIT.  What a transaction writes is        *)
(* invisible until it commits, so the writes belong to its commit step.    *)
(*                                                                         *)
(* Connections fail, statements time out and processes crash: before       *)
(* COMMIT that rolls the transaction back (LoseConnection); at COMMIT the  *)
(* transaction may be durable although the caller is told 503 (a commit    *)
(* step whose "answered" is FALSE).  A retry is another request that       *)
(* carries the same command.                                               *)
(***************************************************************************)
EXTENDS QuestionTables, FiniteSets

CONSTANTS
  Commands,    \* the commands that clients send
  MaxInFlight, \* bound: how many requests are served at the same time
  MaxFailures  \* bound: how many requests end in a lost connection or answer

ASSUME StoreAssumption ==
  /\ Commands \subseteq Command
  /\ MaxInFlight \in Nat \ {0}
  /\ MaxFailures \in Nat

VARIABLES
  pc,       \* where the handler of a request is
  command,  \* what the request asks for, Null until it arrives
  now,      \* the handler's one reading of the clock
  view,     \* the row as the transaction has read it, or Null
  reply,    \* what the caller was told
  rowLock,  \* question |-> the request whose FOR UPDATE holds its row
  keyLock,  \* slot |-> the request that holds its advisory lock
  clock

handlers == <<pc, command, now, view, reply>>
locks == <<rowLock, keyLock>>
vars == <<tables, handlers, locks, clock>>

Steps == {"idle", "insert", "lockKey", "lookup", "load", "decide", "done"}

InFlight == {r \in Requests : pc[r] \notin {"idle", "done"}}

Init ==
  /\ EmptyTables
  /\ pc = [r \in Requests |-> "idle"]
  /\ command = [r \in Requests |-> Null]
  /\ now = [r \in Requests |-> NoInstant]
  /\ view = [r \in Requests |-> Null]
  /\ reply = [r \in Requests |-> NoReply]
  /\ rowLock = [id \in QuestionIds |-> Null]
  /\ keyLock = [s \in Slots |-> Null]
  /\ clock \in Instants
-----------------------------------------------------------------------------
(***************************************************************************)
(* A request arrives.  The clock is read here: before the connection is    *)
(* opened (CreateAsync, MutateAsync) or before the advisory lock is waited *)
(* for (ApproveAsync), in any case before the row is locked.               *)
(***************************************************************************)
FirstStep(c) ==
  CASE c.op = "create"  -> "insert"
    [] c.op = "approve" -> "lockKey"
    [] OTHER            -> "load"

\* The id of a new question is Guid.NewGuid(): no request has named it before,
\* and none can name it before its row is there to be read.
Nameable(c) ==
  \A r \in Requests :
    command[r] # Null /\ (c.op = "create" \/ pc[r] = "insert") => command[r].id # c.id

Receive(r, c) ==
  /\ pc[r] = "idle"
  /\ Cardinality(InFlight) < MaxInFlight
  /\ Nameable(c)
  /\ command' = [command EXCEPT ![r] = c]
  /\ now' = [now EXCEPT ![r] = clock]
  /\ pc' = [pc EXCEPT ![r] = FirstStep(c)]
  /\ UNCHANGED <<tables, view, reply, locks, clock>>
-----------------------------------------------------------------------------
(***************************************************************************)
(* The end of a transaction: its locks are released and the caller is      *)
(* answered, or told 503 when the answer of the server is lost.            *)
(***************************************************************************)
\* Mutated form: the advisory lock belongs to the session, not the transaction.
KeepKeyLock(r) ==
  /\ rowLock' = [id \in QuestionIds |-> IF rowLock[id] = r THEN Null ELSE rowLock[id]]
  /\ UNCHANGED keyLock

ReleaseLocks(r) ==
  /\ rowLock' = [id \in QuestionIds |-> IF rowLock[id] = r THEN Null ELSE rowLock[id]]
  /\ keyLock' = [s \in Slots |-> IF keyLock[s] = r THEN Null ELSE keyLock[s]]

Finish(r, rep) ==
  /\ pc' = [pc EXCEPT ![r] = "done"]
  /\ view' = [view EXCEPT ![r] = Null]
  /\ reply' = [reply EXCEPT ![r] = rep]
  /\ ReleaseLocks(r)
  /\ UNCHANGED <<command, now, clock>>

MayFail == Cardinality({r \in Requests : reply[r] = Unavailable}) < MaxFailures

Answer(answered, rep) == IF answered THEN rep ELSE Unavailable

LoseConnection(r) ==
  /\ r \in InFlight
  /\ MayFail
  /\ Finish(r, Unavailable)
  /\ UNCHANGED tables
-----------------------------------------------------------------------------
(***************************************************************************)
(* CreateAsync.                                                            *)
(***************************************************************************)
InsertQuestion(r, answered) ==
  LET c == command[r]
      q == NewQuestion(c, now[r])
  IN /\ pc[r] = "insert"
     /\ questions[c.id] = Null
     /\ RecordChange(r, c, q, now[r])
     /\ UNCHANGED idempotency
     /\ Finish(r, Answer(answered, Ok(q)))
-----------------------------------------------------------------------------
(***************************************************************************)
(* ApproveAsync up to the load of the question.                            *)
(***************************************************************************)
\* Mutated form: the approvals of one key are not serialised.
SkipKeyLock(r) ==
  /\ pc[r] = "lockKey"
  /\ pc' = [pc EXCEPT ![r] = "lookup"]
  /\ UNCHANGED <<tables, command, now, view, reply, locks, clock>>

LockKey(r) ==
  /\ pc[r] = "lockKey"
  /\ keyLock[SlotOf(command[r])] = Null
  /\ keyLock' = [keyLock EXCEPT ![SlotOf(command[r])] = r]
  /\ pc' = [pc EXCEPT ![r] = "lookup"]
  /\ UNCHANGED <<tables, command, now, view, reply, rowLock, clock>>

ReplayAnswer(r, answered) ==
  LET s == SlotOf(command[r])
  IN /\ pc[r] = "lookup"
     /\ Live(s, now[r])
     /\ idempotency[s].fingerprint = Fingerprint(command[r])
     /\ Finish(r, Answer(answered, Ok(idempotency[s].result)))
     /\ UNCHANGED tables

RefuseReusedKey(r) ==
  LET s == SlotOf(command[r])
  IN /\ pc[r] = "lookup"
     /\ Live(s, now[r])
     /\ idempotency[s].fingerprint # Fingerprint(command[r])
     /\ Finish(r, Refused(KeyReused))
     /\ UNCHANGED tables

MissKey(r) ==
  /\ pc[r] = "lookup"
  /\ ~Live(SlotOf(command[r]), now[r])
  /\ pc' = [pc EXCEPT ![r] = "load"]
  /\ UNCHANGED <<tables, command, now, view, reply, locks, clock>>
-----------------------------------------------------------------------------
(***************************************************************************)
(* LoadRequiredAsync: SELECT ... FOR UPDATE waits for the row's lock and   *)
(* then returns the newest committed row, or nothing, at once, when no row *)
(* is visible to the tenant.                                               *)
(***************************************************************************)
\* Mutated form: SELECT without FOR UPDATE.
ReadRow(r) ==
  LET c == command[r]
  IN /\ pc[r] = "load"
     /\ Visible(c.id, c.tenant)
     /\ view' = [view EXCEPT ![r] = questions[c.id]]
     /\ pc' = [pc EXCEPT ![r] = "decide"]
     /\ UNCHANGED <<tables, command, now, reply, locks, clock>>

LockRow(r) ==
  LET c == command[r]
  IN /\ pc[r] = "load"
     /\ Visible(c.id, c.tenant)
     /\ rowLock[c.id] = Null
     /\ rowLock' = [rowLock EXCEPT ![c.id] = r]
     /\ view' = [view EXCEPT ![r] = questions[c.id]]
     /\ pc' = [pc EXCEPT ![r] = "decide"]
     /\ UNCHANGED <<tables, command, now, reply, keyLock, clock>>

MissRow(r) ==
  LET c == command[r]
  IN /\ pc[r] = "load"
     /\ ~Visible(c.id, c.tenant)
     /\ pc' = [pc EXCEPT ![r] = "decide"]
     /\ UNCHANGED <<tables, command, now, view, reply, locks, clock>>
-----------------------------------------------------------------------------
(***************************************************************************)
(* The decision of the aggregate on the loaded row, and COMMIT.            *)
(***************************************************************************)
\* Why the transaction refuses its command, or Accepted.
Verdict(r) ==
  IF view[r] = Null THEN NotFound ELSE Refusal(view[r], command[r])

\* uq_revisions_tenant_question_version: an INSERT that breaks it fails, which
\* LoseConnection stands for.
NewRevision(id, version) ==
  \A rev \in revisions : rev.id = id => rev.question.version # version

\* pk idempotency_records (tenant_id, idempotency_key)
KeyIsFree(r) ==
  command[r].op = "approve" => ~Live(SlotOf(command[r]), now[r])

\* Mutated form: the verdict of the aggregate is ignored.
CommitUnjudged(r, answered) ==
  LET c == command[r]
      q == Apply(view[r], c, now[r])
  IN /\ pc[r] = "decide"
     /\ view[r] # Null
     /\ NewRevision(c.id, q.version)
     /\ RecordChange(r, c, q, now[r])
     /\ KeyAfterChange(c, q, now[r])
     /\ Finish(r, Answer(answered, Ok(q)))

CommitChange(r, answered) ==
  LET c == command[r]
      q == Apply(view[r], c, now[r])
  IN /\ pc[r] = "decide"
     /\ Verdict(r) = Accepted
     /\ NewRevision(c.id, q.version)
     /\ KeyIsFree(r)
     /\ RecordChange(r, c, q, now[r])
     /\ KeyAfterChange(c, q, now[r])
     /\ Finish(r, Answer(answered, Ok(q)))

CommitRefusal(r, answered) ==
  LET c == command[r]
  IN /\ pc[r] = "decide"
     /\ Verdict(r) # Accepted
     /\ RecordRefusal(r, c, Verdict(r), now[r])
     /\ KeyAfterRefusal(c, now[r])
     /\ Finish(r, Answer(answered, Refused(Verdict(r))))

Tick ==
  /\ clock + 1 \in Instants
  /\ clock' = clock + 1
  /\ UNCHANGED <<tables, handlers, locks>>
-----------------------------------------------------------------------------
Commit(r) ==
  \E answered \in BOOLEAN :
    /\ answered \/ MayFail
    /\ \/ InsertQuestion(r, answered)
       \/ ReplayAnswer(r, answered)
       \/ CommitChange(r, answered)
       \/ CommitRefusal(r, answered)

Handle(r) ==
  \/ LockKey(r)
  \/ RefuseReusedKey(r)
  \/ MissKey(r)
  \/ LockRow(r)
  \/ MissRow(r)
  \/ Commit(r)

Next ==
  \/ \E r \in Requests, c \in Commands : Receive(r, c)
  \/ \E r \in Requests : Handle(r) \/ LoseConnection(r)
  \/ Tick

Spec == Init /\ [][Next]_vars

(***************************************************************************)
(* Every awaited database call returns: a statement that is not blocked    *)
(* completes.  The two lock queues of PostgreSQL are first in first out,   *)
(* hence strong fairness for the steps that wait in them.  Nothing is      *)
(* assumed of arrivals, of the clock, or of failures.                      *)
(***************************************************************************)
Fairness ==
  \A r \in Requests :
    /\ SF_vars(LockKey(r))
    /\ SF_vars(LockRow(r))
    /\ WF_vars(RefuseReusedKey(r) \/ MissKey(r) \/ MissRow(r) \/ Commit(r))

FairSpec == Spec /\ Fairness
-----------------------------------------------------------------------------
(***************************************************************************)
(* Rows, revisions, audit entries, stored answers, handlers and locks keep *)
(* their types; a version is at least 1 (CHECK (version >= 1)).            *)
(***************************************************************************)
TypeOK ==
  /\ questions \in [QuestionIds -> Question \union {Null}]
  /\ publishedRevision \in [QuestionIds -> Nat]
  /\ revisions \subseteq Revision
  /\ audit \subseteq AuditEntry
  /\ idempotency \in [Slots -> StoredApproval \union {Null}]
  /\ pc \in [Requests -> Steps]
  /\ command \in [Requests -> Commands \union {Null}]
  /\ now \in [Requests -> Instants \union {NoInstant}]
  /\ view \in [Requests -> Question \union {Null}]
  /\ reply \in [Requests -> Reply]
  /\ rowLock \in [QuestionIds -> Requests \union {Null}]
  /\ keyLock \in [Slots -> Requests \union {Null}]
  /\ clock \in Instants

(***************************************************************************)
(* The row a handler decides on is still the committed row: nobody changes *)
(* it between SELECT ... FOR UPDATE and COMMIT, and a row that was missing *)
(* does not appear.                                                        *)
(***************************************************************************)
DecisionIsCurrent ==
  \A r \in Requests :
    pc[r] = "decide" =>
      IF view[r] = Null
      THEN ~Visible(command[r].id, command[r].tenant)
      ELSE view[r] = questions[command[r].id]

(***************************************************************************)
(* The revisions of a question are a serial history: version 1 is what     *)
(* create wrote, and every later version is the result of one accepted     *)
(* command on the version before it, so that no update is lost, none is    *)
(* applied twice and an expected version is the one the command replaced.  *)
(***************************************************************************)
Follows(rev, prev) ==
  LET c == command[rev.request]
  IN /\ prev.id = rev.id
     /\ c.op # "create"
     /\ Refusal(prev.question, c) = Accepted
     /\ rev.question = Apply(prev.question, c, now[rev.request])

LawfulHistory ==
  \A rev \in revisions :
    /\ command[rev.request].id = rev.id
    /\ \/ /\ command[rev.request].op = "create"
          /\ rev.question = NewQuestion(command[rev.request], now[rev.request])
       \/ \E prev \in revisions : Follows(rev, prev)

(***************************************************************************)
(* No update is lost: an edit or an approval that took effect replaced the *)
(* very version its caller had read (If-Match), never a newer one.         *)
(***************************************************************************)
NoLostUpdate ==
  \A rev \in revisions :
    command[rev.request].op \in {"update", "approve"} =>
      rev.question.version = command[rev.request].expected + 1

(***************************************************************************)
(* The row of a question is its revision of the same version, no revision  *)
(* is newer, and versions and requests identify revisions.                 *)
(***************************************************************************)
RowIsNewestRevision ==
  /\ \A id \in QuestionIds :
       questions[id] # Null =>
         \E rev \in revisions : rev.id = id /\ rev.question = questions[id]
  /\ \A rev \in revisions :
       /\ questions[rev.id] # Null
       /\ rev.question.version <= questions[rev.id].version
  /\ \A rev, other \in revisions :
       \/ rev = other
       \/ /\ rev.request # other.request
          /\ rev.id = other.id => rev.question.version # other.question.version

(***************************************************************************)
(* ADR-0002: state change and success audit are one transaction.  Every    *)
(* revision has its success row in the audit, every success row has its    *)
(* revision, and no request has two rows.                                  *)
(***************************************************************************)
AuditMatchesHistory ==
  /\ \A rev \in revisions :
       \E e \in audit :
         /\ e.request = rev.request
         /\ e.target = rev.id
         /\ e.result = "success"
         /\ e.at = rev.question.updatedAt
  /\ \A e \in audit :
       e.result = "success" => \E rev \in revisions : rev.request = e.request
  /\ \A e, other \in audit : e.request = other.request => e = other

(***************************************************************************)
(* What an anonymous reader can see is what a reviewer other than the      *)
(* owner approved: the published revision is the approved version, was in  *)
(* review then, holds the content that is shown, and some approval named   *)
(* exactly that version.                                                   *)
(***************************************************************************)
PublicIsReviewed ==
  \A t \in Tenants : \A id \in PublicQuestions(t) :
    /\ publishedRevision[id] = questions[id].approvedVersion
    /\ \E rev \in revisions :
         /\ rev.id = id
         /\ rev.question.version = publishedRevision[id]
         /\ rev.question.status = "IN_REVIEW"
         /\ rev.question.content = questions[id].content
    /\ \E r \in Requests :
         /\ command[r] # Null
         /\ command[r].op = "approve"
         /\ command[r].id = id
         /\ command[r].actor = questions[id].approvedBy
         /\ command[r].actor # questions[id].owner
         /\ command[r].expected = publishedRevision[id]

(***************************************************************************)
(* A stored answer is the committed result of the approval that its key    *)
(* and fingerprint name, and lives for RetentionTime after that approval.  *)
(***************************************************************************)
StoredAnswersAreCommitted ==
  \A s \in Slots :
    idempotency[s] # Null =>
      \E rev \in revisions :
        LET c == command[rev.request]
        IN /\ c.op = "approve"
           /\ SlotOf(c) = s
           /\ Fingerprint(c) = idempotency[s].fingerprint
           /\ rev.question = idempotency[s].result
           /\ idempotency[s].expiresAt = now[rev.request] + RetentionTime

(***************************************************************************)
(* The tables of the question store agree with each other.                 *)
(***************************************************************************)
TablesAgree == RowIsNewestRevision /\ AuditMatchesHistory

(***************************************************************************)
(* A caller is told the truth.  "ok" names a durable revision, made by the *)
(* request itself or, for an approval, by an earlier one with the same key *)
(* and fingerprint.  A refusal left the question alone and is audited,     *)
(* except for a reused key, which is not.                                  *)
(***************************************************************************)
SameApproval(c, d) ==
  /\ c.op = "approve" /\ d.op = "approve"
  /\ SlotOf(c) = SlotOf(d)
  /\ Fingerprint(c) = Fingerprint(d)

OkIsDurable(r) ==
  reply[r].status = "ok" =>
    \E rev \in revisions :
      /\ rev.id = command[r].id
      /\ rev.question = reply[r].result
      /\ \/ rev.request = r
         \/ SameApproval(command[rev.request], command[r])

RefusalIsAudited(r) ==
  reply[r].status = "refused" =>
    /\ \A rev \in revisions : rev.request # r
    /\ IF reply[r].code = KeyReused
       THEN \A e \in audit : e.request # r
       ELSE \E e \in audit : e.request = r /\ e.result = reply[r].code

AnswersAreTrue == \A r \in Requests : OkIsDurable(r) /\ RefusalIsAudited(r)

(***************************************************************************)
(* One approval of a question takes effect in its whole life, whatever     *)
(* keys the approvals carry, however often they are retried, and even      *)
(* after the stored answer has expired.                                    *)
(***************************************************************************)
ApprovedOnce ==
  \A rev, other \in revisions :
    /\ rev.id = other.id
    /\ command[rev.request].op = "approve"
    /\ command[other.request].op = "approve"
    => rev = other

(***************************************************************************)
(* A request sees and changes only questions of its own tenant: the other  *)
(* tenants' questions are answered as if they did not exist.               *)
(***************************************************************************)
TenantIsolation ==
  /\ \A rev \in revisions :
       rev.question.tenant = command[rev.request].tenant
  /\ \A r \in Requests :
       /\ reply[r].status = "ok" =>
            reply[r].result.tenant = command[r].tenant
       /\ /\ reply[r].status = "refused"
          /\ questions[command[r].id] # Null
          /\ questions[command[r].id].tenant # command[r].tenant
          => reply[r].code \in {NotFound, KeyReused}

(***************************************************************************)
(* The retry of an approval that has taken effect is not refused while its *)
(* answer is stored: it is replayed (or it fails as unavailable).          *)
(***************************************************************************)
RetryIsNotRefused ==
  [][\A r \in Requests :
       /\ reply[r].status # "refused"
       /\ reply'[r].status = "refused"
       => \A rev \in revisions :
            SameApproval(command[rev.request], command[r])
              => clock >= now[rev.request] + RetentionTime]_vars

(***************************************************************************)
(* Every request that arrives is answered: no handler waits for ever for   *)
(* an advisory lock or a row lock, with no help from failures.             *)
(***************************************************************************)
EveryRequestIsAnswered ==
  \A r \in Requests : pc[r] \notin {"idle", "done"} ~> pc[r] = "done"

(***************************************************************************)
(* The store implements its promise: every committed transaction is one    *)
(* atomic step of the ledger and every other step leaves the tables alone. *)
(***************************************************************************)
Ledger == INSTANCE QuestionLedger WITH
  questions <- questions, publishedRevision <- publishedRevision,
  revisions <- revisions, audit <- audit, idempotency <- idempotency
LedgerSpec == Ledger!Spec

(***************************************************************************)
(* The store keeps the contract of IQuestionStore: what each caller is     *)
(* told is the result of one atomic step, taken at once, in spite of locks *)
(* waited for, connections lost and answers replayed.                      *)
(***************************************************************************)
Contract == INSTANCE QuestionContract WITH
  questions <- questions, idempotency <- idempotency,
  command <- command, reply <- reply
ContractSpec == Contract!Spec
=============================================================================
