------------------------- MODULE PgQuestionStoreProofs -------------------------
(***************************************************************************)
(* Theorems about PgQuestionStore for every set of requests, commands,     *)
(* questions, tenants, keys and instants: its types, what its locks are    *)
(* for, and that it implements QuestionLedger and QuestionContract.        *)
(***************************************************************************)
EXTENDS PgQuestionStore, QuestionDomainProofs

(***************************************************************************)
(* Where a handler is says what its request is: the steps of an approval   *)
(* are taken by approvals only, and so on.                                 *)
(***************************************************************************)
StepsFitCommand ==
  \A r \in Requests :
    /\ pc[r] = "idle" <=> command[r] = Null
    /\ pc[r] # "idle" => now[r] \in Instants
    /\ pc[r] = "insert" => command[r].op = "create"
    /\ pc[r] \in {"lockKey", "lookup"} => command[r].op = "approve"
    /\ pc[r] \in {"load", "decide"} => command[r].op # "create"

Shape == TypeOK /\ StepsFitCommand

LEMMA ShapeInit == Init => Shape
<1> SUFFICES ASSUME Init PROVE Shape
  OBVIOUS
<1>1. /\ questions \in [QuestionIds -> Question \union {Null}]
      /\ publishedRevision \in [QuestionIds -> Nat]
      /\ revisions \subseteq Revision
      /\ audit \subseteq AuditEntry
      /\ idempotency \in [Slots -> StoredApproval \union {Null}]
  BY DEF Init, EmptyTables, NoVersion
<1>2. NoReply \in Reply
  BY DEF NoReply, Reply
<1>3. /\ pc \in [Requests -> Steps]
      /\ command \in [Requests -> Commands \union {Null}]
      /\ now \in [Requests -> Instants \union {NoInstant}]
      /\ view \in [Requests -> Question \union {Null}]
      /\ reply \in [Requests -> Reply]
  BY <1>2 DEF Init, Steps
<1>4. /\ rowLock \in [QuestionIds -> Requests \union {Null}]
      /\ keyLock \in [Slots -> Requests \union {Null}]
      /\ clock \in Instants
  BY DEF Init
<1>5. StepsFitCommand
  BY DEF Init, StepsFitCommand
<1> QED
  BY <1>1, <1>3, <1>4, <1>5 DEF Shape, TypeOK

\* A request that has arrived has a command, an instant and a slot.
LEMMA Arrived ==
  ASSUME Shape, NEW r \in Requests, pc[r] # "idle"
  PROVE  /\ command[r] \in Commands
         /\ command[r] \in Command
         /\ command[r].id \in QuestionIds
         /\ SlotOf(command[r]) \in Slots
         /\ now[r] \in Instants
<1>1. command[r] \in Commands /\ now[r] \in Instants
  BY DEF Shape, TypeOK, StepsFitCommand
<1>2. command[r] \in Command
  BY <1>1, StoreAssumption
<1> QED
  BY <1>1, <1>2 DEF Command, SlotOf, Slots

\* The answers that a handler gives are well-formed.
LEMMA ReplyTypes ==
  /\ Unavailable \in Reply
  /\ \A q \in Question : Ok(q) \in Reply
  /\ \A code \in Outcomes \union {KeyReused} : Refused(code) \in Reply
BY DEF Unavailable, Ok, Refused, Reply

\* What the end of a transaction does to the handlers and the locks.
LEMMA FinishShape ==
  ASSUME Shape, NEW r \in Requests, pc[r] # "idle", NEW rep \in Reply,
         Finish(r, rep)
  PROVE  /\ pc' \in [Requests -> Steps]
         /\ command' \in [Requests -> Commands \union {Null}]
         /\ now' \in [Requests -> Instants \union {NoInstant}]
         /\ view' \in [Requests -> Question \union {Null}]
         /\ reply' \in [Requests -> Reply]
         /\ rowLock' \in [QuestionIds -> Requests \union {Null}]
         /\ keyLock' \in [Slots -> Requests \union {Null}]
         /\ clock' \in Instants
         /\ StepsFitCommand'
<1>1. /\ pc' \in [Requests -> Steps]
      /\ command' \in [Requests -> Commands \union {Null}]
      /\ now' \in [Requests -> Instants \union {NoInstant}]
      /\ view' \in [Requests -> Question \union {Null}]
      /\ reply' \in [Requests -> Reply]
      /\ clock' \in Instants
  BY DEF Shape, TypeOK, Finish, Steps
<1>2. /\ rowLock' \in [QuestionIds -> Requests \union {Null}]
      /\ keyLock' \in [Slots -> Requests \union {Null}]
  BY DEF Shape, TypeOK, Finish, ReleaseLocks
<1>3. StepsFitCommand'
  BY DEF Shape, TypeOK, StepsFitCommand, Finish
<1> QED
  BY <1>1, <1>2, <1>3

\* What the writes of a transaction do to the types of the tables.
LEMMA RecordChangeType ==
  ASSUME TypeOK, NEW r \in Requests, NEW c \in Command, NEW q \in Question,
         NEW at \in Instants, RecordChange(r, c, q, at)
  PROVE  /\ questions' \in [QuestionIds -> Question \union {Null}]
         /\ publishedRevision' \in [QuestionIds -> Nat]
         /\ revisions' \subseteq Revision
         /\ audit' \subseteq AuditEntry
<1>1. c.id \in QuestionIds /\ c.tenant \in Tenants /\ c.actor \in Subjects /\ c.op \in Operations
  BY DEF Command
<1>2. PublishedRevisionOf(c.id, q) \in Nat
  BY DEF PublishedRevisionOf, NoVersion, Question
<1>3. [id |-> c.id, question |-> q, request |-> r] \in Revision
  BY <1>1 DEF Revision
<1>4. Entry(r, c, "success", at) \in AuditEntry
  BY <1>1 DEF Entry, AuditEntry, Outcomes
<1> QED
  BY <1>1, <1>2, <1>3, <1>4 DEF TypeOK, RecordChange

LEMMA RecordRefusalType ==
  ASSUME TypeOK, NEW r \in Requests, NEW c \in Command, NEW code \in Outcomes,
         NEW at \in Instants, RecordRefusal(r, c, code, at)
  PROVE  /\ questions' \in [QuestionIds -> Question \union {Null}]
         /\ publishedRevision' \in [QuestionIds -> Nat]
         /\ revisions' \subseteq Revision
         /\ audit' \subseteq AuditEntry
<1>1. Entry(r, c, code, at) \in AuditEntry
  BY DEF Entry, AuditEntry, Command
<1> QED
  BY <1>1 DEF TypeOK, RecordRefusal

LEMMA StoreAnswerType ==
  ASSUME TypeOK, NEW c \in Command, NEW q \in Question, NEW at \in Instants,
         StoreAnswer(c, q, at)
  PROVE  idempotency' \in [Slots -> StoredApproval \union {Null}]
<1>1. Fingerprint(c) \in Tenants \X QuestionIds \X Subjects \X (Nat \ {0})
  BY DEF Fingerprint, Command
<1>2. at + RetentionTime \in Nat
  BY InstantsAreNat, AnswersAssumption
<1>3. [fingerprint |-> Fingerprint(c), result |-> q, expiresAt |-> at + RetentionTime]
        \in StoredApproval
  BY <1>1, <1>2 DEF StoredApproval
<1> QED
  BY <1>3 DEF TypeOK, StoreAnswer

LEMMA KeyTypes ==
  ASSUME TypeOK, NEW c \in Command, NEW q \in Question, NEW at \in Instants,
         KeyAfterRefusal(c, at) \/ KeyAfterChange(c, q, at)
  PROVE  idempotency' \in [Slots -> StoredApproval \union {Null}]
<1>1. CASE KeyAfterRefusal(c, at)
  BY <1>1 DEF KeyAfterRefusal, DropExpired, TypeOK
<1>2. CASE KeyAfterChange(c, q, at)
  BY <1>2, StoreAnswerType DEF KeyAfterChange, TypeOK
<1> QED
  BY <1>1, <1>2

\* The verdict on a loaded row is a code of the domain.
LEMMA VerdictType ==
  ASSUME Shape, NEW r \in Requests, pc[r] = "decide"
  PROVE  /\ Verdict(r) \in {NotFound, Accepted} \union RefusalCodes
         /\ Verdict(r) = Accepted => view[r] \in Question
         /\ command[r].op \in Changes
<1>1. command[r] \in Command /\ command[r].op \in Changes
  BY Arrived DEF Command, Changes, Shape, StepsFitCommand
<1>2. view[r] \in Question \union {Null}
  BY DEF Shape, TypeOK
<1> QED
  BY <1>1, <1>2, RefusalType, DomainAssumption DEF Verdict, NotFound, Accepted
-----------------------------------------------------------------------------
LEMMA ShapeReceive ==
  ASSUME Shape, NEW r \in Requests, NEW c \in Commands, Receive(r, c)
  PROVE  Shape'
<1>1. c \in Command /\ c # Null
  BY StoreAssumption, DomainAssumption
<1>2. FirstStep(c) \in {"insert", "lockKey", "load"}
  BY DEF FirstStep
<1>3. TypeOK'
  BY <1>2 DEF Shape, TypeOK, Receive, tables, locks, Steps
<1>4. StepsFitCommand'
  BY <1>1, <1>2 DEF Shape, TypeOK, StepsFitCommand, Receive, FirstStep
<1> QED
  BY <1>3, <1>4 DEF Shape

LEMMA ShapeHandle ==
  ASSUME Shape, NEW r \in Requests, Handle(r) \/ LoseConnection(r)
  PROVE  Shape'
<1> USE DEF Shape
<1>1. CASE LockKey(r)
  <2>1. command[r] \in Command /\ SlotOf(command[r]) \in Slots
    BY <1>1, Arrived DEF LockKey
  <2> QED
    BY <1>1, <2>1 DEF LockKey, TypeOK, StepsFitCommand, tables, Steps
<1>2. CASE RefuseReusedKey(r)
  <2>1. Refused(KeyReused) \in Reply /\ pc[r] # "idle"
    BY <1>2, ReplyTypes DEF RefuseReusedKey
  <2>2. Finish(r, Refused(KeyReused)) /\ UNCHANGED tables
    BY <1>2 DEF RefuseReusedKey
  <2> QED
    BY <2>1, <2>2, FinishShape DEF TypeOK, tables
<1>3. CASE MissKey(r)
  BY <1>3 DEF MissKey, TypeOK, StepsFitCommand, tables, locks, Steps
<1>4. CASE LockRow(r)
  <2>1. command[r] \in Command /\ command[r].id \in QuestionIds
    BY <1>4, Arrived DEF LockRow
  <2> QED
    BY <1>4, <2>1 DEF LockRow, Visible, TypeOK, StepsFitCommand, tables, Steps
<1>5. CASE MissRow(r)
  BY <1>5 DEF MissRow, TypeOK, StepsFitCommand, tables, locks, Steps
<1>6. ASSUME NEW answered \in BOOLEAN, InsertQuestion(r, answered)
      PROVE  Shape'
  <2> DEFINE q == NewQuestion(command[r], now[r])
  <2>1. command[r] \in Command /\ now[r] \in Instants /\ pc[r] # "idle"
    BY <1>6, Arrived DEF InsertQuestion
  <2>2. q \in Question
    BY <2>1, NewQuestionType
  <2>3. /\ RecordChange(r, command[r], q, now[r])
        /\ UNCHANGED idempotency
        /\ Finish(r, Answer(answered, Ok(q)))
    BY <1>6 DEF InsertQuestion
  <2>4. Answer(answered, Ok(q)) \in Reply
    BY <2>2, ReplyTypes DEF Answer
  <2> QED
    BY <2>1, <2>2, <2>3, <2>4, RecordChangeType, FinishShape DEF TypeOK
<1>7. ASSUME NEW answered \in BOOLEAN, ReplayAnswer(r, answered)
      PROVE  Shape'
  <2> DEFINE q == idempotency[SlotOf(command[r])].result
  <2>1. SlotOf(command[r]) \in Slots /\ pc[r] # "idle"
    BY <1>7, Arrived DEF ReplayAnswer
  <2>2. q \in Question
    BY <1>7, <2>1 DEF ReplayAnswer, Live, TypeOK, StoredApproval
  <2>3. Finish(r, Answer(answered, Ok(q))) /\ UNCHANGED tables
    BY <1>7 DEF ReplayAnswer
  <2>4. Answer(answered, Ok(q)) \in Reply
    BY <2>2, ReplyTypes DEF Answer
  <2> QED
    BY <2>1, <2>3, <2>4, FinishShape DEF TypeOK, tables
<1>8. ASSUME NEW answered \in BOOLEAN, CommitChange(r, answered)
      PROVE  Shape'
  <2> DEFINE q == Apply(view[r], command[r], now[r])
  <2>1. command[r] \in Command /\ now[r] \in Instants /\ pc[r] # "idle"
    BY <1>8, Arrived DEF CommitChange
  <2>2. q \in Question
    BY <1>8, <2>1, VerdictType, ApplyType DEF CommitChange
  <2>3. /\ RecordChange(r, command[r], q, now[r])
        /\ KeyAfterChange(command[r], q, now[r])
        /\ Finish(r, Answer(answered, Ok(q)))
    BY <1>8 DEF CommitChange
  <2>4. Answer(answered, Ok(q)) \in Reply
    BY <2>2, ReplyTypes DEF Answer
  <2> QED
    BY <2>1, <2>2, <2>3, <2>4, RecordChangeType, KeyTypes, FinishShape DEF TypeOK
<1>9. ASSUME NEW answered \in BOOLEAN, CommitRefusal(r, answered)
      PROVE  Shape'
  <2>1. command[r] \in Command /\ now[r] \in Instants /\ pc[r] # "idle"
    BY <1>9, Arrived DEF CommitRefusal
  <2>2. Verdict(r) \in Outcomes
    BY <1>9, VerdictType DEF CommitRefusal, Outcomes
  <2>3. /\ RecordRefusal(r, command[r], Verdict(r), now[r])
        /\ KeyAfterRefusal(command[r], now[r])
        /\ Finish(r, Answer(answered, Refused(Verdict(r))))
    BY <1>9 DEF CommitRefusal
  <2>4. Answer(answered, Refused(Verdict(r))) \in Reply
    BY <2>2, ReplyTypes DEF Answer
  <2>5. idempotency' \in [Slots -> StoredApproval \union {Null}]
    BY <2>1, <2>3 DEF KeyAfterRefusal, DropExpired, TypeOK
  <2> QED
    BY <2>1, <2>2, <2>3, <2>4, <2>5, RecordRefusalType, FinishShape DEF TypeOK
<1>10. CASE LoseConnection(r)
  <2>1. Finish(r, Unavailable) /\ UNCHANGED tables /\ pc[r] # "idle"
    BY <1>10 DEF LoseConnection, InFlight
  <2> QED
    BY <2>1, ReplyTypes, FinishShape DEF TypeOK, tables
<1> QED
  BY <1>1, <1>2, <1>3, <1>4, <1>5, <1>6, <1>7, <1>8, <1>9, <1>10 DEF Handle, Commit

LEMMA ShapeNext ==
  ASSUME Shape, [Next]_vars
  PROVE  Shape'
<1>1. ASSUME NEW r \in Requests, NEW c \in Commands, Receive(r, c)
      PROVE  Shape'
  BY <1>1, ShapeReceive
<1>2. ASSUME NEW r \in Requests, Handle(r) \/ LoseConnection(r)
      PROVE  Shape'
  BY <1>2, ShapeHandle
<1>3. CASE Tick
  BY <1>3 DEF Tick, Shape, TypeOK, StepsFitCommand, tables, handlers, locks
<1>4. CASE UNCHANGED vars
  BY <1>4 DEF vars, Shape, TypeOK, StepsFitCommand, tables, handlers, locks
<1> QED
  BY <1>1, <1>2, <1>3, <1>4 DEF Next

\* Type correctness: every reachable state of the store is well-typed.
THEOREM TypeCorrect == Spec => []TypeOK
<1>1. Spec => []Shape
  BY ShapeInit, ShapeNext, PTL DEF Spec
<1>2. Shape => TypeOK
  BY DEF Shape
<1> QED
  BY <1>1, <1>2, PTL
-----------------------------------------------------------------------------
(***************************************************************************)
(* What the advisory lock and FOR UPDATE are for: the row a transaction    *)
(* decides on stays the committed row until its own commit, and the key an *)
(* approval found free stays free.  The inductive invariant, request by    *)
(* request.                                                                *)
(***************************************************************************)
\* Nobody else names the Guid that a create is about to insert.
Fresh(r) ==
  pc[r] = "insert" =>
    /\ questions[command[r].id] = Null
    /\ \A s \in Requests \ {r} :
         command[s] # Null => command[s].id # command[r].id

\* A loaded row is locked, is the committed row, and is the tenant's own.
RowLocked(r) ==
  pc[r] = "decide" /\ view[r] # Null =>
    /\ rowLock[command[r].id] = r
    /\ view[r] = questions[command[r].id]
    /\ view[r].tenant = command[r].tenant

\* A row that was not found does not appear.
RowMissed(r) ==
  pc[r] = "decide" /\ view[r] = Null => ~Visible(command[r].id, command[r].tenant)

ViewDropped(r) == pc[r] # "decide" => view[r] = Null

\* From the look-up to the commit an approval holds the lock of its key.
KeyLocked(r) ==
  pc[r] \in {"lookup", "load", "decide"} /\ command[r].op = "approve" =>
    keyLock[SlotOf(command[r])] = r

KeyMissed(r) ==
  pc[r] \in {"load", "decide"} /\ command[r].op = "approve" =>
    ~Live(SlotOf(command[r]), now[r])

\* A request is audited by its commit only.
Unaudited(r) == pc[r] # "done" => \A e \in audit : e.request # r

Isolated(r) ==
  /\ Fresh(r)
  /\ RowLocked(r)
  /\ RowMissed(r)
  /\ ViewDropped(r)
  /\ KeyLocked(r)
  /\ KeyMissed(r)
  /\ Unaudited(r)

\* The row of a question was named by the request that created it.
RowsAreNamed ==
  \A id \in QuestionIds :
    questions[id] # Null => \E s \in Requests : command[s] # Null /\ command[s].id = id

Isolation == RowsAreNamed /\ \A r \in Requests : Isolated(r)
-----------------------------------------------------------------------------
(***************************************************************************)
(* What a step of request r may do to what other requests rely on.         *)
(***************************************************************************)
Changes1Row(r) ==
  \A id \in QuestionIds :
    questions'[id] # questions[id] =>
      /\ id = command[r].id
      /\ questions'[id] # Null
      /\ \/ pc[r] = "insert"
         \/ pc[r] = "decide" /\ view[r] # Null /\ questions'[id].tenant = view[r].tenant

Changes1Key(r) ==
  \A k \in Slots :
    idempotency'[k] # idempotency[k] =>
      k = SlotOf(command[r]) /\ command[r].op = "approve" /\ pc[r] = "decide"

Effect(r) ==
  /\ command' = command
  /\ now' = now
  /\ \A s \in Requests \ {r} :
       /\ pc'[s] = pc[s]
       /\ view'[s] = view[s]
       /\ \A id \in QuestionIds : rowLock[id] = s => rowLock'[id] = s
       /\ \A k \in Slots : keyLock[k] = s => keyLock'[k] = s
  /\ Changes1Row(r)
  /\ Changes1Key(r)
  /\ \A e \in audit' : e \in audit \/ e.request = r

LEMMA FinishEffect ==
  ASSUME Shape, NEW r \in Requests, NEW rep, Finish(r, rep)
  PROVE  /\ command' = command
         /\ now' = now
         /\ pc'[r] = "done"
         /\ view'[r] = Null
         /\ \A s \in Requests \ {r} :
              /\ pc'[s] = pc[s]
              /\ view'[s] = view[s]
              /\ \A id \in QuestionIds : rowLock[id] = s => rowLock'[id] = s
              /\ \A k \in Slots : keyLock[k] = s => keyLock'[k] = s
BY DEF Shape, TypeOK, Finish, ReleaseLocks

LEMMA NothingWritten ==
  ASSUME NEW r \in Requests, UNCHANGED tables
  PROVE  /\ Changes1Row(r)
         /\ Changes1Key(r)
         /\ \A e \in audit' : e \in audit \/ e.request = r
BY DEF Changes1Row, Changes1Key, tables

LEMMA ChangeEffect ==
  ASSUME Shape, NEW r \in Requests, NEW answered \in BOOLEAN, CommitChange(r, answered)
  PROVE  Effect(r) /\ pc'[r] = "done" /\ view'[r] = Null
<1> DEFINE q == Apply(view[r], command[r], now[r])
<1>1. /\ pc[r] = "decide"
      /\ RecordChange(r, command[r], q, now[r])
      /\ KeyAfterChange(command[r], q, now[r])
      /\ Finish(r, Answer(answered, Ok(q)))
  BY DEF CommitChange
<1>2. view[r] \in Question /\ view[r] # Null
  BY <1>1, VerdictType, DomainAssumption DEF CommitChange
<1>3. command[r] \in Command /\ now[r] \in Instants /\ command[r].op \in Changes
  BY <1>1, Arrived, VerdictType
<1>8. q \in Question /\ q.tenant = view[r].tenant
  BY <1>2, <1>3, ApplyType
<1> HIDE DEF q
<1>7. q \in Question /\ q.tenant = view[r].tenant /\ q # Null
  BY <1>8, DomainAssumption
<1>4. Changes1Row(r)
  BY <1>1, <1>2, <1>7 DEF RecordChange, Shape, TypeOK, Changes1Row
<1>5. Changes1Key(r)
  BY <1>1 DEF KeyAfterChange, StoreAnswer, Shape, TypeOK, Changes1Key
<1>6. \A e \in audit' : e \in audit \/ e.request = r
  BY <1>1 DEF RecordChange, Entry
<1> QED
  BY <1>1, <1>4, <1>5, <1>6, FinishEffect DEF Effect

LEMMA RefusalEffect ==
  ASSUME Shape, NEW r \in Requests, NEW answered \in BOOLEAN, CommitRefusal(r, answered)
  PROVE  Effect(r) /\ pc'[r] = "done" /\ view'[r] = Null
<1>1. /\ pc[r] = "decide"
      /\ RecordRefusal(r, command[r], Verdict(r), now[r])
      /\ KeyAfterRefusal(command[r], now[r])
      /\ Finish(r, Answer(answered, Refused(Verdict(r))))
  BY DEF CommitRefusal
<1>4. Changes1Row(r)
  BY <1>1 DEF RecordRefusal, Changes1Row
<1>5. Changes1Key(r)
  BY <1>1 DEF KeyAfterRefusal, DropExpired, Shape, TypeOK, Changes1Key
<1>6. \A e \in audit' : e \in audit \/ e.request = r
  BY <1>1 DEF RecordRefusal, Entry
<1> QED
  BY <1>1, <1>4, <1>5, <1>6, FinishEffect DEF Effect

LEMMA InsertEffect ==
  ASSUME Shape, NEW r \in Requests, NEW answered \in BOOLEAN, InsertQuestion(r, answered)
  PROVE  Effect(r) /\ pc'[r] = "done" /\ view'[r] = Null
<1> DEFINE q == NewQuestion(command[r], now[r])
<1>1. /\ pc[r] = "insert"
      /\ RecordChange(r, command[r], q, now[r])
      /\ idempotency' = idempotency
      /\ Finish(r, Answer(answered, Ok(q)))
  BY DEF InsertQuestion
<1>3. q \in Question /\ q # Null
  BY <1>1, Arrived, NewQuestionType, DomainAssumption
<1> HIDE DEF q
<1>4. Changes1Row(r)
  BY <1>1, <1>3 DEF RecordChange, Shape, TypeOK, Changes1Row
<1>5. Changes1Key(r)
  BY <1>1 DEF Changes1Key
<1>6. \A e \in audit' : e \in audit \/ e.request = r
  BY <1>1 DEF RecordChange, Entry
<1> QED
  BY <1>1, <1>4, <1>5, <1>6, FinishEffect DEF Effect
-----------------------------------------------------------------------------
(***************************************************************************)
(* What the steps that do not commit do, and the other steps of r.         *)
(***************************************************************************)
LEMMA QuietFinish ==
  ASSUME Shape, NEW r \in Requests, NEW rep, Finish(r, rep), UNCHANGED tables
  PROVE  Effect(r) /\ pc'[r] = "done" /\ view'[r] = Null
BY FinishEffect, NothingWritten DEF Effect

LEMMA LockKeyEffect ==
  ASSUME Shape, NEW r \in Requests, LockKey(r)
  PROVE  /\ Effect(r)
         /\ pc[r] = "lockKey" /\ pc'[r] = "lookup" /\ view'[r] = view[r]
         /\ keyLock'[SlotOf(command[r])] = r
<1>1. SlotOf(command[r]) \in Slots
  BY Arrived DEF LockKey
<1>2. Changes1Row(r) /\ Changes1Key(r) /\ \A e \in audit' : e \in audit \/ e.request = r
  BY NothingWritten DEF LockKey
<1>3. keyLock[SlotOf(command[r])] \notin Requests
  BY AnswersAssumption DEF LockKey
<1>4. \A s \in Requests \ {r} :
        /\ pc'[s] = pc[s]
        /\ view'[s] = view[s]
        /\ \A id \in QuestionIds : rowLock[id] = s => rowLock'[id] = s
        /\ \A k \in Slots : keyLock[k] = s => keyLock'[k] = s
  BY <1>1, <1>3 DEF LockKey, Shape, TypeOK
<1>5. command' = command /\ now' = now
  BY DEF LockKey
<1>6. pc[r] = "lockKey" /\ pc'[r] = "lookup" /\ view'[r] = view[r]
  BY DEF LockKey, Shape, TypeOK
<1>7. keyLock'[SlotOf(command[r])] = r
  BY <1>1 DEF LockKey, Shape, TypeOK
<1> QED
  BY <1>2, <1>4, <1>5, <1>6, <1>7 DEF Effect

LEMMA MissKeyEffect ==
  ASSUME Shape, NEW r \in Requests, MissKey(r)
  PROVE  /\ Effect(r)
         /\ pc[r] = "lookup" /\ pc'[r] = "load" /\ view'[r] = view[r]
         /\ keyLock' = keyLock
<1>2. Changes1Row(r) /\ Changes1Key(r) /\ \A e \in audit' : e \in audit \/ e.request = r
  BY NothingWritten DEF MissKey
<1> QED
  BY <1>2 DEF MissKey, Effect, locks, Shape, TypeOK

LEMMA LockRowEffect ==
  ASSUME Shape, NEW r \in Requests, LockRow(r)
  PROVE  /\ Effect(r)
         /\ pc[r] = "load" /\ pc'[r] = "decide"
         /\ view'[r] = questions[command[r].id]
         /\ rowLock'[command[r].id] = r
         /\ Visible(command[r].id, command[r].tenant)
         /\ keyLock' = keyLock
<1>1. command[r].id \in QuestionIds
  BY Arrived DEF LockRow
<1>2. Changes1Row(r) /\ Changes1Key(r) /\ \A e \in audit' : e \in audit \/ e.request = r
  BY NothingWritten DEF LockRow
<1>3. rowLock[command[r].id] \notin Requests
  BY AnswersAssumption DEF LockRow
<1>4. \A s \in Requests \ {r} :
        /\ pc'[s] = pc[s]
        /\ view'[s] = view[s]
        /\ \A id \in QuestionIds : rowLock[id] = s => rowLock'[id] = s
        /\ \A k \in Slots : keyLock[k] = s => keyLock'[k] = s
  BY <1>1, <1>3 DEF LockRow, Shape, TypeOK
<1>5. command' = command /\ now' = now /\ keyLock' = keyLock
  BY DEF LockRow
<1>6. /\ pc[r] = "load" /\ pc'[r] = "decide"
      /\ view'[r] = questions[command[r].id]
      /\ Visible(command[r].id, command[r].tenant)
  BY DEF LockRow, Shape, TypeOK
<1>7. rowLock'[command[r].id] = r
  BY <1>1 DEF LockRow, Shape, TypeOK
<1> QED
  BY <1>2, <1>4, <1>5, <1>6, <1>7 DEF Effect

LEMMA MissRowEffect ==
  ASSUME Shape, NEW r \in Requests, MissRow(r)
  PROVE  /\ Effect(r)
         /\ pc[r] = "load" /\ pc'[r] = "decide" /\ view'[r] = view[r]
         /\ ~Visible(command[r].id, command[r].tenant)
         /\ keyLock' = keyLock
<1>2. Changes1Row(r) /\ Changes1Key(r) /\ \A e \in audit' : e \in audit \/ e.request = r
  BY NothingWritten DEF MissRow
<1> QED
  BY <1>2 DEF MissRow, Effect, locks, Shape, TypeOK
-----------------------------------------------------------------------------
(***************************************************************************)
(* A step of request r keeps every other request isolated.                 *)
(***************************************************************************)
LEMMA OthersStayIsolated ==
  ASSUME Shape, Isolation, NEW r \in Requests, pc[r] # "idle", Effect(r),
         NEW s \in Requests \ {r}
  PROVE  Isolated(s)'
<1> USE DEF Effect
<1>1. /\ command[r] \in Command /\ command[r] # Null
      /\ command[r].id \in QuestionIds /\ SlotOf(command[r]) \in Slots
  BY Arrived, DomainAssumption
<1>2. pc[s] # "idle" =>
        command[s].id \in QuestionIds /\ SlotOf(command[s]) \in Slots
  BY Arrived
<1>3. Isolated(r) /\ Isolated(s)
  BY DEF Isolation
<1>4. Fresh(s)'
  BY <1>1, <1>2, <1>3 DEF Isolated, Fresh, Changes1Row
<1>5. pc[s] = "decide" => questions'[command[s].id] = questions[command[s].id]
      \/ (questions'[command[s].id] # Null /\ view[s] = Null)
  <2> SUFFICES ASSUME pc[s] = "decide", questions'[command[s].id] # questions[command[s].id]
               PROVE  questions'[command[s].id] # Null /\ view[s] = Null
    OBVIOUS
  <2>1. command[s].id = command[r].id /\ questions'[command[s].id] # Null
    BY <1>2 DEF Changes1Row
  <2>2. command[s] # Null
    BY Arrived, DomainAssumption
  <2>3. pc[r] = "decide" /\ view[r] # Null
    BY <1>2, <1>3, <2>1, <2>2 DEF Changes1Row, Isolated, Fresh
  <2>4. rowLock[command[r].id] = r
    BY <1>3, <2>3 DEF Isolated, RowLocked
  <2> QED
    BY <1>3, <2>1, <2>4 DEF Isolated, RowLocked
<1>6. RowLocked(s)'
  BY <1>2, <1>3, <1>5 DEF Isolated, RowLocked
<1>7. RowMissed(s)'
  <2> SUFFICES ASSUME pc[s] = "decide", view[s] = Null
               PROVE  ~Visible(command[s].id, command[s].tenant)'
    BY DEF RowMissed
  <2>1. ~Visible(command[s].id, command[s].tenant)
    BY <1>3 DEF Isolated, RowMissed
  <2>2. CASE questions'[command[s].id] = questions[command[s].id]
    BY <2>1, <2>2 DEF Visible
  <2>3. CASE questions'[command[s].id] # questions[command[s].id]
    <3>1. command[s].id = command[r].id
      BY <1>2, <2>3 DEF Changes1Row
    <3>2. command[s] # Null
      BY Arrived, DomainAssumption
    <3>3. pc[r] = "decide" /\ view[r] # Null /\ questions'[command[s].id].tenant = view[r].tenant
      BY <1>2, <1>3, <2>3, <3>1, <3>2 DEF Changes1Row, Isolated, Fresh
    <3>4. view[r] = questions[command[s].id]
      BY <1>3, <3>1, <3>3 DEF Isolated, RowLocked
    <3> QED
      BY <2>1, <3>3, <3>4 DEF Visible
  <2> QED
    BY <2>2, <2>3
<1>8. ViewDropped(s)'
  BY <1>3 DEF Isolated, ViewDropped
<1>9. KeyLocked(s)'
  BY <1>2, <1>3 DEF Isolated, KeyLocked
<1>10. KeyMissed(s)'
  <2> SUFFICES ASSUME pc[s] \in {"load", "decide"}, command[s].op = "approve"
               PROVE  ~Live(SlotOf(command[s]), now[s])'
    BY DEF KeyMissed
  <2>1. keyLock[SlotOf(command[s])] = s /\ ~Live(SlotOf(command[s]), now[s])
    BY <1>3 DEF Isolated, KeyLocked, KeyMissed
  <2>2. idempotency'[SlotOf(command[s])] = idempotency[SlotOf(command[s])]
    BY <1>2, <1>3, <2>1 DEF Changes1Key, Isolated, KeyLocked
  <2> QED
    BY <2>1, <2>2 DEF Live
<1>11. Unaudited(s)'
  BY <1>3 DEF Isolated, Unaudited
<1> QED
  BY <1>4, <1>6, <1>7, <1>8, <1>9, <1>10, <1>11 DEF Isolated
-----------------------------------------------------------------------------
LEMMA IsolatedWhenDone ==
  ASSUME NEW r \in Requests, pc'[r] = "done", view'[r] = Null
  PROVE  Isolated(r)'
BY DEF Isolated, Fresh, RowLocked, RowMissed, ViewDropped, KeyLocked, KeyMissed, Unaudited

LEMMA NamesRemain ==
  ASSUME Shape, Isolation, NEW r \in Requests, pc[r] # "idle", Effect(r)
  PROVE  RowsAreNamed'
<1>1. command[r] # Null
  BY Arrived, DomainAssumption
<1> QED
  BY <1>1 DEF Isolation, RowsAreNamed, Effect, Changes1Row

\* A step that writes nothing and does not end the request.
LEMMA StillUnaudited ==
  ASSUME NEW r \in Requests, Isolated(r), pc[r] # "done", UNCHANGED tables
  PROVE  Unaudited(r)'
BY DEF Isolated, Unaudited, tables

\* The step of a request keeps the request itself isolated.
LEMMA HandleIsolates ==
  ASSUME Shape, Isolation, NEW r \in Requests, Handle(r) \/ LoseConnection(r)
  PROVE  Effect(r) /\ pc[r] # "idle" /\ Isolated(r)'
<1>0. Isolated(r)
  BY DEF Isolation
<1>1. CASE LockKey(r)
  <2>1. Effect(r) /\ pc[r] = "lockKey" /\ pc'[r] = "lookup" /\ view'[r] = view[r]
    BY <1>1, LockKeyEffect
  <2>2. Unaudited(r)'
    BY <1>0, <1>1, <2>1, StillUnaudited DEF LockKey
  <2>3. KeyLocked(r)'
    BY <1>1, LockKeyEffect DEF KeyLocked, Effect
  <2>4. Fresh(r)' /\ RowLocked(r)' /\ RowMissed(r)' /\ ViewDropped(r)' /\ KeyMissed(r)'
    BY <1>0, <2>1 DEF Isolated, Fresh, RowLocked, RowMissed, ViewDropped, KeyMissed
  <2> QED
    BY <2>1, <2>2, <2>3, <2>4 DEF Isolated
<1>2. CASE RefuseReusedKey(r)
  BY <1>2, QuietFinish, IsolatedWhenDone DEF RefuseReusedKey
<1>3. CASE MissKey(r)
  <2>1. ~Live(SlotOf(command[r]), now[r]) /\ idempotency' = idempotency
    BY <1>3 DEF MissKey, tables
  <2>2. KeyMissed(r)'
    BY <1>3, <2>1, MissKeyEffect DEF KeyMissed, Live, Effect
  <2>3. Unaudited(r)'
    BY <1>0, <1>3, StillUnaudited DEF MissKey
  <2>4. Fresh(r)' /\ RowLocked(r)' /\ RowMissed(r)' /\ ViewDropped(r)'
    BY <1>0, <1>3, MissKeyEffect DEF Isolated, Fresh, RowLocked, RowMissed, ViewDropped
  <2>5. KeyLocked(r)'
    BY <1>0, <1>3, MissKeyEffect DEF Isolated, KeyLocked, Effect
  <2> QED
    BY <1>3, <2>2, <2>3, <2>4, <2>5, MissKeyEffect DEF Isolated
<1>4. CASE LockRow(r)
  <2>1. UNCHANGED tables
    BY <1>4 DEF LockRow
  <2>2. questions' = questions /\ idempotency' = idempotency
    BY <2>1 DEF tables
  <2>3. RowLocked(r)' /\ RowMissed(r)'
    BY <1>4, <2>2, LockRowEffect DEF RowLocked, RowMissed, Visible, Effect
  <2>4. KeyMissed(r)'
    BY <1>0, <1>4, <2>2, LockRowEffect DEF Isolated, KeyMissed, Live, Effect
  <2>6. Unaudited(r)'
    BY <1>0, <1>4, <2>1, LockRowEffect, StillUnaudited
  <2>7. Fresh(r)' /\ ViewDropped(r)'
    BY <1>4, LockRowEffect DEF Fresh, ViewDropped
  <2>8. KeyLocked(r)'
    BY <1>0, <1>4, LockRowEffect DEF Isolated, KeyLocked, Effect
  <2> QED
    BY <1>4, <2>3, <2>4, <2>6, <2>7, <2>8, LockRowEffect DEF Isolated
<1>5. CASE MissRow(r)
  <2>1. UNCHANGED tables
    BY <1>5 DEF MissRow
  <2>2. questions' = questions /\ idempotency' = idempotency
    BY <2>1 DEF tables
  <2>3. view'[r] = Null
    BY <1>0, <1>5, MissRowEffect DEF Isolated, ViewDropped
  <2>4. RowLocked(r)' /\ RowMissed(r)'
    BY <1>5, <2>2, <2>3, MissRowEffect DEF RowLocked, RowMissed, Visible, Effect
  <2>5. KeyMissed(r)'
    BY <1>0, <1>5, <2>2, MissRowEffect DEF Isolated, KeyMissed, Live, Effect
  <2>6. Unaudited(r)'
    BY <1>0, <1>5, <2>1, MissRowEffect, StillUnaudited
  <2>7. Fresh(r)' /\ ViewDropped(r)'
    BY <1>5, MissRowEffect DEF Fresh, ViewDropped
  <2>8. KeyLocked(r)'
    BY <1>0, <1>5, MissRowEffect DEF Isolated, KeyLocked, Effect
  <2> QED
    BY <1>5, <2>4, <2>5, <2>6, <2>7, <2>8, MissRowEffect DEF Isolated
<1>6. ASSUME NEW answered \in BOOLEAN, InsertQuestion(r, answered)
      PROVE  Effect(r) /\ pc[r] # "idle" /\ Isolated(r)'
  BY <1>6, InsertEffect, IsolatedWhenDone DEF InsertQuestion
<1>7. ASSUME NEW answered \in BOOLEAN, ReplayAnswer(r, answered)
      PROVE  Effect(r) /\ pc[r] # "idle" /\ Isolated(r)'
  BY <1>7, QuietFinish, IsolatedWhenDone DEF ReplayAnswer
<1>8. ASSUME NEW answered \in BOOLEAN, CommitChange(r, answered)
      PROVE  Effect(r) /\ pc[r] # "idle" /\ Isolated(r)'
  BY <1>8, ChangeEffect, IsolatedWhenDone DEF CommitChange
<1>9. ASSUME NEW answered \in BOOLEAN, CommitRefusal(r, answered)
      PROVE  Effect(r) /\ pc[r] # "idle" /\ Isolated(r)'
  BY <1>9, RefusalEffect, IsolatedWhenDone DEF CommitRefusal
<1>10. CASE LoseConnection(r)
  BY <1>10, QuietFinish, IsolatedWhenDone DEF LoseConnection, InFlight
<1> QED
  BY <1>1, <1>2, <1>3, <1>4, <1>5, <1>6, <1>7, <1>8, <1>9, <1>10 DEF Handle, Commit

\* A request that arrives with a new Guid, or names one that exists.
LEMMA ReceiveIsolates ==
  ASSUME Shape, Isolation, NEW r \in Requests, NEW c \in Commands, Receive(r, c)
  PROVE  Isolation'
<1>1. /\ c \in Command /\ c # Null /\ c.id \in QuestionIds
      /\ pc[r] = "idle" /\ command[r] = Null
      /\ FirstStep(c) \in {"insert", "lockKey", "load"}
      /\ FirstStep(c) = "insert" => c.op = "create"
      /\ FirstStep(c) = "load" => c.op # "approve"
  BY StoreAssumption, DomainAssumption
     DEF Command, Receive, FirstStep, Shape, StepsFitCommand
<1>2. /\ command'[r] = c /\ pc'[r] = FirstStep(c) /\ view' = view
      /\ \A s \in Requests \ {r} :
           command'[s] = command[s] /\ pc'[s] = pc[s] /\ now'[s] = now[s]
      /\ questions' = questions /\ idempotency' = idempotency /\ audit' = audit
      /\ rowLock' = rowLock /\ keyLock' = keyLock
  BY DEF Receive, Shape, TypeOK, tables, locks
<1>3. \A s \in Requests :
        command[s] # Null /\ (c.op = "create" \/ pc[s] = "insert") => command[s].id # c.id
  BY DEF Receive, Nameable
<1>4. \A s \in Requests : Isolated(s)
  BY DEF Isolation
<1>5. RowsAreNamed'
  BY <1>1, <1>2 DEF Isolation, RowsAreNamed
<1>6. Isolated(r)'
  <2>1. Fresh(r)'
    BY <1>1, <1>2, <1>3 DEF Fresh, Isolation, RowsAreNamed
  <2>2. view[r] = Null /\ \A e \in audit : e.request # r
    BY <1>1, <1>4 DEF Isolated, ViewDropped, Unaudited
  <2>3. /\ RowLocked(r)' /\ RowMissed(r)' /\ ViewDropped(r)'
        /\ KeyLocked(r)' /\ KeyMissed(r)' /\ Unaudited(r)'
    BY <1>1, <1>2, <2>2
       DEF RowLocked, RowMissed, ViewDropped, KeyLocked, KeyMissed, Unaudited
  <2> QED
    BY <2>1, <2>3 DEF Isolated
<1>7. ASSUME NEW s \in Requests \ {r}
      PROVE  Isolated(s)'
  <2>1. Fresh(s)'
    <3> SUFFICES ASSUME pc[s] = "insert"
                 PROVE  /\ questions[command[s].id] = Null
                        /\ \A t \in Requests \ {s} :
                             command'[t] # Null => command'[t].id # command[s].id
      BY <1>2 DEF Fresh
    <3>1. Fresh(s) /\ command[s] # Null
      BY <1>4, Arrived, DomainAssumption DEF Isolated
    <3> QED
      BY <1>2, <1>3, <3>1 DEF Fresh
  <2>2. RowLocked(s)' /\ RowMissed(s)' /\ ViewDropped(s)' /\ Unaudited(s)'
    BY <1>2, <1>4
       DEF Isolated, RowLocked, RowMissed, ViewDropped, Unaudited, Visible
  <2>3. KeyLocked(s)' /\ KeyMissed(s)'
    BY <1>2, <1>4 DEF Isolated, KeyLocked, KeyMissed, Live
  <2> QED
    BY <2>1, <2>2, <2>3 DEF Isolated
<1> QED
  BY <1>5, <1>6, <1>7 DEF Isolation

LEMMA IsolationInit == Init => Isolation
BY DEF Init, EmptyTables, Isolation, RowsAreNamed, Isolated, Fresh, RowLocked,
       RowMissed, ViewDropped, KeyLocked, KeyMissed, Unaudited

LEMMA IsolationNext ==
  ASSUME Shape, Isolation, [Next]_vars
  PROVE  Isolation'
<1>1. ASSUME NEW r \in Requests, NEW c \in Commands, Receive(r, c)
      PROVE  Isolation'
  BY <1>1, ReceiveIsolates
<1>2. ASSUME NEW r \in Requests, Handle(r) \/ LoseConnection(r)
      PROVE  Isolation'
  <2>1. Effect(r) /\ pc[r] # "idle" /\ Isolated(r)'
    BY <1>2, HandleIsolates
  <2> QED
    BY <2>1, OthersStayIsolated, NamesRemain DEF Isolation
<1>3. CASE Tick \/ UNCHANGED vars
  <2>1. UNCHANGED <<tables, handlers, locks>>
    BY <1>3 DEF Tick, vars
  <2> QED
    BY <2>1 DEF tables, handlers, locks, Isolation, RowsAreNamed, Isolated, Fresh,
       RowLocked, RowMissed, ViewDropped, KeyLocked, KeyMissed, Unaudited, Visible, Live
<1> QED
  BY <1>1, <1>2, <1>3 DEF Next

THEOREM IsolationHolds == Spec => [](Shape /\ Isolation)
<1>1. Init => Shape /\ Isolation
  BY ShapeInit, IsolationInit
<1>2. Shape /\ Isolation /\ [Next]_vars => Shape' /\ Isolation'
  BY ShapeNext, IsolationNext
<1> QED
  BY <1>1, <1>2, PTL DEF Spec

(***************************************************************************)
(* FOR UPDATE does its work: the row that a transaction decides on is the  *)
(* committed row until the transaction itself commits, for every set of    *)
(* requests (LoadRequiredAsync).                                           *)
(***************************************************************************)
THEOREM DecisionsAreCurrent == Spec => []DecisionIsCurrent
<1>1. Isolation => DecisionIsCurrent
  BY DEF Isolation, Isolated, RowLocked, RowMissed, DecisionIsCurrent
<1> QED
  BY <1>1, IsolationHolds, PTL
-----------------------------------------------------------------------------
(***************************************************************************)
(* PgQuestionStore implements QuestionLedger: a transaction that commits a *)
(* change or a refusal is one step of the ledger, and every other step     *)
(* leaves the tables alone.  The ledger's operators on the tables are the  *)
(* store's own.                                                            *)
(***************************************************************************)
LEMMA SameWrites ==
  ASSUME NEW r, NEW c, NEW q, NEW at, NEW code
  PROVE  /\ Ledger!RecordChange(r, c, q, at) <=> RecordChange(r, c, q, at)
         /\ Ledger!RecordRefusal(r, c, code, at) <=> RecordRefusal(r, c, code, at)
BY DEF Ledger!RecordChange, Ledger!RecordRefusal, Ledger!PublishedRevisionOf,
       Ledger!Entry, Ledger!NoVersion, RecordChange, RecordRefusal,
       PublishedRevisionOf, Entry, NoVersion

LEMMA SameKeys ==
  ASSUME NEW c, NEW q, NEW at
  PROVE  /\ Ledger!KeyAfterChange(c, q, at) <=> KeyAfterChange(c, q, at)
         /\ Ledger!KeyAfterRefusal(c, at) <=> KeyAfterRefusal(c, at)
         /\ Ledger!Live(Ledger!SlotOf(c), at) <=> Live(SlotOf(c), at)
BY DEF Ledger!KeyAfterChange, Ledger!KeyAfterRefusal, Ledger!StoreAnswer,
       Ledger!DropExpired, Ledger!Live, Ledger!SlotOf, Ledger!Fingerprint,
       KeyAfterChange, KeyAfterRefusal, StoreAnswer, DropExpired, Live, SlotOf,
       Fingerprint

LEMMA SameRules ==
  ASSUME NEW c, NEW q, NEW at
  PROVE  /\ Ledger!NewQuestion(c, at) = NewQuestion(c, at)
         /\ Ledger!Refusal(q, c) = Refusal(q, c)
         /\ Ledger!Apply(q, c, at) = Apply(q, c, at)
         /\ Ledger!Visible(c.id, c.tenant) <=> Visible(c.id, c.tenant)
         /\ Ledger!Accepted = Accepted
         /\ Ledger!NotFound = NotFound
<1>1. Ledger!NewQuestion(c, at) = NewQuestion(c, at)
  BY DEF Ledger!NewQuestion, NewQuestion, Ledger!NoInstant, NoInstant, Ledger!NoVersion, NoVersion
<1>2. Ledger!Accepted = Accepted /\ Ledger!NotFound = NotFound
  BY DEF Ledger!Accepted, Accepted, Ledger!NotFound, NotFound
<1>3. Ledger!Refusal(q, c) = Refusal(q, c)
  BY <1>2 DEF Ledger!Refusal, Ledger!UpdateRefusal, Ledger!SubmitRefusal,
     Ledger!ReturnRefusal, Ledger!ApproveRefusal, Ledger!WithdrawRefusal,
     Refusal, UpdateRefusal, SubmitRefusal, ReturnRefusal, ApproveRefusal, WithdrawRefusal
<1>4. Ledger!Apply(q, c, at) = Apply(q, c, at)
  BY DEF Ledger!Apply, Ledger!Updated, Ledger!Submitted, Ledger!Returned,
     Ledger!Approved, Ledger!Withdrawn, Ledger!Advance,
     Apply, Updated, Submitted, Returned, Approved, Withdrawn, Advance
<1>5. Ledger!Visible(c.id, c.tenant) <=> Visible(c.id, c.tenant)
  BY DEF Ledger!Visible, Visible
<1> QED
  BY <1>1, <1>2, <1>3, <1>4, <1>5
-----------------------------------------------------------------------------
LEMMA NotYetServed ==
  ASSUME Isolation, NEW r \in Requests, pc[r] # "done"
  PROVE  Ledger!Unserved(r)
BY DEF Isolation, Isolated, Unaudited, Ledger!Unserved

LEMMA InsertIsCreate ==
  ASSUME Shape, Isolation, NEW r \in Requests, NEW answered \in BOOLEAN,
         InsertQuestion(r, answered)
  PROVE  Ledger!Create(r, command[r], now[r])
BY NotYetServed, SameWrites, SameRules
   DEF InsertQuestion, Shape, StepsFitCommand, Ledger!Create

\* The row the verdict was given on is the row of the tables.
LEMMA VerdictIsCurrent ==
  ASSUME Shape, Isolation, NEW r \in Requests, pc[r] = "decide"
  PROVE  /\ view[r] # Null =>
              /\ Visible(command[r].id, command[r].tenant)
              /\ view[r] = questions[command[r].id]
         /\ view[r] = Null => ~Visible(command[r].id, command[r].tenant)
         /\ command[r].op # "create"
         /\ command[r].op = "approve" => ~Live(SlotOf(command[r]), now[r])
<1>1. RowLocked(r) /\ RowMissed(r) /\ KeyMissed(r)
  BY DEF Isolation, Isolated
<1> QED
  BY <1>1 DEF RowLocked, RowMissed, KeyMissed, Visible, Shape, StepsFitCommand

LEMMA CommitIsChange ==
  ASSUME Shape, Isolation, NEW r \in Requests, NEW answered \in BOOLEAN,
         CommitChange(r, answered)
  PROVE  Ledger!Change(r, command[r], now[r])
<1> DEFINE c == command[r]
<1>1. pc[r] = "decide" /\ Verdict(r) = Accepted
  BY DEF CommitChange
<1>2. view[r] # Null /\ Refusal(view[r], c) = Accepted
  BY <1>1 DEF Verdict, NotFound, Accepted
<1>3. /\ Visible(c.id, c.tenant) /\ view[r] = questions[c.id]
      /\ c.op # "create"
      /\ c.op = "approve" => ~Live(SlotOf(c), now[r])
  BY <1>1, <1>2, VerdictIsCurrent
<1>4. /\ RecordChange(r, c, Apply(questions[c.id], c, now[r]), now[r])
      /\ KeyAfterChange(c, Apply(questions[c.id], c, now[r]), now[r])
  BY <1>3 DEF CommitChange
<1>5. Ledger!Unserved(r)
  BY <1>1, NotYetServed
<1> QED
  BY <1>2, <1>3, <1>4, <1>5, SameWrites, SameKeys, SameRules DEF Ledger!Change

LEMMA CommitIsRefuse ==
  ASSUME Shape, Isolation, NEW r \in Requests, NEW answered \in BOOLEAN,
         CommitRefusal(r, answered)
  PROVE  Ledger!Refuse(r, command[r], now[r])
<1> DEFINE c == command[r]
<1>1. pc[r] = "decide" /\ Verdict(r) # Accepted
  BY DEF CommitRefusal
<1>2. /\ RecordRefusal(r, c, Verdict(r), now[r])
      /\ KeyAfterRefusal(c, now[r])
  BY DEF CommitRefusal
<1>3. /\ c.op # "create"
      /\ c.op = "approve" => ~Live(SlotOf(c), now[r])
  BY <1>1, VerdictIsCurrent
<1>4. Ledger!Unserved(r)
  BY <1>1, NotYetServed
<1>5. CASE view[r] = Null
  <2>1. ~Visible(c.id, c.tenant) /\ Verdict(r) = NotFound
    BY <1>1, <1>5, VerdictIsCurrent DEF Verdict
  <2> QED
    BY <1>2, <1>3, <1>4, <2>1, SameWrites, SameKeys, SameRules DEF Ledger!Refuse
<1>6. CASE view[r] # Null
  <2>1. Visible(c.id, c.tenant) /\ Verdict(r) = Refusal(questions[c.id], c)
    BY <1>1, <1>6, VerdictIsCurrent DEF Verdict
  <2> QED
    BY <1>1, <1>2, <1>3, <1>4, <2>1, SameWrites, SameKeys, SameRules DEF Ledger!Refuse
<1> QED
  BY <1>5, <1>6

LEMMA StepIsLedgerStep ==
  ASSUME Shape, Isolation, [Next]_vars
  PROVE  [Ledger!Next]_(Ledger!tables)
<1>1. ASSUME NEW r \in Requests, NEW answered \in BOOLEAN,
             \/ InsertQuestion(r, answered)
             \/ CommitChange(r, answered)
             \/ CommitRefusal(r, answered)
      PROVE  Ledger!Next
  <2>1. command[r] \in Commands /\ now[r] \in Instants
    BY <1>1, Arrived DEF InsertQuestion, CommitChange, CommitRefusal
  <2>2. \/ Ledger!Create(r, command[r], now[r])
        \/ Ledger!Change(r, command[r], now[r])
        \/ Ledger!Refuse(r, command[r], now[r])
    BY <1>1, InsertIsCreate, CommitIsChange, CommitIsRefuse
  <2> QED
    BY <2>1, <2>2 DEF Ledger!Next
<1>2. ASSUME UNCHANGED tables
      PROVE  UNCHANGED Ledger!tables
  BY <1>2 DEF tables, Ledger!tables
<1>3. ASSUME NEW r \in Requests, Handle(r)
      PROVE  Ledger!Next \/ UNCHANGED tables
  BY <1>1, <1>3
     DEF Handle, Commit, LockKey, RefuseReusedKey, MissKey, LockRow, MissRow, ReplayAnswer
<1> QED
  BY <1>2, <1>3 DEF Next, Receive, LoseConnection, Tick, vars

(***************************************************************************)
(* ADR-0002, for every instance: the store's transactions, with their      *)
(* locks, lost connections and lost answers, implement atomic commands.    *)
(***************************************************************************)
THEOREM StoreImplementsLedger == Spec => LedgerSpec
<1>1. Init => Ledger!EmptyTables
  BY DEF Init, EmptyTables, Ledger!EmptyTables, Ledger!NoVersion, NoVersion,
         Ledger!Slots, Slots
<1>2. Shape /\ Isolation /\ [Next]_vars => [Ledger!Next]_(Ledger!tables)
  BY StepIsLedgerStep
<1> QED
  BY <1>1, <1>2, IsolationHolds, PTL DEF Spec, LedgerSpec, Ledger!Spec
-----------------------------------------------------------------------------
(***************************************************************************)
(* PgQuestionStore keeps the contract of IQuestionStore: what a caller is  *)
(* told is the outcome of one atomic step, or "unavailable".  A caller is  *)
(* told once, at the end.                                                  *)
(***************************************************************************)
Untold == \A r \in Requests : pc[r] # "done" => reply[r] = NoReply

LEMMA UntoldStep ==
  ASSUME Shape, Untold, [Next]_vars
  PROVE  Untold'
<1>1. ASSUME NEW r \in Requests, NEW rep, Finish(r, rep)
      PROVE  Untold'
  BY <1>1 DEF Finish, Untold, Shape, TypeOK
<1>2. ASSUME UNCHANGED reply,
             \A r \in Requests : pc[r] = "done" => pc'[r] = "done"
      PROVE  Untold'
  BY <1>2 DEF Untold
<1>3. ASSUME NEW r \in Requests, Handle(r) \/ LoseConnection(r)
      PROVE  Untold'
  <2>1. \/ \E rep : Finish(r, rep)
        \/ /\ UNCHANGED reply
           /\ pc[r] # "done"
           /\ \A s \in Requests \ {r} : pc'[s] = pc[s]
    BY <1>3 DEF Handle, LoseConnection, Commit, InsertQuestion, ReplayAnswer,
       CommitChange, CommitRefusal, LockKey, RefuseReusedKey, MissKey, LockRow, MissRow,
       Shape, TypeOK
  <2> QED
    BY <2>1, <1>1, <1>2
<1>4. ASSUME NEW r \in Requests, NEW c \in Commands, Receive(r, c)
      PROVE  Untold'
  BY <1>4, <1>2 DEF Receive, Shape, TypeOK
<1>5. ASSUME Tick \/ UNCHANGED vars
      PROVE  Untold'
  BY <1>5, <1>2 DEF Tick, vars, handlers
<1> QED
  BY <1>3, <1>4, <1>5 DEF Next
-----------------------------------------------------------------------------
(***************************************************************************)
(* The contract's operators are the store's own.                           *)
(***************************************************************************)
LEMMA ContractRules ==
  ASSUME NEW c, NEW q, NEW at
  PROVE  /\ Contract!NewQuestion(c, at) = NewQuestion(c, at)
         /\ Contract!Refusal(q, c) = Refusal(q, c)
         /\ Contract!Apply(q, c, at) = Apply(q, c, at)
         /\ Contract!Visible(c.id, c.tenant) <=> Visible(c.id, c.tenant)
         /\ Contract!Accepted = Accepted
<1>1. Contract!NewQuestion(c, at) = NewQuestion(c, at)
  BY DEF Contract!NewQuestion, NewQuestion, Contract!NoInstant, NoInstant,
         Contract!NoVersion, NoVersion
<1>2. Contract!Accepted = Accepted
  BY DEF Contract!Accepted, Accepted
<1>3. Contract!Refusal(q, c) = Refusal(q, c)
  BY <1>2 DEF Contract!Refusal, Contract!UpdateRefusal, Contract!SubmitRefusal,
     Contract!ReturnRefusal, Contract!ApproveRefusal, Contract!WithdrawRefusal,
     Refusal, UpdateRefusal, SubmitRefusal, ReturnRefusal, ApproveRefusal, WithdrawRefusal
<1>4. Contract!Apply(q, c, at) = Apply(q, c, at)
  BY DEF Contract!Apply, Contract!Updated, Contract!Submitted, Contract!Returned,
     Contract!Approved, Contract!Withdrawn, Contract!Advance,
     Apply, Updated, Submitted, Returned, Approved, Withdrawn, Advance
<1>5. Contract!Visible(c.id, c.tenant) <=> Visible(c.id, c.tenant)
  BY DEF Contract!Visible, Visible
<1> QED
  BY <1>1, <1>2, <1>3, <1>4, <1>5

LEMMA ContractKeys ==
  ASSUME NEW c, NEW q, NEW at
  PROVE  /\ Contract!KeyAfterChange(c, q, at) <=> KeyAfterChange(c, q, at)
         /\ Contract!KeyAfterRefusal(c, at) <=> KeyAfterRefusal(c, at)
         /\ Contract!KeyIsFree(c, at) <=> (c.op = "approve" => ~Live(SlotOf(c), at))
         /\ Contract!Live(Contract!SlotOf(c), at) <=> Live(SlotOf(c), at)
         /\ Contract!SlotOf(c) = SlotOf(c)
         /\ Contract!Fingerprint(c) = Fingerprint(c)
BY DEF Contract!KeyAfterChange, Contract!KeyAfterRefusal, Contract!StoreAnswer,
       Contract!DropExpired, Contract!KeyIsFree, Contract!Live, Contract!SlotOf,
       Contract!Fingerprint, KeyAfterChange, KeyAfterRefusal, StoreAnswer,
       DropExpired, Live, SlotOf, Fingerprint

LEMMA ContractReplies ==
  /\ \A q : Contract!Ok(q) = Ok(q)
  /\ \A code : Contract!Refused(code) = Refused(code)
  /\ Contract!NoReply = NoReply
  /\ Contract!Unavailable = Unavailable
  /\ Contract!NotFound = NotFound
  /\ Contract!KeyReused = KeyReused
BY DEF Contract!Ok, Ok, Contract!Refused, Refused, Contract!NoReply, NoReply,
       Contract!Unavailable, Unavailable,
       Contract!NotFound, NotFound, Contract!KeyReused, KeyReused
-----------------------------------------------------------------------------
(***************************************************************************)
(* Step by step.                                                           *)
(***************************************************************************)
\* The end of a transaction tells the caller its outcome or "unavailable".
LEMMA FinishIsTold ==
  ASSUME Shape, Untold, NEW r \in Requests, pc[r] \notin {"idle", "done"},
         NEW rep, NEW answered \in BOOLEAN,
         Finish(r, Answer(answered, rep))
  PROVE  Contract!Ask(r, command[r]) /\ Contract!Tell(r, rep)
<1>1. Answer(answered, rep) \in {rep, Unavailable}
  BY DEF Answer
<1>2. Contract!Tell(r, rep)
  BY <1>1, ContractReplies DEF Finish, Untold, Contract!Tell
<1>3. Contract!Ask(r, command[r])
  BY DEF Finish, Shape, TypeOK, Contract!Ask
<1> QED
  BY <1>2, <1>3

LEMMA InsertKeepsContract ==
  ASSUME Shape, Untold, Isolation, NEW r \in Requests, NEW answered \in BOOLEAN,
         InsertQuestion(r, answered)
  PROVE  Contract!Create(r, command[r], now[r])
<1>1. /\ pc[r] = "insert" /\ command[r].op = "create"
      /\ Finish(r, Answer(answered, Ok(NewQuestion(command[r], now[r]))))
  BY DEF InsertQuestion, Shape, StepsFitCommand
<1>2. /\ Contract!Ask(r, command[r])
      /\ Contract!Tell(r, Ok(NewQuestion(command[r], now[r])))
  BY <1>1, FinishIsTold
<1> QED
  BY <1>1, <1>2, ContractRules, ContractReplies
     DEF InsertQuestion, RecordChange, Contract!Create

LEMMA LookupKeepsContract ==
  ASSUME Shape, Untold, NEW r \in Requests, NEW answered \in BOOLEAN,
         ReplayAnswer(r, answered) \/ RefuseReusedKey(r)
  PROVE  Contract!Repeat(r, command[r], now[r])
<1> DEFINE s == SlotOf(command[r])
<1>1. /\ pc[r] = "lookup" /\ command[r].op = "approve" /\ Live(s, now[r])
      /\ UNCHANGED <<questions, idempotency>>
  BY DEF ReplayAnswer, RefuseReusedKey, Shape, StepsFitCommand, tables
<1>2. Refused(KeyReused) = Answer(TRUE, Refused(KeyReused))
  BY DEF Answer
<1>3. /\ Contract!Ask(r, command[r])
      /\ IF idempotency[s].fingerprint = Fingerprint(command[r])
         THEN Contract!Tell(r, Ok(idempotency[s].result))
         ELSE Contract!Tell(r, Refused(KeyReused))
  <2>1. CASE ReplayAnswer(r, answered)
    <3>1. /\ idempotency[s].fingerprint = Fingerprint(command[r])
          /\ Finish(r, Answer(answered, Ok(idempotency[s].result)))
      BY <2>1 DEF ReplayAnswer
    <3> QED
      BY <1>1, <3>1, FinishIsTold
  <2>2. CASE RefuseReusedKey(r)
    <3>1. /\ idempotency[s].fingerprint # Fingerprint(command[r])
          /\ Finish(r, Answer(TRUE, Refused(KeyReused)))
      BY <1>2, <2>2 DEF RefuseReusedKey
    <3> QED
      BY <1>1, <3>1, FinishIsTold
  <2> QED
    BY <2>1, <2>2
<1> QED
  BY <1>1, <1>3, ContractKeys, ContractReplies DEF Contract!Repeat

LEMMA CommitChangeKeepsContract ==
  ASSUME Shape, Untold, Isolation, NEW r \in Requests, NEW answered \in BOOLEAN,
         CommitChange(r, answered)
  PROVE  Contract!Change(r, command[r], now[r])
<1> DEFINE c == command[r]
<1> DEFINE q == Apply(questions[c.id], c, now[r])
<1>1. pc[r] = "decide" /\ Verdict(r) = Accepted
  BY DEF CommitChange
<1>2. view[r] # Null /\ Refusal(view[r], c) = Accepted
  BY <1>1 DEF Verdict, NotFound, Accepted
<1>3. /\ Visible(c.id, c.tenant) /\ view[r] = questions[c.id]
      /\ c.op # "create"
      /\ c.op = "approve" => ~Live(SlotOf(c), now[r])
  BY <1>1, <1>2, VerdictIsCurrent
<1>4. /\ questions' = [questions EXCEPT ![c.id] = q]
      /\ KeyAfterChange(c, q, now[r])
      /\ Finish(r, Answer(answered, Ok(q)))
  BY <1>3 DEF CommitChange, RecordChange
<1>5. Contract!Ask(r, c) /\ Contract!Tell(r, Ok(q))
  BY <1>1, <1>4, FinishIsTold
<1> QED
  BY <1>2, <1>3, <1>4, <1>5, ContractRules, ContractKeys, ContractReplies
     DEF Contract!Change

LEMMA CommitRefusalKeepsContract ==
  ASSUME Shape, Untold, Isolation, NEW r \in Requests, NEW answered \in BOOLEAN,
         CommitRefusal(r, answered)
  PROVE  Contract!Refuse(r, command[r], now[r])
<1> DEFINE c == command[r]
<1>1. /\ pc[r] = "decide" /\ Verdict(r) # Accepted
      /\ UNCHANGED questions
      /\ KeyAfterRefusal(c, now[r])
      /\ Finish(r, Answer(answered, Refused(Verdict(r))))
  BY DEF CommitRefusal, RecordRefusal
<1>2. Contract!Ask(r, c) /\ Contract!Tell(r, Refused(Verdict(r)))
  BY <1>1, FinishIsTold
<1>3. /\ c.op # "create"
      /\ c.op = "approve" => ~Live(SlotOf(c), now[r])
  BY <1>1, VerdictIsCurrent
<1>4. \/ ~Visible(c.id, c.tenant) /\ Verdict(r) = NotFound
      \/ Visible(c.id, c.tenant) /\ Verdict(r) = Refusal(questions[c.id], c)
  BY <1>1, VerdictIsCurrent DEF Verdict
<1> QED
  BY <1>1, <1>2, <1>3, <1>4, ContractRules, ContractKeys, ContractReplies
     DEF Contract!Refuse

LEMMA FailureKeepsContract ==
  ASSUME Shape, Untold, NEW r \in Requests, LoseConnection(r)
  PROVE  Contract!Fail(r)
<1>1. /\ pc[r] \notin {"idle", "done"}
      /\ Finish(r, Answer(FALSE, Unavailable))
      /\ UNCHANGED <<questions, idempotency>>
  BY DEF LoseConnection, InFlight, Answer, tables
<1>2. Contract!Tell(r, Unavailable)
  BY <1>1, FinishIsTold
<1> QED
  BY <1>1, <1>2, ContractReplies DEF Contract!Fail, Finish

LEMMA StepKeepsContract ==
  ASSUME Shape, Untold, Isolation, [Next]_vars
  PROVE  [Contract!Next]_(Contract!promise)
<1>1. ASSUME NEW r \in Requests, NEW answered \in BOOLEAN,
             \/ InsertQuestion(r, answered)
             \/ ReplayAnswer(r, answered)
             \/ RefuseReusedKey(r)
             \/ CommitChange(r, answered)
             \/ CommitRefusal(r, answered)
      PROVE  Contract!Next
  <2>1. command[r] \in Commands /\ now[r] \in Instants
    BY <1>1, Arrived DEF InsertQuestion, ReplayAnswer, RefuseReusedKey,
       CommitChange, CommitRefusal
  <2>2. \/ Contract!Create(r, command[r], now[r])
        \/ Contract!Change(r, command[r], now[r])
        \/ Contract!Refuse(r, command[r], now[r])
        \/ Contract!Repeat(r, command[r], now[r])
    BY <1>1, InsertKeepsContract, LookupKeepsContract, CommitChangeKeepsContract,
       CommitRefusalKeepsContract
  <2> QED
    BY <2>1, <2>2 DEF Contract!Next
<1>2. ASSUME NEW r \in Requests, NEW c \in Commands, Receive(r, c)
      PROVE  Contract!Next
  <2>1. Contract!Receive(r, c)
    BY <1>2 DEF Receive, tables, Contract!Receive, Contract!Ask, Shape, StepsFitCommand
  <2> QED
    BY <2>1 DEF Contract!Next
<1>3. ASSUME UNCHANGED <<tables, command, reply>>
      PROVE  UNCHANGED Contract!promise
  BY <1>3 DEF tables, Contract!promise
<1>4. ASSUME NEW r \in Requests, Handle(r)
      PROVE  Contract!Next \/ UNCHANGED <<tables, command, reply>>
  BY <1>1, <1>4 DEF Handle, Commit, LockKey, MissKey, LockRow, MissRow
<1>5. ASSUME NEW r \in Requests, LoseConnection(r)
      PROVE  Contract!Next
  BY <1>5, FailureKeepsContract DEF Contract!Next
<1>6. ASSUME Tick \/ UNCHANGED vars
      PROVE  UNCHANGED <<tables, command, reply>>
  BY <1>6 DEF Tick, vars, handlers
<1> QED
  BY <1>2, <1>3, <1>4, <1>5, <1>6 DEF Next

(***************************************************************************)
(* The contract of IQuestionStore, for every instance: in spite of waits,  *)
(* lost connections, lost answers and retries, what a caller of the        *)
(* PostgreSQL store is told is the outcome of one atomic step.             *)
(***************************************************************************)
THEOREM StoreKeepsContract == Spec => ContractSpec
<1>1. Init => Contract!Init
  BY ContractReplies DEF Init, EmptyTables, Contract!Init, Contract!Slots, Slots
<1>2. Init => Untold
  BY DEF Init, Untold
<1>3. Shape /\ Untold /\ [Next]_vars => Untold'
  BY UntoldStep
<1>4. Shape /\ Untold /\ Isolation /\ [Next]_vars => [Contract!Next]_(Contract!promise)
  BY StepKeepsContract
<1> QED
  BY <1>1, <1>2, <1>3, <1>4, IsolationHolds, PTL DEF Spec, ContractSpec, Contract!Spec

-----------------------------------------------------------------------------
(***************************************************************************)
(* A step seen from the tables and the callers.  A request either writes a *)
(* revision, or records a refusal, or repeats a stored answer; every other *)
(* step leaves the tables alone and tells nobody more than "unavailable".  *)
(***************************************************************************)
TellsOnly(r) == \A s \in Requests \ {r} : reply'[s] = reply[s]

Inserts(r, q) ==
  /\ pc[r] = "insert"
  /\ command[r].op = "create"
  /\ questions[command[r].id] = Null
  /\ q = NewQuestion(command[r], now[r])
  /\ q.version = 1
  /\ UNCHANGED idempotency

Revises(r, q) ==
  LET c == command[r]
  IN /\ pc[r] = "decide"
     /\ c.op \in Changes
     /\ questions[c.id] \in Question
     /\ Visible(c.id, c.tenant)
     /\ Refusal(questions[c.id], c) = Accepted
     /\ q = Apply(questions[c.id], c, now[r])
     /\ q.version = questions[c.id].version + 1
     /\ c.op = "approve" => ~Live(SlotOf(c), now[r])
     /\ KeyAfterChange(c, q, now[r])

Writes(r, q) ==
  /\ pc'[r] = "done"
  /\ TellsOnly(r)
  /\ q.tenant = command[r].tenant
  /\ q.updatedAt = now[r]
  /\ RecordChange(r, command[r], q, now[r])
  /\ Inserts(r, q) \/ Revises(r, q)
  /\ reply'[r] \in {Ok(q), Unavailable}

Refuses(r) ==
  LET c == command[r]
  IN /\ pc[r] = "decide"
     /\ pc'[r] = "done"
     /\ TellsOnly(r)
     /\ Verdict(r) \in RefusalCodes \union {NotFound}
     /\ Verdict(r) # NotFound => Visible(c.id, c.tenant)
     /\ RecordRefusal(r, c, Verdict(r), now[r])
     /\ c.op = "approve" => ~Live(SlotOf(c), now[r])
     /\ KeyAfterRefusal(c, now[r])
     /\ reply'[r] \in {Refused(Verdict(r)), Unavailable}

Repeats(r) ==
  LET s == SlotOf(command[r])
  IN /\ pc[r] = "lookup"
     /\ pc'[r] = "done"
     /\ TellsOnly(r)
     /\ UNCHANGED tables
     /\ command[r].op = "approve"
     /\ Live(s, now[r])
     /\ IF idempotency[s].fingerprint = Fingerprint(command[r])
        THEN reply'[r] \in {Ok(idempotency[s].result), Unavailable}
        ELSE reply'[r] = Refused(KeyReused)

TablesKept ==
  /\ UNCHANGED tables
  /\ \A s \in Requests : reply'[s] \in {reply[s], Unavailable}

\* What no step takes back.
Steady ==
  /\ \A s \in Requests :
       pc[s] # "idle" => pc'[s] # "idle" /\ command'[s] = command[s] /\ now'[s] = now[s]
  /\ \A s \in Requests :
       pc[s] = "done" => pc'[s] = "done" /\ reply'[s] = reply[s]
  /\ clock \in Nat /\ clock' \in Nat /\ clock <= clock'

StepKind ==
  \/ \E r \in Requests, q \in Question : Writes(r, q)
  \/ \E r \in Requests : Refuses(r)
  \/ \E r \in Requests : Repeats(r)
  \/ TablesKept
-----------------------------------------------------------------------------
LEMMA FinishTellsOnly ==
  ASSUME Shape, NEW r \in Requests, NEW rep, Finish(r, rep)
  PROVE  pc'[r] = "done" /\ reply'[r] = rep /\ TellsOnly(r)
BY DEF Finish, Shape, TypeOK, TellsOnly

LEMMA InsertWrites ==
  ASSUME Shape, NEW r \in Requests, NEW answered \in BOOLEAN, InsertQuestion(r, answered)
  PROVE  \E q \in Question : Writes(r, q)
<1> DEFINE q == NewQuestion(command[r], now[r])
<1>1. /\ pc[r] = "insert" /\ command[r].op = "create"
      /\ questions[command[r].id] = Null
      /\ RecordChange(r, command[r], q, now[r])
      /\ UNCHANGED idempotency
      /\ Finish(r, Answer(answered, Ok(q)))
  BY DEF InsertQuestion, Shape, StepsFitCommand
<1>2. q \in Question /\ q.version = 1 /\ q.tenant = command[r].tenant /\ q.updatedAt = now[r]
  BY <1>1, Arrived, NewQuestionType
<1>3. Answer(answered, Ok(q)) \in {Ok(q), Unavailable}
  BY DEF Answer
<1>4. Inserts(r, q)
  BY <1>1, <1>2 DEF Inserts
<1> HIDE DEF q
<1>5. Writes(r, q)
  BY <1>1, <1>2, <1>3, <1>4, FinishTellsOnly DEF Writes
<1> QED
  BY <1>2, <1>5

LEMMA ChangeWrites ==
  ASSUME Shape, Isolation, NEW r \in Requests, NEW answered \in BOOLEAN,
         CommitChange(r, answered)
  PROVE  \E q \in Question : Writes(r, q)
<1> DEFINE c == command[r]
<1> DEFINE q == Apply(view[r], c, now[r])
<1>1. /\ pc[r] = "decide" /\ Verdict(r) = Accepted
      /\ RecordChange(r, c, q, now[r])
      /\ KeyAfterChange(c, q, now[r])
      /\ Finish(r, Answer(answered, Ok(q)))
  BY DEF CommitChange
<1>2. view[r] # Null /\ Refusal(view[r], c) = Accepted
  BY <1>1 DEF Verdict, NotFound, Accepted
<1>3. /\ view[r] = questions[c.id]
      /\ view[r].tenant = c.tenant
      /\ Visible(c.id, c.tenant)
      /\ c.op = "approve" => ~Live(SlotOf(c), now[r])
  BY <1>1, <1>2, VerdictIsCurrent DEF Visible
<1>4. view[r] \in Question /\ c.op \in Changes /\ c \in Command /\ now[r] \in Instants
  BY <1>1, VerdictType, Arrived
<1>5. /\ q \in Question /\ q.version = view[r].version + 1
      /\ q.tenant = c.tenant /\ q.updatedAt = now[r]
  BY <1>3, <1>4, ApplyType
<1>6. Answer(answered, Ok(q)) \in {Ok(q), Unavailable}
  BY DEF Answer
<1>7. Revises(r, q)
  BY <1>1, <1>2, <1>3, <1>4, <1>5 DEF Revises
<1> HIDE DEF q
<1>8. Writes(r, q)
  BY <1>1, <1>5, <1>6, <1>7, FinishTellsOnly DEF Writes
<1> QED
  BY <1>5, <1>8

LEMMA RefusalRefuses ==
  ASSUME Shape, Isolation, NEW r \in Requests, NEW answered \in BOOLEAN,
         CommitRefusal(r, answered)
  PROVE  Refuses(r)
<1> DEFINE c == command[r]
<1>1. /\ pc[r] = "decide" /\ Verdict(r) # Accepted
      /\ RecordRefusal(r, c, Verdict(r), now[r])
      /\ KeyAfterRefusal(c, now[r])
      /\ Finish(r, Answer(answered, Refused(Verdict(r))))
  BY DEF CommitRefusal
<1>2. Verdict(r) \in RefusalCodes \union {NotFound}
  BY <1>1, VerdictType
<1>3. /\ Verdict(r) # NotFound => Visible(c.id, c.tenant)
      /\ c.op = "approve" => ~Live(SlotOf(c), now[r])
  BY <1>1, VerdictIsCurrent DEF Verdict
<1>4. Answer(answered, Refused(Verdict(r))) \in {Refused(Verdict(r)), Unavailable}
  BY DEF Answer
<1> QED
  BY <1>1, <1>2, <1>3, <1>4, FinishTellsOnly DEF Refuses

LEMMA LookupRepeats ==
  ASSUME Shape, NEW r \in Requests, NEW answered \in BOOLEAN,
         ReplayAnswer(r, answered) \/ RefuseReusedKey(r)
  PROVE  Repeats(r)
<1> DEFINE s == SlotOf(command[r])
<1>1. /\ pc[r] = "lookup" /\ command[r].op = "approve" /\ Live(s, now[r])
      /\ UNCHANGED tables
  BY DEF ReplayAnswer, RefuseReusedKey, Shape, StepsFitCommand
<1>2. CASE ReplayAnswer(r, answered)
  <2>1. /\ idempotency[s].fingerprint = Fingerprint(command[r])
        /\ Finish(r, Answer(answered, Ok(idempotency[s].result)))
    BY <1>2 DEF ReplayAnswer
  <2>2. Answer(answered, Ok(idempotency[s].result)) \in {Ok(idempotency[s].result), Unavailable}
    BY DEF Answer
  <2> QED
    BY <1>1, <2>1, <2>2, FinishTellsOnly DEF Repeats
<1>3. CASE RefuseReusedKey(r)
  <2>1. /\ idempotency[s].fingerprint # Fingerprint(command[r])
        /\ Finish(r, Refused(KeyReused))
    BY <1>3 DEF RefuseReusedKey
  <2> QED
    BY <1>1, <2>1, FinishTellsOnly DEF Repeats
<1> QED
  BY <1>2, <1>3

LEMMA EveryStepHasAKind ==
  ASSUME Shape, Isolation, [Next]_vars
  PROVE  StepKind
<1>1. ASSUME NEW r \in Requests, Handle(r)
      PROVE  StepKind
  <2>1. CASE LockKey(r) \/ MissKey(r) \/ LockRow(r) \/ MissRow(r)
    BY <2>1 DEF LockKey, MissKey, LockRow, MissRow, TablesKept, StepKind
  <2>2. CASE RefuseReusedKey(r)
    BY <2>2, LookupRepeats DEF StepKind
  <2>3. CASE Commit(r)
    BY <2>3, InsertWrites, ChangeWrites, RefusalRefuses, LookupRepeats DEF Commit, StepKind
  <2> QED
    BY <1>1, <2>1, <2>2, <2>3 DEF Handle
<1>2. ASSUME NEW r \in Requests, LoseConnection(r)
      PROVE  StepKind
  BY <1>2, FinishTellsOnly DEF LoseConnection, TablesKept, TellsOnly, StepKind
<1>3. CASE (\E r \in Requests, c \in Commands : Receive(r, c)) \/ Tick \/ UNCHANGED vars
  BY <1>3 DEF Receive, Tick, vars, handlers, TablesKept, StepKind
<1> QED
  BY <1>1, <1>2, <1>3 DEF Next

LEMMA EveryStepIsSteady ==
  ASSUME Shape, [Next]_vars
  PROVE  Steady
<1>0. clock \in Nat
  BY InstantsAreNat DEF Shape, TypeOK
<1>1. ASSUME NEW r \in Requests, Handle(r) \/ LoseConnection(r)
      PROVE  Steady
  <2>1. \/ \E rep : Finish(r, rep)
        \/ /\ UNCHANGED <<reply, command, now, clock>>
           /\ pc'[r] # "idle"
           /\ \A s \in Requests \ {r} : pc'[s] = pc[s]
    BY <1>1 DEF Handle, LoseConnection, Commit, InsertQuestion, ReplayAnswer,
       CommitChange, CommitRefusal, LockKey, RefuseReusedKey, MissKey, LockRow, MissRow,
       Shape, TypeOK
  <2>2. pc[r] # "done" /\ pc[r] # "idle"
    BY <1>1 DEF Handle, LoseConnection, InFlight, Commit, InsertQuestion, ReplayAnswer,
       CommitChange, CommitRefusal, LockKey, RefuseReusedKey, MissKey, LockRow, MissRow
  <2> QED
    BY <1>0, <2>1, <2>2 DEF Steady, Finish, Shape, TypeOK
<1>2. ASSUME NEW r \in Requests, NEW c \in Commands, Receive(r, c)
      PROVE  Steady
  <2>1. FirstStep(c) # "idle"
    BY DEF FirstStep
  <2> QED
    BY <1>0, <1>2, <2>1 DEF Receive, Steady, Shape, TypeOK
<1>3. CASE Tick
  BY <1>0, <1>3 DEF Tick, handlers, Steady
<1>4. CASE UNCHANGED vars
  BY <1>0, <1>4 DEF vars, handlers, Steady
<1> QED
  BY <1>1, <1>2, <1>3, <1>4 DEF Next
-----------------------------------------------------------------------------
(***************************************************************************)
(* The inductive invariant: what the listed properties need besides        *)
(* themselves and the isolation of the requests.                           *)
(***************************************************************************)
\* A revision was written by a request that is done, of its own tenant.
Attributed ==
  \A rev \in revisions :
    /\ pc[rev.request] = "done"
    /\ command[rev.request].id = rev.id
    /\ rev.question.tenant = command[rev.request].tenant

\* Nothing but a withdrawal follows an approval.
ApprovalIsFinal ==
  \A rev \in revisions :
    command[rev.request].op = "approve" =>
      questions[rev.id].status \in {"PUBLISHED", "WITHDRAWN"}

\* A code other than "not found" and "key reused" tells of the tenant's own row.
RefusedInTenant ==
  \A r \in Requests :
    reply[r].status = "refused" /\ reply[r].code \notin {NotFound, KeyReused} =>
      Visible(command[r].id, command[r].tenant)

NowIsPast == \A r \in Requests : pc[r] # "idle" => now[r] <= clock

\* An approval's answer is stored until its time is over.
Remembered ==
  \A rev \in revisions :
    LET c == command[rev.request]
        s == SlotOf(c)
        end == now[rev.request] + RetentionTime
    IN c.op = "approve" =>
         \/ clock >= end
         \/ /\ idempotency[s] # Null
            /\ idempotency[s].fingerprint = Fingerprint(c)
            /\ idempotency[s].expiresAt = end

Chronicle ==
  /\ Attributed
  /\ RowIsNewestRevision
  /\ LawfulHistory
  /\ NoLostUpdate
  /\ AuditMatchesHistory
  /\ ApprovalIsFinal
  /\ ApprovedOnce
  /\ PublicIsReviewed
  /\ StoredAnswersAreCommitted
  /\ AnswersAreTrue
  /\ RefusedInTenant
  /\ NowIsPast
  /\ Remembered

-----------------------------------------------------------------------------
(***************************************************************************)
(* The new revision, and those that were there.                            *)
(***************************************************************************)
NewRev(r, q) == [id |-> command[r].id, question |-> q, request |-> r]

LEMMA RevisionType ==
  ASSUME Shape, Attributed, NEW rev \in revisions
  PROVE  /\ rev \in Revision
         /\ rev.request \in Requests /\ rev.id \in QuestionIds /\ rev.question \in Question
         /\ rev.question.version \in Nat \ {0}
         /\ pc[rev.request] # "idle"
         /\ command[rev.request] \in Command
         /\ now[rev.request] \in Instants
<1>1. rev \in Revision
  BY DEF Shape, TypeOK
<1>2. rev.request \in Requests /\ rev.id \in QuestionIds /\ rev.question \in Question
  BY <1>1 DEF Revision
<1>3. pc[rev.request] # "idle"
  BY DEF Attributed
<1> QED
  BY <1>1, <1>2, <1>3, Arrived DEF Question

\* What a write does, with the request's command known to be well-formed.
LEMMA WriteFacts ==
  ASSUME Shape, Isolation, Attributed, RowIsNewestRevision,
         NEW r \in Requests, NEW q \in Question, Writes(r, q)
  PROVE  /\ command[r] \in Command /\ now[r] \in Instants
         /\ command[r].id \in QuestionIds
         /\ pc[r] \notin {"idle", "done"} /\ pc'[r] = "done"
         /\ questions'[command[r].id] = q /\ q # Null
         /\ \A id \in QuestionIds \ {command[r].id} : questions'[id] = questions[id]
         /\ revisions' = revisions \union {NewRev(r, q)}
         /\ audit' = audit \union {Entry(r, command[r], "success", now[r])}
         /\ \A rev \in revisions : rev.request # r
         /\ \A rev \in revisions :
              rev.id = command[r].id => rev.question.version < q.version
<1>1. pc[r] \notin {"idle", "done"}
  BY DEF Writes, Inserts, Revises
<1>2. command[r] \in Command /\ now[r] \in Instants /\ command[r].id \in QuestionIds
  BY <1>1, Arrived
<1>3. /\ questions'[command[r].id] = q
      /\ \A id \in QuestionIds \ {command[r].id} : questions'[id] = questions[id]
      /\ revisions' = revisions \union {NewRev(r, q)}
      /\ audit' = audit \union {Entry(r, command[r], "success", now[r])}
  BY <1>2 DEF Writes, RecordChange, NewRev, Shape, TypeOK
<1>4. \A rev \in revisions : rev.request # r
  BY <1>1 DEF Attributed
<1>5. ASSUME NEW rev \in revisions, rev.id = command[r].id
      PROVE  rev.question.version < q.version
  <2>1. questions[rev.id] # Null /\ rev.question.version <= questions[rev.id].version
    BY DEF RowIsNewestRevision
  <2>2. Revises(r, q)
    BY <1>5, <2>1 DEF Writes, Inserts
  <2>3. questions[rev.id] \in Question /\ q.version = questions[rev.id].version + 1
    BY <1>5, <2>2 DEF Revises
  <2>4. questions[rev.id].version \in Nat /\ rev.question.version \in Nat
    BY <2>3, RevisionType DEF Question
  <2> QED
    BY <2>1, <2>3, <2>4
<1>6. q # Null /\ pc'[r] = "done"
  BY DomainAssumption DEF Writes
<1> QED
  BY <1>1, <1>2, <1>3, <1>4, <1>5, <1>6
-----------------------------------------------------------------------------
(***************************************************************************)
(* Steps that write no revision.                                           *)
(***************************************************************************)
\* questions and revisions stay, and requests that are done stay as they are.
LEMMA RevisionsStay ==
  ASSUME Shape, Chronicle, Steady, UNCHANGED <<questions, publishedRevision, revisions>>
  PROVE  /\ Attributed' /\ RowIsNewestRevision' /\ LawfulHistory' /\ NoLostUpdate'
         /\ ApprovalIsFinal' /\ ApprovedOnce' /\ PublicIsReviewed'
<1>1. \A rev \in revisions :
        /\ pc'[rev.request] = "done"
        /\ command'[rev.request] = command[rev.request]
        /\ now'[rev.request] = now[rev.request]
  BY RevisionType DEF Chronicle, Attributed, Steady
<1>2. Attributed'
  BY <1>1 DEF Chronicle, Attributed
<1>3. RowIsNewestRevision'
  BY DEF Chronicle, RowIsNewestRevision
<1>4. LawfulHistory'
  BY <1>1 DEF Chronicle, LawfulHistory, Follows
<1>5. NoLostUpdate'
  BY <1>1 DEF Chronicle, NoLostUpdate
<1>6. ApprovalIsFinal' /\ ApprovedOnce'
  BY <1>1 DEF Chronicle, ApprovalIsFinal, ApprovedOnce
<1>7. PublicIsReviewed'
  <2>1. \A r \in Requests : command[r] # Null => command'[r] = command[r]
    BY DEF Steady, Shape, StepsFitCommand
  <2> QED
    BY <2>1 DEF Chronicle, PublicIsReviewed, PublicQuestions, Visible
<1> QED
  BY <1>2, <1>3, <1>4, <1>5, <1>6, <1>7
-----------------------------------------------------------------------------
(***************************************************************************)
(* A write, conjunct by conjunct.                                          *)
(***************************************************************************)
LEMMA WrittenRevisions ==
  ASSUME Shape, Isolation, Chronicle, Steady,
         NEW r \in Requests, NEW q \in Question, Writes(r, q)
  PROVE  /\ Attributed'
         /\ NewRev(r, q) \in revisions' /\ revisions \subseteq revisions'
         /\ command'[r] = command[r] /\ now'[r] = now[r]
         /\ \A rev \in revisions :
              /\ command'[rev.request] = command[rev.request]
              /\ now'[rev.request] = now[rev.request]
<1>1. /\ revisions' = revisions \union {NewRev(r, q)}
      /\ pc[r] # "idle" /\ pc'[r] = "done"
  BY WriteFacts DEF Chronicle
<1>2. command'[r] = command[r] /\ now'[r] = now[r]
  BY <1>1 DEF Steady
<1>3. \A rev \in revisions :
        /\ pc'[rev.request] = "done"
        /\ command'[rev.request] = command[rev.request]
        /\ now'[rev.request] = now[rev.request]
  BY RevisionType DEF Chronicle, Attributed, Steady
<1>4. Attributed'
  BY <1>1, <1>2, <1>3 DEF Chronicle, Attributed, NewRev, Writes
<1> QED
  BY <1>1, <1>2, <1>3, <1>4

LEMMA WriteIsNewest ==
  ASSUME Shape, Isolation, Chronicle, Steady,
         NEW r \in Requests, NEW q \in Question, Writes(r, q)
  PROVE  RowIsNewestRevision'
<1> DEFINE new == NewRev(r, q)
<1>0. RowIsNewestRevision /\ Attributed
  BY DEF Chronicle
<1>1. /\ revisions' = revisions \union {new}
      /\ command[r].id \in QuestionIds
      /\ questions'[command[r].id] = q /\ q # Null
      /\ \A id \in QuestionIds \ {command[r].id} : questions'[id] = questions[id]
      /\ \A rev \in revisions : rev.request # r
      /\ \A rev \in revisions : rev.id = command[r].id => rev.question.version < q.version
  BY <1>0, WriteFacts
<1>2. new.id = command[r].id /\ new.question = q /\ new.request = r
  BY DEF NewRev
<1>3. \A rev \in revisions : rev.question.version \in Nat /\ rev.id \in QuestionIds
  BY <1>0, RevisionType
<1>4. q.version \in Nat
  BY DEF Question
<1> HIDE DEF new
<1>5. ASSUME NEW id \in QuestionIds, questions'[id] # Null
      PROVE  \E rev \in revisions' : rev.id = id /\ rev.question = questions'[id]
  <2>1. CASE id = command[r].id
    BY <1>1, <1>2, <2>1
  <2>2. CASE id # command[r].id
    BY <1>0, <1>1, <1>5, <2>2 DEF RowIsNewestRevision
  <2> QED
    BY <2>1, <2>2
<1>6. ASSUME NEW rev \in revisions'
      PROVE  questions'[rev.id] # Null /\ rev.question.version <= questions'[rev.id].version
  <2>1. CASE rev = new
    BY <1>1, <1>2, <1>4, <2>1
  <2>2. CASE rev \in revisions
    BY <1>0, <1>1, <1>3, <1>4, <2>2 DEF RowIsNewestRevision
  <2> QED
    BY <1>1, <2>1, <2>2
<1>7. ASSUME NEW rev \in revisions', NEW other \in revisions', rev # other
      PROVE  /\ rev.request # other.request
             /\ rev.id = other.id => rev.question.version # other.question.version
  <2>1. CASE rev \in revisions /\ other \in revisions
    BY <1>0, <1>7, <2>1 DEF RowIsNewestRevision
  <2>2. CASE rev = new /\ other \in revisions
    BY <1>1, <1>2, <1>3, <1>4, <2>2
  <2>3. CASE other = new /\ rev \in revisions
    BY <1>1, <1>2, <1>3, <1>4, <2>3
  <2> QED
    BY <1>1, <1>7, <2>1, <2>2, <2>3
<1> QED
  BY <1>5, <1>6, <1>7 DEF RowIsNewestRevision

\* The revision that a change follows is the row it replaced.
LEMMA WriteIsLawful ==
  ASSUME Shape, Isolation, Chronicle, Steady,
         NEW r \in Requests, NEW q \in Question, Writes(r, q)
  PROVE  LawfulHistory' /\ NoLostUpdate'
<1> DEFINE c == command[r]
<1>0. RowIsNewestRevision /\ Attributed /\ LawfulHistory /\ NoLostUpdate
  BY DEF Chronicle
<1>1. /\ revisions' = revisions \union {NewRev(r, q)}
      /\ c.id \in QuestionIds /\ c \in Command
  BY <1>0, WriteFacts
<1>2. PICK new :
        /\ new.id = c.id /\ new.question = q /\ new.request = r
        /\ revisions' = revisions \union {new}
  BY <1>1 DEF NewRev
<1>3. /\ command'[r] = c /\ now'[r] = now[r]
      /\ \A rev \in revisions :
           command'[rev.request] = command[rev.request] /\ now'[rev.request] = now[rev.request]
  BY WrittenRevisions
<1>4. ASSUME NEW rev \in revisions
      PROVE  /\ command'[rev.request].id = rev.id
             /\ \/ /\ command'[rev.request].op = "create"
                   /\ rev.question = NewQuestion(command'[rev.request], now'[rev.request])
                \/ \E prev \in revisions' : Follows(rev, prev)'
             /\ command'[rev.request].op \in {"update", "approve"} =>
                  rev.question.version = command'[rev.request].expected + 1
  BY <1>0, <1>1, <1>3 DEF LawfulHistory, NoLostUpdate, Follows
<1>5. CASE Inserts(r, q)
  <2>1. c.op = "create" /\ q = NewQuestion(c, now[r])
    BY <1>5 DEF Inserts
  <2> QED
    BY <1>1, <1>2, <1>3, <1>4, <2>1 DEF LawfulHistory, NoLostUpdate
<1>6. CASE Revises(r, q)
  <2>1. /\ c.op \in Changes /\ questions[c.id] \in Question
        /\ Refusal(questions[c.id], c) = Accepted
        /\ q = Apply(questions[c.id], c, now[r])
        /\ q.version = questions[c.id].version + 1
    BY <1>6 DEF Revises
  <2>2. PICK prev \in revisions : prev.id = c.id /\ prev.question = questions[c.id]
    BY <1>0, <1>1, <2>1, DomainAssumption DEF RowIsNewestRevision
  <2>3. Follows(new, prev)'
    BY <1>2, <1>3, <2>1, <2>2 DEF Follows, Changes, Operations
  <2>4. c.op \in {"update", "approve"} => questions[c.id].version = c.expected
    BY <2>1 DEF Refusal, UpdateRefusal, ApproveRefusal, Accepted
  <2> QED
    BY <1>1, <1>2, <1>3, <1>4, <2>1, <2>2, <2>3, <2>4 DEF LawfulHistory, NoLostUpdate
<1> QED
  BY <1>5, <1>6 DEF Writes

LEMMA WriteIsAudited ==
  ASSUME Shape, Isolation, Chronicle, Steady,
         NEW r \in Requests, NEW q \in Question, Writes(r, q)
  PROVE  AuditMatchesHistory'
<1> DEFINE new == NewRev(r, q)
<1> DEFINE row == Entry(r, command[r], "success", now[r])
<1>1. /\ revisions' = revisions \union {new}
      /\ audit' = audit \union {row}
      /\ pc[r] # "done"
      /\ AuditMatchesHistory
  BY WriteFacts DEF Chronicle
<1>2. new.id = command[r].id /\ new.question = q /\ new.request = r
  BY DEF NewRev
<1>3. /\ row.request = r /\ row.target = command[r].id
      /\ row.result = "success" /\ row.at = q.updatedAt
  BY DEF Entry, Writes
<1>4. \A e \in audit : e.request # r
  BY <1>1 DEF Isolation, Isolated, Unaudited
<1> HIDE DEF new, row
<1>5. \A rev \in revisions' :
        \E e \in audit' :
          /\ e.request = rev.request /\ e.target = rev.id
          /\ e.result = "success" /\ e.at = rev.question.updatedAt
  BY <1>1, <1>2, <1>3 DEF AuditMatchesHistory
<1>6. \A e \in audit' :
        e.result = "success" => \E rev \in revisions' : rev.request = e.request
  BY <1>1, <1>2, <1>3 DEF AuditMatchesHistory
<1>7. \A e, other \in audit' : e.request = other.request => e = other
  BY <1>1, <1>3, <1>4 DEF AuditMatchesHistory
<1> QED
  BY <1>5, <1>6, <1>7 DEF AuditMatchesHistory

\* An approval needs a question in review, and leaves one that never is again.
LEMMA ChangeOfStatus ==
  ASSUME NEW q \in Question, NEW c \in Command, NEW at \in Instants,
         c.op \in Changes, Refusal(q, c) = Accepted
  PROVE  LET p == Apply(q, c, at)
         IN /\ c.op = "approve" =>
                 /\ q.status = "IN_REVIEW" /\ p.status = "PUBLISHED"
                 /\ q.owner # c.actor /\ q.version = c.expected
                 /\ p.content = q.content /\ p.owner = q.owner
                 /\ p.approvedVersion = q.version /\ p.approvedBy = c.actor
            /\ p.status = "PUBLISHED" => c.op = "approve"
            /\ q.status \in {"PUBLISHED", "WITHDRAWN"} => p.status = "WITHDRAWN"
<1>1. CASE c.op = "update"
  BY <1>1, UpdatedEffect DEF Refusal, UpdateRefusal, Accepted, Keeps
<1>2. CASE c.op = "submit"
  BY <1>2, SubmittedEffect DEF Refusal, SubmitRefusal, Accepted, Keeps
<1>3. CASE c.op = "return"
  BY <1>3, ReturnedEffect DEF Refusal, ReturnRefusal, Accepted, Keeps
<1>4. CASE c.op = "approve"
  BY <1>4, ApprovedEffect DEF Refusal, ApproveRefusal, Accepted, Keeps
<1>5. CASE c.op = "withdraw"
  BY <1>5, WithdrawnEffect DEF Refusal, WithdrawRefusal, Accepted, Keeps
<1> QED
  BY <1>1, <1>2, <1>3, <1>4, <1>5 DEF Changes, Operations

LEMMA WriteApprovesOnce ==
  ASSUME Shape, Isolation, Chronicle, Steady,
         NEW r \in Requests, NEW q \in Question, Writes(r, q)
  PROVE  ApprovalIsFinal' /\ ApprovedOnce'
<1> DEFINE c == command[r]
<1> DEFINE new == NewRev(r, q)
<1>0. RowIsNewestRevision /\ Attributed /\ ApprovalIsFinal /\ ApprovedOnce
  BY DEF Chronicle
<1>1. /\ revisions' = revisions \union {new}
      /\ c.id \in QuestionIds /\ c \in Command /\ now[r] \in Instants
      /\ questions'[c.id] = q
      /\ \A id \in QuestionIds \ {c.id} : questions'[id] = questions[id]
  BY <1>0, WriteFacts
<1>2. new.id = c.id /\ new.question = q /\ new.request = r
  BY DEF NewRev
<1>3. /\ command'[r] = c
      /\ \A rev \in revisions : command'[rev.request] = command[rev.request]
      /\ \A rev \in revisions : rev.id \in QuestionIds
  BY <1>0, WrittenRevisions, RevisionType
<1> HIDE DEF new
<1>4. ASSUME NEW rev \in revisions, rev.id = c.id, command[rev.request].op = "approve"
      PROVE  q.status = "WITHDRAWN" /\ c.op # "approve"
  <2>1. /\ questions[c.id] # Null
        /\ questions[c.id].status \in {"PUBLISHED", "WITHDRAWN"}
    BY <1>0, <1>4 DEF RowIsNewestRevision, ApprovalIsFinal
  <2>2. Revises(r, q)
    BY <2>1 DEF Writes, Inserts
  <2> QED
    BY <1>1, <2>1, <2>2, ChangeOfStatus DEF Revises
<1>5. c.op = "approve" => q.status = "PUBLISHED"
  <2>1. CASE Inserts(r, q)
    BY <2>1 DEF Inserts
  <2>2. CASE Revises(r, q)
    BY <1>1, <2>2, ChangeOfStatus DEF Revises
  <2> QED
    BY <2>1, <2>2 DEF Writes
<1>6. ApprovalIsFinal'
  BY <1>0, <1>1, <1>2, <1>3, <1>4, <1>5 DEF ApprovalIsFinal
<1>7. ApprovedOnce'
  BY <1>0, <1>1, <1>2, <1>3, <1>4 DEF ApprovedOnce
<1> QED
  BY <1>6, <1>7

LEMMA WriteIsReviewed ==
  ASSUME Shape, Isolation, Chronicle, Steady,
         NEW r \in Requests, NEW q \in Question, Writes(r, q)
  PROVE  PublicIsReviewed'
<1> DEFINE c == command[r]
<1>0. RowIsNewestRevision /\ Attributed /\ PublicIsReviewed
  BY DEF Chronicle
<1>1. /\ c.id \in QuestionIds /\ c \in Command /\ now[r] \in Instants
      /\ questions'[c.id] = q
      /\ \A id \in QuestionIds \ {c.id} : questions'[id] = questions[id]
      /\ revisions \subseteq revisions'
      /\ command'[r] = c /\ c # Null
  BY <1>0, WriteFacts, WrittenRevisions, DomainAssumption
<1>2. /\ publishedRevision'[c.id] = PublishedRevisionOf(c.id, q)
      /\ \A id \in QuestionIds \ {c.id} : publishedRevision'[id] = publishedRevision[id]
  BY <1>1 DEF Writes, RecordChange, Shape, TypeOK
<1>3. \A s \in Requests : command[s] # Null => command'[s] = command[s]
  BY DEF Steady, Shape, StepsFitCommand
<1>4. SUFFICES ASSUME NEW t \in Tenants, NEW id \in PublicQuestions(t)'
               PROVE  /\ publishedRevision'[id] = questions'[id].approvedVersion
                      /\ \E rev \in revisions' :
                           /\ rev.id = id
                           /\ rev.question.version = publishedRevision'[id]
                           /\ rev.question.status = "IN_REVIEW"
                           /\ rev.question.content = questions'[id].content
                      /\ \E s \in Requests :
                           /\ command'[s] # Null
                           /\ command'[s].op = "approve"
                           /\ command'[s].id = id
                           /\ command'[s].actor = questions'[id].approvedBy
                           /\ command'[s].actor # questions'[id].owner
                           /\ command'[s].expected = publishedRevision'[id]
  BY DEF PublicIsReviewed
<1>5. /\ id \in QuestionIds /\ questions'[id] # Null
      /\ questions'[id].tenant = t /\ questions'[id].status = "PUBLISHED"
  BY DEF PublicQuestions, Visible
<1>6. CASE id # c.id
  <2>1. questions'[id] = questions[id] /\ publishedRevision'[id] = publishedRevision[id]
    BY <1>1, <1>2, <1>5, <1>6
  <2>2. id \in PublicQuestions(t)
    BY <1>5, <2>1 DEF PublicQuestions, Visible
  <2> QED
    BY <1>0, <1>1, <1>3, <2>1, <2>2 DEF PublicIsReviewed
<1>7. CASE id = c.id
  <2>1. q.status = "PUBLISHED"
    BY <1>1, <1>5, <1>7
  <2>2. Revises(r, q)
    BY <2>1 DEF Writes, Inserts, NewQuestion
  <2>3. /\ questions[c.id] \in Question
        /\ c.op = "approve" /\ questions[c.id].status = "IN_REVIEW"
        /\ questions[c.id].owner # c.actor /\ questions[c.id].version = c.expected
        /\ q.content = questions[c.id].content /\ q.owner = questions[c.id].owner
        /\ q.approvedVersion = questions[c.id].version /\ q.approvedBy = c.actor
    BY <1>1, <2>1, <2>2, ChangeOfStatus DEF Revises
  <2>4. PICK prev \in revisions : prev.id = c.id /\ prev.question = questions[c.id]
    BY <1>0, <1>1, <2>3, DomainAssumption DEF RowIsNewestRevision
  <2>5. publishedRevision'[c.id] = q.approvedVersion
    BY <1>2, <2>3, <2>4 DEF PublishedRevisionOf
  <2> QED
    BY <1>1, <1>7, <2>3, <2>4, <2>5
<1> QED
  BY <1>6, <1>7
-----------------------------------------------------------------------------
(***************************************************************************)
(* Stored answers.                                                         *)
(***************************************************************************)
LEMMA WriteKeepsAnswers ==
  ASSUME Shape, Isolation, Chronicle, Steady,
         NEW r \in Requests, NEW q \in Question, Writes(r, q)
  PROVE  StoredAnswersAreCommitted' /\ Remembered'
<1> DEFINE c == command[r]
<1>0. RowIsNewestRevision /\ Attributed /\ StoredAnswersAreCommitted /\ Remembered /\ NowIsPast
  BY DEF Chronicle
<1>1. /\ revisions' = revisions \union {NewRev(r, q)}
      /\ c \in Command /\ now[r] \in Instants /\ pc[r] # "idle"
      /\ SlotOf(c) \in Slots
  BY <1>0, WriteFacts, Arrived
<1>2. PICK new :
        /\ new.id = c.id /\ new.question = q /\ new.request = r
        /\ revisions' = revisions \union {new}
  BY <1>1 DEF NewRev
<1>3. /\ command'[r] = c /\ now'[r] = now[r]
      /\ \A rev \in revisions :
           command'[rev.request] = command[rev.request] /\ now'[rev.request] = now[rev.request]
  BY WrittenRevisions
<1>4. ASSUME NEW rev \in revisions
      PROVE  now[rev.request] + RetentionTime \in Nat
  <2>1. now[rev.request] \in Instants
    BY <1>0, RevisionType
  <2>2. now[rev.request] \in Nat /\ RetentionTime \in Nat
    BY <2>1, InstantsAreNat, AnswersAssumption
  <2> QED
    BY <2>2
<1>5. clock \in Nat /\ clock' \in Nat /\ clock <= clock' /\ now[r] \in Nat /\ now[r] <= clock
  BY <1>0, <1>1, InstantsAreNat DEF Steady, NowIsPast
<1>6. CASE c.op = "approve"
  <2> DEFINE answer == [fingerprint |-> Fingerprint(c), result |-> q,
                        expiresAt |-> now[r] + RetentionTime]
  <2>1. Revises(r, q)
    BY <1>6 DEF Writes, Inserts
  <2>2. /\ idempotency' = [idempotency EXCEPT ![SlotOf(c)] = answer]
        /\ ~Live(SlotOf(c), now[r])
    BY <1>6, <2>1 DEF Revises, KeyAfterChange, StoreAnswer
  <2>3. /\ idempotency'[SlotOf(c)] = answer
        /\ \A s \in Slots \ {SlotOf(c)} : idempotency'[s] = idempotency[s]
    BY <1>1, <2>2 DEF Shape, TypeOK
  <2>4. answer # Null
    <3>1. Fingerprint(c) \in Tenants \X QuestionIds \X Subjects \X (Nat \ {0})
      BY <1>1 DEF Fingerprint, Command
    <3>2. answer \in StoredApproval
      BY <1>5, <3>1, AnswersAssumption DEF StoredApproval
    <3> QED
      BY <3>2, AnswersAssumption
  <2>5. /\ answer.fingerprint = Fingerprint(c) /\ answer.result = q
        /\ answer.expiresAt = now[r] + RetentionTime
    OBVIOUS
  <2> HIDE DEF answer
  <2>6. StoredAnswersAreCommitted'
    <3> SUFFICES ASSUME NEW s \in Slots, idempotency'[s] # Null
                 PROVE  \E rev \in revisions' :
                          LET d == command'[rev.request]
                          IN /\ d.op = "approve"
                             /\ SlotOf(d) = s
                             /\ Fingerprint(d) = idempotency'[s].fingerprint
                             /\ rev.question = idempotency'[s].result
                             /\ idempotency'[s].expiresAt = now'[rev.request] + RetentionTime
      BY DEF StoredAnswersAreCommitted, SlotOf, Fingerprint
    <3>1. CASE s = SlotOf(c)
      BY <1>2, <1>3, <1>6, <2>3, <2>5, <3>1
    <3>2. CASE s # SlotOf(c)
      BY <1>0, <1>2, <1>3, <2>3, <3>2 DEF StoredAnswersAreCommitted
    <3> QED
      BY <3>1, <3>2
  <2>7. Remembered'
    <3> SUFFICES ASSUME NEW rev \in revisions', command'[rev.request].op = "approve",
                        ~(clock' >= now'[rev.request] + RetentionTime)
                 PROVE  LET d == command'[rev.request]
                            s == SlotOf(d)
                        IN /\ idempotency'[s] # Null
                           /\ idempotency'[s].fingerprint = Fingerprint(d)
                           /\ idempotency'[s].expiresAt = now'[rev.request] + RetentionTime
      BY DEF Remembered, SlotOf, Fingerprint
    <3>1. CASE rev = new
      BY <1>2, <1>3, <2>3, <2>4, <2>5, <3>1
    <3>2. CASE rev \in revisions
      <4> DEFINE d == command[rev.request]
      <4>1. command'[rev.request] = d /\ now'[rev.request] = now[rev.request]
        BY <1>3, <3>2
      <4>2. SlotOf(d) \in Slots
        BY <1>0, <3>2, RevisionType, Arrived
      <4>3. ~(clock >= now[rev.request] + RetentionTime)
        BY <1>4, <1>5, <3>2, <4>1
      <4>4. /\ idempotency[SlotOf(d)] # Null
            /\ idempotency[SlotOf(d)].fingerprint = Fingerprint(d)
            /\ idempotency[SlotOf(d)].expiresAt = now[rev.request] + RetentionTime
        BY <1>0, <3>2, <4>1, <4>3 DEF Remembered
      <4>5. SlotOf(d) # SlotOf(c)
        BY <1>4, <1>5, <2>2, <3>2, <4>3, <4>4 DEF Live
      <4> QED
        BY <2>3, <4>1, <4>2, <4>4, <4>5
    <3> QED
      BY <1>2, <3>1, <3>2
  <2> QED
    BY <2>6, <2>7
<1>7. CASE c.op # "approve"
  <2>1. idempotency' = idempotency
    BY <1>7 DEF Writes, Inserts, Revises, KeyAfterChange
  <2>2. StoredAnswersAreCommitted'
    BY <1>0, <1>2, <1>3, <2>1 DEF StoredAnswersAreCommitted
  <2>3. Remembered'
    BY <1>0, <1>2, <1>3, <1>4, <1>5, <1>7, <2>1 DEF Remembered
  <2> QED
    BY <2>2, <2>3
<1> QED
  BY <1>6, <1>7

\* Removing an expired answer, or leaving the keys alone, forgets nothing.
LEMMA QuietKeepsAnswers ==
  ASSUME Shape, Chronicle, Steady, UNCHANGED revisions,
         \A s \in Slots :
           idempotency'[s] # idempotency[s] =>
             idempotency'[s] = Null /\ ~Live(s, clock)
  PROVE  StoredAnswersAreCommitted' /\ Remembered'
<1>0. Attributed /\ StoredAnswersAreCommitted /\ Remembered
  BY DEF Chronicle
<1>1. \A rev \in revisions :
        command'[rev.request] = command[rev.request] /\ now'[rev.request] = now[rev.request]
  BY <1>0, RevisionType DEF Steady
<1>2. StoredAnswersAreCommitted'
  BY <1>0, <1>1 DEF StoredAnswersAreCommitted
<1>3. Remembered'
  <2> SUFFICES ASSUME NEW rev \in revisions, command[rev.request].op = "approve",
                      ~(clock' >= now[rev.request] + RetentionTime)
               PROVE  LET d == command[rev.request]
                          s == SlotOf(d)
                      IN /\ idempotency'[s] # Null
                         /\ idempotency'[s].fingerprint = Fingerprint(d)
                         /\ idempotency'[s].expiresAt = now[rev.request] + RetentionTime
    BY <1>1 DEF Remembered, SlotOf, Fingerprint
  <2> DEFINE d == command[rev.request]
  <2> DEFINE end == now[rev.request] + RetentionTime
  <2>1. now[rev.request] \in Instants /\ SlotOf(d) \in Slots
    BY <1>0, RevisionType, Arrived
  <2>2. now[rev.request] \in Nat /\ RetentionTime \in Nat
    BY <2>1, InstantsAreNat, AnswersAssumption
  <2>3. clock \in Nat /\ clock' \in Nat /\ clock <= clock'
    BY DEF Steady
  <2>4. end \in Nat /\ ~(clock >= end) /\ end > clock
    BY <2>2, <2>3
  <2>5. /\ idempotency[SlotOf(d)] # Null
        /\ idempotency[SlotOf(d)].fingerprint = Fingerprint(d)
        /\ idempotency[SlotOf(d)].expiresAt = end
    BY <1>0, <2>4 DEF Remembered
  <2>6. Live(SlotOf(d), clock)
    BY <2>4, <2>5 DEF Live
  <2> QED
    BY <2>1, <2>5, <2>6
<1> QED
  BY <1>2, <1>3
-----------------------------------------------------------------------------
(***************************************************************************)
(* What callers were told.                                                 *)
(***************************************************************************)
LEMMA ReplyFields ==
  /\ \A q : Ok(q).status = "ok" /\ Ok(q).result = q
  /\ \A code : Refused(code).status = "refused" /\ Refused(code).code = code
  /\ Unavailable.status = "unavailable"
  /\ NoReply.status = "none"
BY DEF Ok, Refused, Unavailable, NoReply

\* What a request was told stays true while others write.
LEMMA AnswerStaysTrue ==
  ASSUME Shape, Untold, Chronicle, Steady, NEW s \in Requests,
         reply'[s] \in {reply[s], Unavailable},
         revisions \subseteq revisions', audit \subseteq audit',
         \A rev \in revisions' : rev \in revisions \/ rev.request # s,
         \A e \in audit' : e \in audit \/ e.request # s
  PROVE  OkIsDurable(s)' /\ RefusalIsAudited(s)'
<1>1. CASE reply'[s] = Unavailable
  BY <1>1, ReplyFields DEF OkIsDurable, RefusalIsAudited
<1>2. CASE reply'[s] = reply[s] /\ pc[s] # "done"
  BY <1>2, ReplyFields DEF OkIsDurable, RefusalIsAudited, Untold
<1>3. CASE reply'[s] = reply[s] /\ pc[s] = "done"
  <2>1. OkIsDurable(s) /\ RefusalIsAudited(s)
    BY DEF Chronicle, AnswersAreTrue
  <2>2. command'[s] = command[s]
    BY <1>3 DEF Steady
  <2>3. \A rev \in revisions : command'[rev.request] = command[rev.request]
    BY RevisionType DEF Steady, Chronicle
  <2>4. OkIsDurable(s)'
    BY <1>3, <2>1, <2>2, <2>3 DEF OkIsDurable, SameApproval, SlotOf, Fingerprint
  <2>5. RefusalIsAudited(s)'
    BY <1>3, <2>1 DEF RefusalIsAudited
  <2> QED
    BY <2>4, <2>5
<1> QED
  BY <1>1, <1>2, <1>3

LEMMA WriteTellsTruth ==
  ASSUME Shape, Isolation, Untold, Chronicle, Steady,
         NEW r \in Requests, NEW q \in Question, Writes(r, q)
  PROVE  AnswersAreTrue'
<1>1. /\ revisions' = revisions \union {NewRev(r, q)}
      /\ audit' = audit \union {Entry(r, command[r], "success", now[r])}
      /\ command'[r] = command[r]
  BY WriteFacts, WrittenRevisions DEF Chronicle
<1>2. NewRev(r, q).request = r /\ NewRev(r, q).id = command[r].id /\ NewRev(r, q).question = q
  BY DEF NewRev
<1>3. Entry(r, command[r], "success", now[r]).request = r
  BY DEF Entry
<1>4. ASSUME NEW s \in Requests \ {r}
      PROVE  OkIsDurable(s)' /\ RefusalIsAudited(s)'
  <2>1. reply'[s] = reply[s]
    BY DEF Writes, TellsOnly
  <2> QED
    BY <1>1, <1>2, <1>3, <2>1, AnswerStaysTrue
<1>5. OkIsDurable(r)' /\ RefusalIsAudited(r)'
  <2>1. reply'[r] \in {Ok(q), Unavailable}
    BY DEF Writes
  <2> QED
    BY <1>1, <1>2, <2>1, ReplyFields DEF OkIsDurable, RefusalIsAudited
<1> QED
  BY <1>4, <1>5 DEF AnswersAreTrue

LEMMA RefusalTellsTruth ==
  ASSUME Shape, Isolation, Untold, Chronicle, Steady, NEW r \in Requests, Refuses(r)
  PROVE  AnswersAreTrue' /\ AuditMatchesHistory'
<1> DEFINE row == Entry(r, command[r], Verdict(r), now[r])
<1>1. /\ revisions' = revisions
      /\ audit' = audit \union {row}
      /\ pc[r] = "decide"
      /\ reply'[r] \in {Refused(Verdict(r)), Unavailable}
      /\ Verdict(r) \in RefusalCodes \union {NotFound}
  BY DEF Refuses, RecordRefusal
<1>2. row.request = r /\ row.result = Verdict(r)
  BY DEF Entry
<1>3. Verdict(r) # "success" /\ Verdict(r) # KeyReused
  BY <1>1 DEF RefusalCodes, NotFound, KeyReused
<1>4. \A e \in audit : e.request # r
  BY <1>1 DEF Isolation, Isolated, Unaudited
<1>5. \A rev \in revisions : rev.request # r
  BY <1>1 DEF Chronicle, Attributed
<1> HIDE DEF row
<1>6. ASSUME NEW s \in Requests \ {r}
      PROVE  OkIsDurable(s)' /\ RefusalIsAudited(s)'
  <2>1. reply'[s] = reply[s]
    BY DEF Refuses, TellsOnly
  <2> QED
    BY <1>1, <1>2, <2>1, AnswerStaysTrue
<1>7. OkIsDurable(r)' /\ RefusalIsAudited(r)'
  BY <1>1, <1>2, <1>3, <1>5, ReplyFields DEF OkIsDurable, RefusalIsAudited
<1>8. AuditMatchesHistory'
  <2>1. AuditMatchesHistory
    BY DEF Chronicle
  <2>2. \A rev \in revisions' :
          \E e \in audit' :
            /\ e.request = rev.request /\ e.target = rev.id
            /\ e.result = "success" /\ e.at = rev.question.updatedAt
    BY <1>1, <2>1 DEF AuditMatchesHistory
  <2>3. \A e \in audit' :
          e.result = "success" => \E rev \in revisions' : rev.request = e.request
    BY <1>1, <1>2, <1>3, <2>1 DEF AuditMatchesHistory
  <2>4. \A e, other \in audit' : e.request = other.request => e = other
    BY <1>1, <1>2, <1>4, <2>1 DEF AuditMatchesHistory
  <2> QED
    BY <2>2, <2>3, <2>4 DEF AuditMatchesHistory
<1> QED
  BY <1>6, <1>7, <1>8 DEF AnswersAreTrue

LEMMA RepeatTellsTruth ==
  ASSUME Shape, Isolation, Untold, Chronicle, Steady, NEW r \in Requests, Repeats(r)
  PROVE  AnswersAreTrue'
<1> DEFINE s == SlotOf(command[r])
<1>1. /\ revisions' = revisions /\ audit' = audit
      /\ pc[r] = "lookup" /\ command[r].op = "approve" /\ Live(s, now[r])
      /\ IF idempotency[s].fingerprint = Fingerprint(command[r])
         THEN reply'[r] \in {Ok(idempotency[s].result), Unavailable}
         ELSE reply'[r] = Refused(KeyReused)
  BY DEF Repeats, tables
<1>2. ASSUME NEW t \in Requests \ {r}
      PROVE  OkIsDurable(t)' /\ RefusalIsAudited(t)'
  <2>1. reply'[t] = reply[t]
    BY DEF Repeats, TellsOnly
  <2> QED
    BY <1>1, <2>1, AnswerStaysTrue
<1>3. /\ command'[r] = command[r]
      /\ \A rev \in revisions : command'[rev.request] = command[rev.request]
  BY <1>1, RevisionType DEF Steady, Chronicle
<1>4. ASSUME reply'[r] = Unavailable
      PROVE  OkIsDurable(r)' /\ RefusalIsAudited(r)'
  BY <1>4, ReplyFields DEF OkIsDurable, RefusalIsAudited
<1>5. ASSUME idempotency[s].fingerprint = Fingerprint(command[r]),
             reply'[r] = Ok(idempotency[s].result)
      PROVE  OkIsDurable(r)' /\ RefusalIsAudited(r)'
  <2>1. s \in Slots /\ idempotency[s] # Null
    BY <1>1, Arrived DEF Live
  <2>2. PICK rev \in revisions :
          /\ command[rev.request].op = "approve"
          /\ SlotOf(command[rev.request]) = s
          /\ Fingerprint(command[rev.request]) = idempotency[s].fingerprint
          /\ rev.question = idempotency[s].result
    BY <2>1 DEF Chronicle, StoredAnswersAreCommitted
  <2>3. rev.id = command[r].id
    BY <1>5, <2>2 DEF Fingerprint, Chronicle, Attributed
  <2>4. SameApproval(command'[rev.request], command'[r])
    BY <1>1, <1>3, <1>5, <2>2 DEF SameApproval
  <2> QED
    BY <1>1, <1>3, <1>5, <2>2, <2>3, <2>4, ReplyFields DEF OkIsDurable, RefusalIsAudited
<1>6. ASSUME reply'[r] = Refused(KeyReused)
      PROVE  OkIsDurable(r)' /\ RefusalIsAudited(r)'
  <2>1. \A rev \in revisions : rev.request # r
    BY <1>1 DEF Chronicle, Attributed
  <2>2. \A e \in audit : e.request # r
    BY <1>1 DEF Isolation, Isolated, Unaudited
  <2> QED
    BY <1>1, <1>6, <2>1, <2>2, ReplyFields DEF OkIsDurable, RefusalIsAudited
<1> QED
  BY <1>1, <1>2, <1>4, <1>5, <1>6 DEF AnswersAreTrue
-----------------------------------------------------------------------------
(***************************************************************************)
(* Tenants and instants.                                                   *)
(***************************************************************************)
LEMMA RowsKeepTheirTenant ==
  ASSUME Shape, Isolation, Chronicle, StepKind,
         NEW id \in QuestionIds, NEW t, Visible(id, t)
  PROVE  Visible(id, t)'
<1>1. ASSUME NEW r \in Requests, NEW q \in Question, Writes(r, q)
      PROVE  Visible(id, t)'
  <2>1. /\ questions'[command[r].id] = q /\ q # Null
        /\ \A i \in QuestionIds \ {command[r].id} : questions'[i] = questions[i]
    BY <1>1, WriteFacts DEF Chronicle
  <2>2. id = command[r].id => Revises(r, q) /\ q.tenant = t
    BY <1>1 DEF Visible, Writes, Inserts, Revises
  <2> QED
    BY <2>1, <2>2 DEF Visible
<1>2. ASSUME questions' = questions
      PROVE  Visible(id, t)'
  BY <1>2 DEF Visible
<1> QED
  BY <1>1, <1>2 DEF StepKind, Refuses, RecordRefusal, Repeats, TablesKept, tables

LEMMA RefusalsStayInTenant ==
  ASSUME Shape, Isolation, Untold, Chronicle, Steady, StepKind
  PROVE  RefusedInTenant'
<1>1. ASSUME NEW s \in Requests, reply'[s] = reply[s],
             reply[s].status = "refused", reply[s].code \notin {NotFound, KeyReused}
      PROVE  /\ questions'[command'[s].id] # Null
             /\ questions'[command'[s].id].tenant = command'[s].tenant
  <2>1. pc[s] = "done"
    BY <1>1, ReplyFields DEF Untold
  <2>2. command'[s] = command[s] /\ command[s].id \in QuestionIds
    BY <2>1, Arrived DEF Steady
  <2>3. Visible(command[s].id, command[s].tenant)
    BY <1>1 DEF Chronicle, RefusedInTenant
  <2>4. PICK id \in QuestionIds, t \in {command[s].tenant} : id = command[s].id
    BY <2>2
  <2>5. Visible(id, t)'
    BY <2>3, <2>4, RowsKeepTheirTenant
  <2> QED
    BY <2>2, <2>4, <2>5 DEF Visible
<1>2. ASSUME NEW s \in Requests, Refuses(s), reply'[s] = Refused(Verdict(s)),
             Verdict(s) # NotFound
      PROVE  /\ questions'[command'[s].id] # Null
             /\ questions'[command'[s].id].tenant = command'[s].tenant
  <2>1. Visible(command[s].id, command[s].tenant) /\ questions' = questions
    BY <1>2 DEF Refuses, RecordRefusal
  <2>2. command'[s] = command[s]
    BY <1>2 DEF Refuses, Steady
  <2> QED
    BY <2>1, <2>2 DEF Visible
<1>3. ASSUME NEW s \in Requests, reply'[s].status = "refused",
             reply'[s].code \notin {NotFound, KeyReused}
      PROVE  \/ reply'[s] = reply[s]
             \/ /\ Refuses(s) /\ reply'[s] = Refused(Verdict(s))
                /\ Verdict(s) # NotFound
  <2>1. ASSUME NEW r \in Requests, r # s, TellsOnly(r)
        PROVE  reply'[s] = reply[s]
    BY <2>1 DEF TellsOnly
  <2>2. ASSUME NEW q \in Question, Writes(s, q)
        PROVE  FALSE
    BY <1>3, <2>2, ReplyFields DEF Writes
  <2>3. ASSUME Repeats(s)
        PROVE  FALSE
    BY <1>3, <2>3, ReplyFields DEF Repeats
  <2>4. ASSUME Refuses(s)
        PROVE  reply'[s] = Refused(Verdict(s)) /\ Verdict(s) # NotFound
    BY <1>3, <2>4, ReplyFields DEF Refuses
  <2>5. TablesKept => reply'[s] = reply[s]
    BY <1>3, ReplyFields DEF TablesKept
  <2> QED
    BY <2>1, <2>2, <2>3, <2>4, <2>5 DEF StepKind, Writes, Refuses, Repeats
<1> QED
  BY <1>1, <1>2, <1>3 DEF RefusedInTenant, Visible

LEMMA NowStaysPast ==
  ASSUME Shape, NowIsPast, [Next]_vars
  PROVE  NowIsPast'
<1>0. \A r \in Requests : now[r] \in Nat
  <2>1. now \in [Requests -> Instants \union {0}]
    BY DEF Shape, TypeOK, NoInstant
  <2>2. Instants \union {0} \subseteq Nat
    BY InstantsAreNat
  <2> QED
    BY <2>1, <2>2
<1>1. ASSUME NEW r \in Requests, NEW c \in Commands, Receive(r, c)
      PROVE  NowIsPast'
  BY <1>0, <1>1, EveryStepIsSteady DEF Receive, NowIsPast, Shape, TypeOK, Steady
<1>2. ASSUME \A s \in Requests : pc'[s] # "idle" => pc[s] # "idle"
      PROVE  NowIsPast'
  BY <1>0, <1>2, EveryStepIsSteady DEF NowIsPast, Steady
<1>3. ASSUME NEW r \in Requests, Handle(r) \/ LoseConnection(r)
      PROVE  NowIsPast'
  <2>1. pc[r] # "idle" /\ \A s \in Requests \ {r} : pc'[s] = pc[s]
    BY <1>3 DEF Handle, LoseConnection, InFlight, Commit, InsertQuestion, ReplayAnswer,
       CommitChange, CommitRefusal, LockKey, RefuseReusedKey, MissKey, LockRow, MissRow,
       Finish, Shape, TypeOK
  <2> QED
    BY <1>2, <2>1
<1>4. CASE Tick \/ UNCHANGED vars
  BY <1>2, <1>4 DEF Tick, vars, handlers
<1> QED
  BY <1>1, <1>3, <1>4 DEF Next
-----------------------------------------------------------------------------
(***************************************************************************)
(* The invariant.                                                          *)
(***************************************************************************)
LEMMA ChronicleInit == Init => Chronicle
<1> SUFFICES ASSUME Init PROVE Chronicle
  OBVIOUS
<1>1. /\ revisions = {} /\ audit = {}
      /\ questions = [id \in QuestionIds |-> Null]
      /\ idempotency = [s \in Slots |-> Null]
      /\ pc = [r \in Requests |-> "idle"]
      /\ reply = [r \in Requests |-> NoReply]
  BY DEF Init, EmptyTables
<1>2. /\ Attributed /\ LawfulHistory /\ NoLostUpdate /\ AuditMatchesHistory
      /\ ApprovalIsFinal /\ ApprovedOnce /\ Remembered
  BY <1>1 DEF Attributed, LawfulHistory, NoLostUpdate, AuditMatchesHistory,
     ApprovalIsFinal, ApprovedOnce, Remembered
<1>3. RowIsNewestRevision /\ PublicIsReviewed
  BY <1>1 DEF RowIsNewestRevision, PublicIsReviewed, PublicQuestions, Visible
<1>4. StoredAnswersAreCommitted /\ NowIsPast
  BY <1>1 DEF StoredAnswersAreCommitted, NowIsPast
<1>5. AnswersAreTrue /\ RefusedInTenant
  BY <1>1, ReplyFields DEF AnswersAreTrue, OkIsDurable, RefusalIsAudited, RefusedInTenant
<1> QED
  BY <1>2, <1>3, <1>4, <1>5 DEF Chronicle

LEMMA ChronicleNext ==
  ASSUME Shape, Isolation, Untold, Chronicle, [Next]_vars
  PROVE  Chronicle'
<1>1. Steady /\ StepKind
  BY EveryStepIsSteady, EveryStepHasAKind
<1>2. RefusedInTenant' /\ NowIsPast'
  BY <1>1, RefusalsStayInTenant, NowStaysPast DEF Chronicle
<1>3. ASSUME NEW r \in Requests, NEW q \in Question, Writes(r, q)
      PROVE  Chronicle'
  BY <1>1, <1>2, <1>3, WrittenRevisions, WriteIsNewest, WriteIsLawful, WriteIsAudited,
     WriteApprovesOnce, WriteIsReviewed, WriteKeepsAnswers, WriteTellsTruth
     DEF Chronicle
<1>4. ASSUME NEW r \in Requests, Refuses(r)
      PROVE  Chronicle'
  <2>1. /\ UNCHANGED <<questions, publishedRevision, revisions>>
        /\ pc[r] = "decide"
        /\ command[r].op = "approve" => ~Live(SlotOf(command[r]), now[r])
        /\ KeyAfterRefusal(command[r], now[r])
    BY <1>4 DEF Refuses, RecordRefusal
  <2>2. \A s \in Slots :
          idempotency'[s] # idempotency[s] =>
            idempotency'[s] = Null /\ ~Live(s, clock)
    <3>1. /\ now[r] <= clock /\ now[r] \in Nat /\ clock \in Nat
          /\ SlotOf(command[r]) \in Slots
      BY <1>1, <2>1, Arrived, InstantsAreNat DEF Chronicle, NowIsPast, Steady
    <3> SUFFICES ASSUME NEW s \in Slots, idempotency'[s] # idempotency[s]
                 PROVE  idempotency'[s] = Null /\ ~Live(s, clock)
      OBVIOUS
    <3>2. command[r].op = "approve"
      BY <2>1 DEF KeyAfterRefusal
    <3>3. /\ ~Live(SlotOf(command[r]), now[r])
          /\ idempotency' = [idempotency EXCEPT ![SlotOf(command[r])] = Null]
      BY <2>1, <3>2 DEF KeyAfterRefusal, DropExpired
    <3>4. s = SlotOf(command[r]) /\ idempotency'[s] = Null
      BY <3>1, <3>3 DEF Shape, TypeOK
    <3>5. idempotency[s] # Null => idempotency[s].expiresAt \in Nat
      BY DEF Shape, TypeOK, StoredApproval
    <3> QED
      BY <3>1, <3>3, <3>4, <3>5 DEF Live
  <2> QED
    BY <1>1, <1>2, <1>4, <2>1, <2>2, RevisionsStay, QuietKeepsAnswers, RefusalTellsTruth
       DEF Chronicle
<1>5. ASSUME UNCHANGED tables, AnswersAreTrue'
      PROVE  Chronicle'
  <2>1. AuditMatchesHistory'
    BY <1>5 DEF tables, Chronicle, AuditMatchesHistory
  <2> QED
    BY <1>1, <1>2, <1>5, <2>1, RevisionsStay, QuietKeepsAnswers DEF Chronicle, tables
<1>6. ASSUME NEW r \in Requests, Repeats(r)
      PROVE  Chronicle'
  BY <1>1, <1>5, <1>6, RepeatTellsTruth DEF Repeats
<1>7. ASSUME TablesKept
      PROVE  Chronicle'
  <2>1. \A s \in Requests : OkIsDurable(s)' /\ RefusalIsAudited(s)'
    BY <1>1, <1>7, AnswerStaysTrue DEF TablesKept, tables
  <2> QED
    BY <1>5, <1>7, <2>1 DEF TablesKept, AnswersAreTrue
<1> QED
  BY <1>1, <1>3, <1>4, <1>6, <1>7 DEF StepKind
-----------------------------------------------------------------------------
(***************************************************************************)
(* The invariant holds in every state that the store reaches: tables,      *)
(* locks, handlers and replies together.                                   *)
(***************************************************************************)
THEOREM ChronicleHolds == Spec => [](Shape /\ Isolation /\ Untold /\ Chronicle)
<1>1. Init => Shape /\ Isolation /\ Untold /\ Chronicle
  <2>1. Init => Untold
    BY DEF Init, Untold
  <2> QED
    BY <2>1, ShapeInit, IsolationInit, ChronicleInit
<1>2. Shape /\ Isolation /\ Untold /\ Chronicle /\ [Next]_vars
        => Shape' /\ Isolation' /\ Untold' /\ Chronicle'
  BY ShapeNext, IsolationNext, UntoldStep, ChronicleNext
<1> QED
  BY <1>1, <1>2, PTL DEF Spec

(***************************************************************************)
(* Whatever transactions run side by side, fail or are retried, the        *)
(* revisions of a question are the results of accepted commands applied    *)
(* one after another (SaveExistingAsync after LoadRequiredAsync).          *)
(***************************************************************************)
THEOREM HistoryIsLawful == Spec => []LawfulHistory
<1>1. Chronicle => LawfulHistory
  BY DEF Chronicle
<1> QED
  BY <1>1, ChronicleHolds, PTL

(***************************************************************************)
(* No accepted edit or approval replaces a version that its caller had not *)
(* read (the If-Match version of UpdateDraft and Approve).                 *)
(***************************************************************************)
THEOREM NoUpdateIsLost == Spec => []NoLostUpdate
<1>1. Chronicle => NoLostUpdate
  BY DEF Chronicle
<1> QED
  BY <1>1, ChronicleHolds, PTL

(***************************************************************************)
(* The questions, question_revisions and audit_events tables agree after   *)
(* every commit (InsertRevisionAsync and InsertAuditAsync run in the       *)
(* transaction of the change).                                             *)
(***************************************************************************)
THEOREM TablesStayInAgreement == Spec => []TablesAgree
<1>1. Chronicle => TablesAgree
  BY DEF Chronicle, TablesAgree
<1> QED
  BY <1>1, ChronicleHolds, PTL

(***************************************************************************)
(* What an anonymous reader can see is the content that a reviewer other   *)
(* than the owner approved, at the version that the approval named         *)
(* (ListPublicAsync, Question.Approve).                                    *)
(***************************************************************************)
THEOREM PublicWasReviewed == Spec => []PublicIsReviewed
<1>1. Chronicle => PublicIsReviewed
  BY DEF Chronicle
<1> QED
  BY <1>1, ChronicleHolds, PTL

(***************************************************************************)
(* An answer "ok" names a durable revision, and a refusal is audited and   *)
(* has changed nothing, for every request, although answers may be lost    *)
(* and approvals are replayed.                                             *)
(***************************************************************************)
THEOREM CallersAreToldTheTruth == Spec => []AnswersAreTrue
<1>1. Chronicle => AnswersAreTrue
  BY DEF Chronicle
<1> QED
  BY <1>1, ChronicleHolds, PTL

(***************************************************************************)
(* A stored idempotent answer is that of an approval which committed with  *)
(* this key and fingerprint, and expires a retention time after it         *)
(* (SaveIdempotencyAsync).                                                 *)
(***************************************************************************)
THEOREM StoredAnswersAreTrue == Spec => []StoredAnswersAreCommitted
<1>1. Chronicle => StoredAnswersAreCommitted
  BY DEF Chronicle
<1> QED
  BY <1>1, ChronicleHolds, PTL

(***************************************************************************)
(* A question is approved once in its whole life, whatever keys approvals  *)
(* carry and however long after the expiry of an answer they are retried   *)
(* (ApproveAsync).                                                         *)
(***************************************************************************)
THEOREM ApprovalTakesEffectOnce == Spec => []ApprovedOnce
<1>1. Chronicle => ApprovedOnce
  BY DEF Chronicle
<1> QED
  BY <1>1, ChronicleHolds, PTL

(***************************************************************************)
(* A request learns of and changes questions of its own tenant only (row   *)
(* level security, and the tenant in every WHERE clause).                  *)
(***************************************************************************)
THEOREM TenantsAreIsolated == Spec => []TenantIsolation
<1>1. ASSUME Chronicle
      PROVE  TenantIsolation
  <2>1. \A rev \in revisions : rev.question.tenant = command[rev.request].tenant
    BY <1>1 DEF Chronicle, Attributed
  <2>2. ASSUME NEW r \in Requests, reply[r].status = "ok"
        PROVE  reply[r].result.tenant = command[r].tenant
    <3>1. PICK rev \in revisions :
            /\ rev.question = reply[r].result
            /\ rev.request = r \/ SameApproval(command[rev.request], command[r])
      BY <1>1, <2>2 DEF Chronicle, AnswersAreTrue, OkIsDurable
    <3>2. command[rev.request].tenant = command[r].tenant
      BY <3>1 DEF SameApproval, SlotOf
    <3> QED
      BY <2>1, <3>1, <3>2
  <2>3. ASSUME NEW r \in Requests, reply[r].status = "refused",
               questions[command[r].id].tenant # command[r].tenant
        PROVE  reply[r].code \in {NotFound, KeyReused}
    BY <1>1, <2>3 DEF Chronicle, RefusedInTenant, Visible
  <2> QED
    BY <2>1, <2>2, <2>3 DEF TenantIsolation
<1> QED
  BY <1>1, ChronicleHolds, PTL

(***************************************************************************)
(* The retry of an approval that has taken effect is not refused while its *)
(* answer is stored (GetIdempotencyAsync under pg_advisory_xact_lock):     *)
(* what races it waits for the key, and the answer it stored outlives the  *)
(* clock reading of the retry.                                             *)
(***************************************************************************)
THEOREM RetriesAreReplayed == Spec => RetryIsNotRefused
<1>1. ASSUME Shape, Isolation, Chronicle, [Next]_vars, NEW r \in Requests,
             reply[r].status # "refused", reply'[r].status = "refused",
             NEW rev \in revisions, SameApproval(command[rev.request], command[r])
      PROVE  clock >= now[rev.request] + RetentionTime
  <2> DEFINE s == SlotOf(command[r])
  <2> DEFINE end == now[rev.request] + RetentionTime
  <2>1. /\ command[r].op = "approve" /\ command[rev.request].op = "approve"
        /\ SlotOf(command[rev.request]) = s
        /\ Fingerprint(command[rev.request]) = Fingerprint(command[r])
    BY <1>1 DEF SameApproval
  <2>2. \/ clock >= end
        \/ /\ idempotency[s] # Null
           /\ idempotency[s].fingerprint = Fingerprint(command[r])
           /\ idempotency[s].expiresAt = end
    BY <1>1, <2>1 DEF Chronicle, Remembered
  <2>3. StepKind
    BY <1>1, EveryStepHasAKind
  <2>4. ASSUME NEW t \in Requests, t # r
        PROVE  ~TellsOnly(t)
    BY <1>1, <2>4 DEF TellsOnly
  <2>5. ASSUME NEW q \in Question
        PROVE  ~Writes(r, q)
    BY <1>1, ReplyFields DEF Writes
  <2>6. ~TablesKept
    BY <1>1, ReplyFields DEF TablesKept
  <2>7. Refuses(r) \/ Repeats(r)
    BY <2>3, <2>4, <2>5, <2>6 DEF StepKind, Writes, Refuses, Repeats
  <2>8. ASSUME Repeats(r)
        PROVE  idempotency[s].fingerprint # Fingerprint(command[r])
    BY <1>1, <2>8, ReplyFields DEF Repeats
  <2>9. ASSUME Refuses(r), idempotency[s] # Null, idempotency[s].expiresAt = end
        PROVE  clock >= end
    <3>1. pc[r] # "idle" /\ ~Live(s, now[r])
      BY <2>1, <2>9 DEF Refuses
    <3>2. now[r] <= clock /\ now[r] \in Nat /\ clock \in Nat
      BY <1>1, <3>1, Arrived, InstantsAreNat DEF Chronicle, NowIsPast, Shape, TypeOK
    <3>3. now[rev.request] \in Nat
      BY <1>1, RevisionType, InstantsAreNat DEF Chronicle
    <3>4. RetentionTime \in Nat
      BY AnswersAssumption
    <3>5. ~(end > now[r])
      BY <2>9, <3>1 DEF Live
    <3> HIDE DEF s
    <3> QED
      BY <3>2, <3>3, <3>4, <3>5
  <2> QED
    BY <2>2, <2>7, <2>8, <2>9
<1>2. Shape /\ Isolation /\ Chronicle /\ [Next]_vars =>
        [\A r \in Requests :
           /\ reply[r].status # "refused"
           /\ reply'[r].status = "refused"
           => \A rev \in revisions :
                SameApproval(command[rev.request], command[r])
                  => clock >= now[rev.request] + RetentionTime]_vars
  BY <1>1
<1> QED
  BY <1>2, ChronicleHolds, PTL DEF Spec, RetryIsNotRefused
=============================================================================
