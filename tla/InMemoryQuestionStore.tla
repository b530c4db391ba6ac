------------------------ MODULE InMemoryQuestionStore ------------------------
(***************************************************************************)
(* InMemoryQuestionStore: three collections under one lock, so that every  *)
(* operation is one step.  The clock runs on while the lock is held, and   *)
(* all operations but create and approve read it again for their audit     *)
(* row: such a row may be later than the change it records.                *)
(*                                                                         *)
(* Nothing is undone when an operation throws.  ReturnForChanges and       *)
(* Withdraw have no catch clause and every look-up of the question is      *)
(* outside of one: these refusals leave no audit row.                      *)
(***************************************************************************)
EXTENDS QuestionAnswers, FiniteSets

CONSTANT Commands  \* the commands that clients send

ASSUME CommandsAssumption == Commands \subseteq Command

VARIABLES
  audit,    \* the audit records
  command,  \* history: what a request asked for, Null until it is served
  reply,    \* what the caller was told
  clock

vars == <<questions, idempotency, audit, command, reply, clock>>

Init ==
  /\ questions = [id \in QuestionIds |-> Null]
  /\ idempotency = [s \in Slots |-> Null]
  /\ audit = {}
  /\ command = [r \in Requests |-> Null]
  /\ reply = [r \in Requests |-> NoReply]
  /\ clock \in Instants

Serve(r, c, rep) ==
  /\ reply[r] = NoReply
  /\ reply' = [reply EXCEPT ![r] = rep]
  /\ command' = [command EXCEPT ![r] = c]

\* The clock is read a second time.
ReadAgain == clock' \in {at \in Instants : at >= clock}
-----------------------------------------------------------------------------
\* The id of a new question is Guid.NewGuid(): no question has it and no
\* request has named it.
Create(r, c) ==
  LET q == NewQuestion(c, clock)
  IN /\ c.op = "create"
     /\ questions[c.id] = Null
     /\ \A other \in Requests : command[other] # Null => command[other].id # c.id
     /\ questions' = [questions EXCEPT ![c.id] = q]
     /\ audit' = audit \union {Entry(r, c, "success", clock)}
     /\ Serve(r, c, Ok(q))
     /\ UNCHANGED <<idempotency, clock>>

\* The part that Update, Submit, ReturnForChanges and Withdraw share.
Change(r, c) ==
  LET q == Apply(questions[c.id], c, clock)
  IN /\ c.op \in {"update", "submit", "return", "withdraw"}
     /\ Visible(c.id, c.tenant)
     /\ Refusal(questions[c.id], c) = Accepted
     /\ ReadAgain
     /\ questions' = [questions EXCEPT ![c.id] = q]
     /\ audit' = audit \union {Entry(r, c, "success", clock')}
     /\ Serve(r, c, Ok(q))
     /\ UNCHANGED idempotency

\* Update and Submit catch the refusal, audit it and throw it again.
RefuseAudited(r, c) ==
  LET code == Refusal(questions[c.id], c)
  IN /\ c.op \in {"update", "submit"}
     /\ Visible(c.id, c.tenant)
     /\ code # Accepted
     /\ ReadAgain
     /\ audit' = audit \union {Entry(r, c, code, clock')}
     /\ Serve(r, c, Refused(code))
     /\ UNCHANGED <<questions, idempotency>>

RefuseUnaudited(r, c) ==
  LET code == Refusal(questions[c.id], c)
  IN /\ c.op \in {"return", "withdraw"}
     /\ Visible(c.id, c.tenant)
     /\ code # Accepted
     /\ Serve(r, c, Refused(code))
     /\ UNCHANGED <<questions, idempotency, audit, clock>>

\* GetRequired throws before any catch clause.
Miss(r, c) ==
  /\ c.op \in {"update", "submit", "return", "withdraw"}
  /\ ~Visible(c.id, c.tenant)
  /\ Serve(r, c, Refused(NotFound))
  /\ UNCHANGED <<questions, idempotency, audit, clock>>
-----------------------------------------------------------------------------
(***************************************************************************)
(* Approve.                                                                *)
(***************************************************************************)
\* Mutated form: the fingerprint of the stored answer is not compared.
RepeatForAnyone(r, c) ==
  /\ c.op = "approve"
  /\ Live(SlotOf(c), clock)
  /\ Serve(r, c, Ok(idempotency[SlotOf(c)].result))
  /\ UNCHANGED <<questions, idempotency, audit, clock>>

\* The key holds an answer: it is repeated, or the key was used for another
\* command.
Repeat(r, c) ==
  /\ c.op = "approve"
  /\ Live(SlotOf(c), clock)
  /\ IF idempotency[SlotOf(c)].fingerprint = Fingerprint(c)
     THEN Serve(r, c, Ok(idempotency[SlotOf(c)].result))
     ELSE Serve(r, c, Refused(KeyReused))
  /\ UNCHANGED <<questions, idempotency, audit, clock>>

\* Mutated form: an expired answer is ignored and stays in the dictionary.
Unpurged(c) == idempotency

\* The dictionary once the expired answer of the key is removed.
Purged(c) ==
  [idempotency EXCEPT ![SlotOf(c)] = IF Live(SlotOf(c), clock) THEN @ ELSE Null]

\* Dictionary.Add throws when the key is taken.  The question has changed by
\* then, and the audit row is not written.
Approve(r, c) ==
  LET q == Approved(questions[c.id], c, clock)
  IN /\ c.op = "approve"
     /\ ~Live(SlotOf(c), clock)
     /\ Visible(c.id, c.tenant)
     /\ Refusal(questions[c.id], c) = Accepted
     /\ questions' = [questions EXCEPT ![c.id] = q]
     /\ IF Purged(c)[SlotOf(c)] = Null
        THEN /\ StoreAnswer(c, q, clock)
             /\ audit' = audit \union {Entry(r, c, "success", clock)}
             /\ Serve(r, c, Ok(q))
        ELSE /\ idempotency' = Purged(c)
             /\ UNCHANGED audit
             /\ Serve(r, c, Unavailable)
     /\ UNCHANGED clock

RefuseApproval(r, c) ==
  LET code == Refusal(questions[c.id], c)
  IN /\ c.op = "approve"
     /\ ~Live(SlotOf(c), clock)
     /\ Visible(c.id, c.tenant)
     /\ code # Accepted
     /\ ReadAgain
     /\ idempotency' = Purged(c)
     /\ audit' = audit \union {Entry(r, c, code, clock')}
     /\ Serve(r, c, Refused(code))
     /\ UNCHANGED questions

MissApproval(r, c) ==
  /\ c.op = "approve"
  /\ ~Live(SlotOf(c), clock)
  /\ ~Visible(c.id, c.tenant)
  /\ idempotency' = Purged(c)
  /\ Serve(r, c, Refused(NotFound))
  /\ UNCHANGED <<questions, audit, clock>>
-----------------------------------------------------------------------------
Tick ==
  /\ clock + 1 \in Instants
  /\ clock' = clock + 1
  /\ UNCHANGED <<questions, idempotency, audit, command, reply>>

Operate(r, c) ==
  \/ Create(r, c)
  \/ Change(r, c)
  \/ RefuseAudited(r, c)
  \/ RefuseUnaudited(r, c)
  \/ Miss(r, c)
  \/ Repeat(r, c)
  \/ Approve(r, c)
  \/ RefuseApproval(r, c)
  \/ MissApproval(r, c)

Next == Tick \/ \E r \in Requests, c \in Commands : Operate(r, c)

Spec == Init /\ [][Next]_vars
-----------------------------------------------------------------------------
(***************************************************************************)
(* The collections, the audit, the history and the replies keep their      *)
(* types.                                                                  *)
(***************************************************************************)
TypeOK ==
  /\ questions \in [QuestionIds -> Question \union {Null}]
  /\ idempotency \in [Slots -> StoredApproval \union {Null}]
  /\ audit \subseteq AuditEntry
  /\ command \in [Requests -> Commands \union {Null}]
  /\ reply \in [Requests -> Reply]
  /\ clock \in Instants

(***************************************************************************)
(* No operation stops half way: every version of a question has exactly    *)
(* one success row in the audit, although Approve changes the question, a  *)
(* dictionary and the audit one after the other and undoes nothing.        *)
(***************************************************************************)
Successes(id) == {e \in audit : e.target = id /\ e.result = "success"}

EveryVersionIsAudited ==
  \A id \in QuestionIds :
    Cardinality(Successes(id)) = IF questions[id] = Null THEN 0 ELSE questions[id].version

(***************************************************************************)
(* The development store keeps the contract of IQuestionStore that the     *)
(* PostgreSQL store keeps: callers cannot tell the two apart.              *)
(***************************************************************************)
Contract == INSTANCE QuestionContract WITH
  questions <- questions, idempotency <- idempotency,
  command <- command, reply <- reply
ContractSpec == Contract!Spec
=============================================================================
