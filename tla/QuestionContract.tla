--------------------------- MODULE QuestionContract ---------------------------
(***************************************************************************)
(* The contract of IQuestionStore, as its callers see it: every request is *)
(* served in one atomic step, by a change, by a refusal with the code of   *)
(* the first rule that is broken, or by the stored answer of an earlier    *)
(* approval.  A caller may be told "unavailable", whether or not the       *)
(* request took effect.  The audit is no part of the contract: the two     *)
(* stores audit different refusals.                                        *)
(***************************************************************************)
EXTENDS QuestionAnswers

CONSTANT Commands  \* the commands that clients send

VARIABLES
  command,  \* what a request asks for, or Null
  reply     \* what its caller was told

promise == <<questions, idempotency, command, reply>>

Init ==
  /\ questions = [id \in QuestionIds |-> Null]
  /\ idempotency = [s \in Slots |-> Null]
  /\ command = [r \in Requests |-> Null]
  /\ reply = [r \in Requests |-> NoReply]

\* A request keeps its command; it may arrive and be served in one step.
Ask(r, c) ==
  /\ command[r] \in {Null, c}
  /\ command' = [command EXCEPT ![r] = c]

Tell(r, rep) ==
  /\ reply[r] = NoReply
  /\ \E told \in {rep, Unavailable} : reply' = [reply EXCEPT ![r] = told]

\* No answer is stored that an approval would have to repeat.
KeyIsFree(c, at) == c.op = "approve" => ~Live(SlotOf(c), at)

Create(r, c, at) ==
  /\ Ask(r, c)
  /\ c.op = "create"
  /\ questions[c.id] = Null
  /\ questions' = [questions EXCEPT ![c.id] = NewQuestion(c, at)]
  /\ Tell(r, Ok(NewQuestion(c, at)))
  /\ UNCHANGED idempotency

Change(r, c, at) ==
  /\ Ask(r, c)
  /\ c.op # "create"
  /\ KeyIsFree(c, at)
  /\ Visible(c.id, c.tenant)
  /\ Refusal(questions[c.id], c) = Accepted
  /\ LET q == Apply(questions[c.id], c, at)
     IN /\ questions' = [questions EXCEPT ![c.id] = q]
        /\ KeyAfterChange(c, q, at)
        /\ Tell(r, Ok(q))

Refuse(r, c, at) ==
  /\ Ask(r, c)
  /\ c.op # "create"
  /\ KeyIsFree(c, at)
  /\ \/ ~Visible(c.id, c.tenant) /\ Tell(r, Refused(NotFound))
     \/ /\ Visible(c.id, c.tenant)
        /\ Refusal(questions[c.id], c) # Accepted
        /\ Tell(r, Refused(Refusal(questions[c.id], c)))
  /\ KeyAfterRefusal(c, at)
  /\ UNCHANGED questions

Repeat(r, c, at) ==
  /\ Ask(r, c)
  /\ c.op = "approve"
  /\ Live(SlotOf(c), at)
  /\ IF idempotency[SlotOf(c)].fingerprint = Fingerprint(c)
     THEN Tell(r, Ok(idempotency[SlotOf(c)].result))
     ELSE Tell(r, Refused(KeyReused))
  /\ UNCHANGED <<questions, idempotency>>

Receive(r, c) ==
  /\ Ask(r, c)
  /\ UNCHANGED <<questions, idempotency, reply>>

Fail(r) ==
  /\ Tell(r, Unavailable)
  /\ UNCHANGED <<questions, idempotency, command>>

Next ==
  \E r \in Requests :
    \/ Fail(r)
    \/ \E c \in Commands : Receive(r, c)
    \/ \E c \in Commands, at \in Instants :
         Create(r, c, at) \/ Change(r, c, at) \/ Refuse(r, c, at) \/ Repeat(r, c, at)

Spec == Init /\ [][Next]_promise
=============================================================================
