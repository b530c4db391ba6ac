---------------------------- MODULE QuestionLedger ----------------------------
(***************************************************************************)
(* What the question store promises, without connections, locks or         *)
(* transactions: every request takes effect at most once and in one        *)
(* atomic step, on the rows as they are at that step (ADR-0002: the state  *)
(* change, its audit row and the stored answer of an approval are fixed    *)
(* by one transaction).  The instant a step records may be older than the  *)
(* step: the code reads the clock before it waits for its locks.           *)
(***************************************************************************)
EXTENDS QuestionTables

CONSTANT Commands  \* the commands that clients send

Unserved(r) == \A e \in audit : e.request # r

Create(r, c, at) ==
  /\ c.op = "create"
  /\ Unserved(r)
  /\ questions[c.id] = Null
  /\ RecordChange(r, c, NewQuestion(c, at), at)
  /\ UNCHANGED idempotency

Change(r, c, at) ==
  /\ c.op # "create"
  /\ Unserved(r)
  /\ c.op = "approve" => ~Live(SlotOf(c), at)
  /\ Visible(c.id, c.tenant)
  /\ Refusal(questions[c.id], c) = Accepted
  /\ LET q == Apply(questions[c.id], c, at)
     IN /\ RecordChange(r, c, q, at)
        /\ KeyAfterChange(c, q, at)

Refuse(r, c, at) ==
  /\ c.op # "create"
  /\ Unserved(r)
  /\ c.op = "approve" => ~Live(SlotOf(c), at)
  /\ \/ /\ ~Visible(c.id, c.tenant)
        /\ RecordRefusal(r, c, NotFound, at)
     \/ /\ Visible(c.id, c.tenant)
        /\ Refusal(questions[c.id], c) # Accepted
        /\ RecordRefusal(r, c, Refusal(questions[c.id], c), at)
  /\ KeyAfterRefusal(c, at)

Next ==
  \E r \in Requests, c \in Commands, at \in Instants :
    Create(r, c, at) \/ Change(r, c, at) \/ Refuse(r, c, at)

Spec == EmptyTables /\ [][Next]_tables
=============================================================================
