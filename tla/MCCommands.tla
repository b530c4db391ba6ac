----------------------------- MODULE MCCommands -----------------------------
(***************************************************************************)
(* Commands for TLC: what the clients of a store send in the runs.         *)
(***************************************************************************)
EXTENDS QuestionDomain

CONSTANTS t1, t2, owner, reviewer, q1, q2, text1, text2, k1, k2

Base(op, actor) ==
  [op |-> op, tenant |-> t1, id |-> q1, actor |-> actor, expected |-> 1,
   content |-> text1, reason |-> TRUE, key |-> k1]

Creation == Base("create", owner)
Submission == Base("submit", owner)
Edit(version) ==
  [Base("update", owner) EXCEPT !.expected = version, !.content = text2]
Approval(version, key) ==
  [Base("approve", reviewer) EXCEPT !.expected = version, !.key = key]

\* The same command of another tenant.
OtherTenant(c) == [c EXCEPT !.tenant = t2]

\* The whole life cycle of one question, with the owner trying to approve.
LifecycleCommands ==
  {Creation, Submission, Edit(1), Base("return", reviewer),
   Approval(2, k1), Approval(3, k1), Base("withdraw", reviewer),
   [Base("approve", owner) EXCEPT !.expected = 2]}

\* The same, and another tenant that names the question.
StoreCommands == LifecycleCommands \union {OtherTenant(Submission)}

\* Enough for a chain of waits: an approval waits for the key of another one
\* that waits for the row that the submission holds.
WaitingCommands ==
  {Creation, Submission, Approval(2, k1), OtherTenant(Submission)}
=============================================================================
