----------------------- MODULE MCInMemoryQuestionStore -----------------------
(***************************************************************************)
(* Instances of InMemoryQuestionStore for TLC.                             *)
(***************************************************************************)
EXTENDS InMemoryQuestionStore, MCCommands, TLC

TwoInstants == 1 .. 2

\* Two questions that are approved under the same key, one of which lives
\* on, and another tenant's request for it.
Second(c) == [c EXCEPT !.id = q2]
InMemoryCommands ==
  {Creation, Submission, Edit(1), Approval(2, k1), Base("return", reviewer),
   Base("withdraw", reviewer), OtherTenant(Approval(2, k1)),
   Second(Creation), Second(Submission), Second(Approval(2, k1))}

Symmetry == Permutations(Requests)
=============================================================================
