--------------------- MODULE InMemoryQuestionStoreProofs ---------------------
(***************************************************************************)
(* Theorems about InMemoryQuestionStore for every set of requests,         *)
(* commands, questions, tenants, keys and instants.                        *)
(***************************************************************************)
EXTENDS InMemoryQuestionStore, QuestionDomainProofs, FiniteSetTheorems

(***************************************************************************)
(* The inductive invariant: a request that was not served has no command   *)
(* and no audit row; the audit is finite.                                  *)
(***************************************************************************)
UnservedIsBlank ==
  /\ \A r \in Requests : reply[r] = NoReply => command[r] = Null
  /\ \A e \in audit : reply[e.request] # NoReply

Sound ==
  /\ TypeOK
  /\ UnservedIsBlank
  /\ IsFiniteSet(audit)
  /\ EveryVersionIsAudited

LEMMA SoundInit == Init => Sound
<1> SUFFICES ASSUME Init PROVE Sound
  OBVIOUS
<1>1. NoReply \in Reply
  BY DEF NoReply, Reply
<1>2. TypeOK
  BY <1>1 DEF Init, TypeOK
<1>3. UnservedIsBlank
  BY DEF Init, UnservedIsBlank
<1>4. IsFiniteSet(audit)
  BY FS_EmptySet DEF Init
<1>5. ASSUME NEW id \in QuestionIds
      PROVE  Cardinality(Successes(id)) = 0 /\ questions[id] = Null
  <2>1. Successes(id) = {}
    BY DEF Init, Successes
  <2> QED
    BY <2>1, FS_EmptySet DEF Init
<1>6. EveryVersionIsAudited
  BY <1>5 DEF EveryVersionIsAudited
<1> QED
  BY <1>2, <1>3, <1>4, <1>6 DEF Sound
-----------------------------------------------------------------------------
(***************************************************************************)
(* Types.                                                                  *)
(***************************************************************************)
LEMMA CommandParts ==
  ASSUME NEW c \in Commands
  PROVE  /\ c \in Command
         /\ c.id \in QuestionIds
         /\ c.op \in Operations
         /\ SlotOf(c) \in Slots
         /\ c.op # "create" => c.op \in Changes
<1>1. c \in Command
  BY CommandsAssumption
<1> QED
  BY <1>1 DEF Command, SlotOf, Slots, Operations, Changes

LEMMA ReplyParts ==
  /\ Unavailable \in Reply /\ Unavailable # NoReply
  /\ \A q \in Question : Ok(q) \in Reply /\ Ok(q) # NoReply
  /\ \A code \in Outcomes \union {KeyReused} :
       Refused(code) \in Reply /\ Refused(code) # NoReply
BY DEF Unavailable, Ok, Refused, NoReply, Reply

LEMMA EntryType ==
  ASSUME NEW r \in Requests, NEW c \in Command, NEW code \in Outcomes,
         NEW at \in Instants
  PROVE  /\ Entry(r, c, code, at) \in AuditEntry
         /\ Entry(r, c, code, at).request = r
         /\ Entry(r, c, code, at).target = c.id
         /\ Entry(r, c, code, at).result = code
BY DEF Entry, AuditEntry, Command

\* What serving a request does to the replies, the history and the audit.
LEMMA ServeShape ==
  ASSUME Sound, NEW r \in Requests, NEW c \in Commands, NEW rep \in Reply,
         rep # NoReply, Serve(r, c, rep),
         \A e \in audit' : e \in audit \/ e.request = r,
         audit' \subseteq AuditEntry
  PROVE  /\ command' \in [Requests -> Commands \union {Null}]
         /\ reply' \in [Requests -> Reply]
         /\ UnservedIsBlank'
<1>1. /\ command' \in [Requests -> Commands \union {Null}]
      /\ reply' \in [Requests -> Reply]
  BY DEF Sound, TypeOK, Serve
<1>2. \A s \in Requests : reply'[s] = NoReply => command'[s] = Null
  BY DEF Sound, TypeOK, UnservedIsBlank, Serve
<1>3. \A e \in audit' : reply'[e.request] # NoReply
  BY DEF Sound, TypeOK, UnservedIsBlank, Serve, AuditEntry
<1> QED
  BY <1>1, <1>2, <1>3 DEF UnservedIsBlank

LEMMA StoredType ==
  ASSUME Sound, NEW c \in Commands, NEW q \in Question, NEW at \in Instants,
         StoreAnswer(c, q, at)
  PROVE  idempotency' \in [Slots -> StoredApproval \union {Null}]
<1>1. Fingerprint(c) \in Tenants \X QuestionIds \X Subjects \X (Nat \ {0})
  BY CommandParts DEF Fingerprint, Command
<1>2. at + RetentionTime \in Nat
  BY InstantsAreNat, AnswersAssumption
<1>3. [fingerprint |-> Fingerprint(c), result |-> q, expiresAt |-> at + RetentionTime]
        \in StoredApproval
  BY <1>1, <1>2 DEF StoredApproval
<1> QED
  BY <1>3 DEF StoreAnswer, Sound, TypeOK

LEMMA PurgedType ==
  ASSUME Sound, NEW c \in Commands
  PROVE  /\ Purged(c) \in [Slots -> StoredApproval \union {Null}]
         /\ ~Live(SlotOf(c), clock) => Purged(c)[SlotOf(c)] = Null
BY CommandParts DEF Purged, Sound, TypeOK
-----------------------------------------------------------------------------
(***************************************************************************)
(* The audit of a change and of a refusal.                                 *)
(***************************************************************************)
LEMMA ChangeIsAudited ==
  ASSUME Sound, NEW r \in Requests, NEW c \in Commands, NEW q \in Question,
         NEW at \in Instants, reply[r] = NoReply,
         q.version = IF questions[c.id] = Null THEN 1 ELSE questions[c.id].version + 1,
         questions' = [questions EXCEPT ![c.id] = q],
         audit' = audit \union {Entry(r, c, "success", at)}
  PROVE  /\ IsFiniteSet(audit')
         /\ audit' \subseteq AuditEntry
         /\ \A e \in audit' : e \in audit \/ e.request = r
         /\ EveryVersionIsAudited'
<1> DEFINE new == Entry(r, c, "success", at)
<1>1. /\ new \in AuditEntry /\ new.request = r /\ new.target = c.id
      /\ new.result = "success"
  BY CommandParts, EntryType DEF Outcomes
<1>2. new \notin audit
  BY <1>1 DEF Sound, UnservedIsBlank
<1> HIDE DEF new
<1>3. audit' = audit \union {new}
  BY DEF new
<1>4. IsFiniteSet(audit')
  BY <1>3, FS_AddElement DEF Sound
<1>5. ASSUME NEW id \in QuestionIds
      PROVE  Cardinality(Successes(id)')
               = IF questions'[id] = Null THEN 0 ELSE questions'[id].version
  <2>1. IsFiniteSet(Successes(id)) /\ Cardinality(Successes(id)) \in Nat
    <3>1. Successes(id) \subseteq audit
      BY DEF Successes
    <3> QED
      BY <3>1, FS_Subset, FS_CardinalityType DEF Sound
  <2>2. Cardinality(Successes(id)) = IF questions[id] = Null THEN 0 ELSE questions[id].version
    BY DEF Sound, EveryVersionIsAudited
  <2>3. CASE id = c.id
    <3>1. Successes(id)' = Successes(id) \union {new} /\ new \notin Successes(id)
      BY <1>1, <1>2, <1>3, <2>3 DEF Successes
    <3>2. Cardinality(Successes(id)') = Cardinality(Successes(id)) + 1
      BY <2>1, <3>1, FS_AddElement
    <3>3. questions'[id] = q /\ q # Null
      BY <2>3, DomainAssumption DEF Sound, TypeOK
    <3> QED
      BY <2>1, <2>2, <2>3, <3>2, <3>3
  <2>4. CASE id # c.id
    <3>1. Successes(id)' = Successes(id)
      BY <1>1, <1>3, <2>4 DEF Successes
    <3>2. questions'[id] = questions[id]
      BY <2>4 DEF Sound, TypeOK
    <3> QED
      BY <2>2, <3>1, <3>2
  <2> QED
    BY <2>3, <2>4
<1>6. EveryVersionIsAudited'
  BY <1>5 DEF EveryVersionIsAudited
<1>7. /\ audit' \subseteq AuditEntry
      /\ \A e \in audit' : e \in audit \/ e.request = r
  BY <1>1, <1>3 DEF Sound, TypeOK
<1> QED
  BY <1>4, <1>6, <1>7

LEMMA RefusalIsNoSuccess ==
  ASSUME Sound, NEW r \in Requests, NEW c \in Commands,
         NEW code \in Outcomes, code # "success", NEW at \in Instants,
         UNCHANGED questions,
         audit' = audit \union {Entry(r, c, code, at)}
  PROVE  /\ IsFiniteSet(audit')
         /\ audit' \subseteq AuditEntry
         /\ \A e \in audit' : e \in audit \/ e.request = r
         /\ EveryVersionIsAudited'
<1> DEFINE new == Entry(r, c, code, at)
<1>1. new \in AuditEntry /\ new.request = r /\ new.result = code
  BY CommandParts, EntryType
<1> HIDE DEF new
<1>2. audit' = audit \union {new}
  BY DEF new
<1>3. \A id : Successes(id)' = Successes(id)
  BY <1>1, <1>2 DEF Successes
<1>4. EveryVersionIsAudited'
  BY <1>3 DEF Sound, EveryVersionIsAudited
<1>5. IsFiniteSet(audit')
  BY <1>2, FS_AddElement DEF Sound
<1> QED
  BY <1>1, <1>2, <1>4, <1>5 DEF Sound, TypeOK

LEMMA SilenceKeepsAudit ==
  ASSUME Sound, UNCHANGED <<questions, audit>>
  PROVE  /\ IsFiniteSet(audit')
         /\ audit' \subseteq AuditEntry
         /\ \A e \in audit' : e \in audit
         /\ EveryVersionIsAudited'
BY DEF Sound, TypeOK, EveryVersionIsAudited, Successes
-----------------------------------------------------------------------------
(***************************************************************************)
(* Every operation preserves the invariant.                                *)
(***************************************************************************)
\* A visible question and the code of its refusal.
LEMMA VisibleParts ==
  ASSUME Sound, NEW c \in Commands, Visible(c.id, c.tenant), c.op # "create"
  PROVE  /\ questions[c.id] \in Question /\ questions[c.id] # Null
         /\ Refusal(questions[c.id], c) # Accepted =>
              /\ Refusal(questions[c.id], c) \in Outcomes
              /\ Refusal(questions[c.id], c) # "success"
<1>1. questions[c.id] \in Question /\ questions[c.id] # Null
  BY CommandParts DEF Visible, Sound, TypeOK
<1>2. Refusal(questions[c.id], c) \in RefusalCodes \union {Accepted}
  BY <1>1, CommandParts, RefusalType
<1> QED
  BY <1>1, <1>2 DEF Outcomes, RefusalCodes

\* The next version of a visible question.
LEMMA NextVersion ==
  ASSUME Sound, NEW c \in Commands, Visible(c.id, c.tenant), c.op # "create"
  PROVE  /\ Apply(questions[c.id], c, clock) \in Question
         /\ Apply(questions[c.id], c, clock).version = questions[c.id].version + 1
<1>1. clock \in Instants
  BY DEF Sound, TypeOK
<1> QED
  BY <1>1, VisibleParts, CommandParts, ApplyType

LEMMA CreateIsSound ==
  ASSUME Sound, NEW r \in Requests, NEW c \in Commands, Create(r, c)
  PROVE  Sound'
<1> DEFINE q == NewQuestion(c, clock)
<1>1. clock \in Instants /\ c \in Command /\ c.id \in QuestionIds
  BY CommandParts DEF Sound, TypeOK
<1>2. q \in Question /\ q.version = 1
  BY <1>1, NewQuestionType
<1>3. /\ questions[c.id] = Null
      /\ questions' = [questions EXCEPT ![c.id] = q]
      /\ audit' = audit \union {Entry(r, c, "success", clock)}
      /\ Serve(r, c, Ok(q))
      /\ UNCHANGED <<idempotency, clock>>
  BY DEF Create
<1> HIDE DEF q
<1>4. reply[r] = NoReply
  BY <1>3 DEF Serve
<1>5. /\ IsFiniteSet(audit') /\ audit' \subseteq AuditEntry
      /\ \A e \in audit' : e \in audit \/ e.request = r
      /\ EveryVersionIsAudited'
  BY <1>1, <1>2, <1>3, <1>4, ChangeIsAudited
<1>6. Ok(q) \in Reply /\ Ok(q) # NoReply
  BY <1>2, ReplyParts
<1>7. /\ command' \in [Requests -> Commands \union {Null}]
      /\ reply' \in [Requests -> Reply]
      /\ UnservedIsBlank'
  BY <1>3, <1>5, <1>6, ServeShape
<1>8. TypeOK'
  BY <1>1, <1>2, <1>3, <1>5, <1>7 DEF TypeOK, Sound
<1> QED
  BY <1>5, <1>7, <1>8 DEF Sound

LEMMA ChangeIsSound ==
  ASSUME Sound, NEW r \in Requests, NEW c \in Commands, Change(r, c)
  PROVE  Sound'
<1> DEFINE q == Apply(questions[c.id], c, clock)
<1>1. /\ c.op # "create" /\ Visible(c.id, c.tenant)
      /\ clock' \in Instants
      /\ questions' = [questions EXCEPT ![c.id] = q]
      /\ audit' = audit \union {Entry(r, c, "success", clock')}
      /\ Serve(r, c, Ok(q))
      /\ UNCHANGED idempotency
  BY DEF Change, ReadAgain
<1>2. /\ q \in Question /\ q.version = questions[c.id].version + 1
      /\ questions[c.id] # Null
      /\ c.id \in QuestionIds
  BY <1>1, NextVersion, VisibleParts, CommandParts
<1> HIDE DEF q
<1>3. reply[r] = NoReply
  BY <1>1 DEF Serve
<1>4. /\ IsFiniteSet(audit') /\ audit' \subseteq AuditEntry
      /\ \A e \in audit' : e \in audit \/ e.request = r
      /\ EveryVersionIsAudited'
  BY <1>1, <1>2, <1>3, ChangeIsAudited
<1>5. Ok(q) \in Reply /\ Ok(q) # NoReply
  BY <1>2, ReplyParts
<1>6. /\ command' \in [Requests -> Commands \union {Null}]
      /\ reply' \in [Requests -> Reply]
      /\ UnservedIsBlank'
  BY <1>1, <1>4, <1>5, ServeShape
<1>7. TypeOK'
  BY <1>1, <1>2, <1>4, <1>6 DEF TypeOK, Sound
<1> QED
  BY <1>4, <1>6, <1>7 DEF Sound

LEMMA ApproveIsSound ==
  ASSUME Sound, NEW r \in Requests, NEW c \in Commands, Approve(r, c)
  PROVE  Sound'
<1> DEFINE q == Approved(questions[c.id], c, clock)
<1>1. /\ c.op = "approve" /\ Visible(c.id, c.tenant)
      /\ ~Live(SlotOf(c), clock)
      /\ questions' = [questions EXCEPT ![c.id] = q]
      /\ clock' = clock
  BY DEF Approve
<1>2. q = Apply(questions[c.id], c, clock)
  BY <1>1 DEF Apply
<1>3. /\ q \in Question /\ q.version = questions[c.id].version + 1
      /\ questions[c.id] # Null
      /\ c.id \in QuestionIds /\ clock \in Instants
  BY <1>1, <1>2, NextVersion, VisibleParts, CommandParts DEF Sound, TypeOK
<1>4. /\ StoreAnswer(c, q, clock)
      /\ audit' = audit \union {Entry(r, c, "success", clock)}
      /\ Serve(r, c, Ok(q))
  BY <1>1, PurgedType DEF Approve
<1> HIDE DEF q
<1>5. reply[r] = NoReply
  BY <1>4 DEF Serve
<1>6. /\ IsFiniteSet(audit') /\ audit' \subseteq AuditEntry
      /\ \A e \in audit' : e \in audit \/ e.request = r
      /\ EveryVersionIsAudited'
  BY <1>1, <1>3, <1>4, <1>5, ChangeIsAudited
<1>7. Ok(q) \in Reply /\ Ok(q) # NoReply
  BY <1>3, ReplyParts
<1>8. /\ command' \in [Requests -> Commands \union {Null}]
      /\ reply' \in [Requests -> Reply]
      /\ UnservedIsBlank'
  BY <1>4, <1>6, <1>7, ServeShape
<1>9. idempotency' \in [Slots -> StoredApproval \union {Null}]
  BY <1>3, <1>4, StoredType
<1>10. TypeOK'
  BY <1>1, <1>3, <1>6, <1>8, <1>9 DEF TypeOK, Sound
<1> QED
  BY <1>6, <1>8, <1>10 DEF Sound

\* An operation that changes no question: a refusal or a repeated answer.
LEMMA QuietIsSound ==
  ASSUME Sound, NEW r \in Requests, NEW c \in Commands,
         NEW rep \in Reply, rep # NoReply, Serve(r, c, rep),
         UNCHANGED questions, clock' \in Instants,
         idempotency' \in [Slots -> StoredApproval \union {Null}],
         \/ UNCHANGED audit
         \/ \E code \in Outcomes, at \in Instants :
              code # "success" /\ audit' = audit \union {Entry(r, c, code, at)}
  PROVE  Sound'
<1>1. /\ IsFiniteSet(audit') /\ audit' \subseteq AuditEntry
      /\ \A e \in audit' : e \in audit \/ e.request = r
      /\ EveryVersionIsAudited'
  BY RefusalIsNoSuccess, SilenceKeepsAudit
<1>2. /\ command' \in [Requests -> Commands \union {Null}]
      /\ reply' \in [Requests -> Reply]
      /\ UnservedIsBlank'
  BY <1>1, ServeShape
<1>3. TypeOK'
  BY <1>1, <1>2 DEF TypeOK, Sound
<1> QED
  BY <1>1, <1>2, <1>3 DEF Sound

LEMMA RefusalsAreSound ==
  ASSUME Sound, NEW r \in Requests, NEW c \in Commands,
         \/ RefuseAudited(r, c)
         \/ RefuseUnaudited(r, c)
         \/ RefuseApproval(r, c)
  PROVE  Sound'
<1> DEFINE code == Refusal(questions[c.id], c)
<1>1. /\ c.op # "create" /\ Visible(c.id, c.tenant) /\ code # Accepted
      /\ Serve(r, c, Refused(code))
      /\ UNCHANGED questions
      /\ clock' \in Instants
      /\ UNCHANGED audit \/ audit' = audit \union {Entry(r, c, code, clock')}
      /\ UNCHANGED idempotency \/ idempotency' = Purged(c)
  BY DEF RefuseAudited, RefuseUnaudited, RefuseApproval, ReadAgain, Sound, TypeOK
<1>2. code \in Outcomes /\ code # "success"
  BY <1>1, VisibleParts
<1> HIDE DEF code
<1>3. Refused(code) \in Reply /\ Refused(code) # NoReply
  BY <1>2, ReplyParts
<1>4. idempotency' \in [Slots -> StoredApproval \union {Null}]
  BY <1>1, PurgedType DEF Sound, TypeOK
<1> QED
  BY <1>1, <1>2, <1>3, <1>4, QuietIsSound

LEMMA MissesAreSound ==
  ASSUME Sound, NEW r \in Requests, NEW c \in Commands,
         Miss(r, c) \/ MissApproval(r, c)
  PROVE  Sound'
<1>1. /\ Serve(r, c, Refused(NotFound))
      /\ UNCHANGED <<questions, audit, clock>>
      /\ UNCHANGED idempotency \/ idempotency' = Purged(c)
  BY DEF Miss, MissApproval
<1>2. Refused(NotFound) \in Reply /\ Refused(NotFound) # NoReply
  BY ReplyParts DEF Outcomes
<1>3. /\ idempotency' \in [Slots -> StoredApproval \union {Null}]
      /\ clock' \in Instants
  BY <1>1, PurgedType DEF Sound, TypeOK
<1> QED
  BY <1>1, <1>2, <1>3, QuietIsSound

LEMMA RepeatIsSound ==
  ASSUME Sound, NEW r \in Requests, NEW c \in Commands, Repeat(r, c)
  PROVE  Sound'
<1>1. /\ Live(SlotOf(c), clock)
      /\ \/ Serve(r, c, Ok(idempotency[SlotOf(c)].result))
         \/ Serve(r, c, Refused(KeyReused))
      /\ UNCHANGED <<questions, idempotency, audit, clock>>
  BY DEF Repeat
<1>2. idempotency[SlotOf(c)].result \in Question
  BY <1>1, CommandParts DEF Live, Sound, TypeOK, StoredApproval
<1>3. /\ Ok(idempotency[SlotOf(c)].result) \in Reply
      /\ Ok(idempotency[SlotOf(c)].result) # NoReply
      /\ Refused(KeyReused) \in Reply /\ Refused(KeyReused) # NoReply
  BY <1>2, ReplyParts
<1>4. /\ idempotency' \in [Slots -> StoredApproval \union {Null}]
      /\ clock' \in Instants
  BY <1>1 DEF Sound, TypeOK
<1> QED
  BY <1>1, <1>3, <1>4, QuietIsSound

LEMMA StepIsSound == Sound /\ [Next]_vars => Sound'
<1> SUFFICES ASSUME Sound, [Next]_vars PROVE Sound'
  OBVIOUS
<1>1. CASE UNCHANGED vars
  BY <1>1 DEF vars, Sound, TypeOK, UnservedIsBlank, EveryVersionIsAudited, Successes
<1>2. CASE Tick
  BY <1>2 DEF Tick, Sound, TypeOK, UnservedIsBlank, EveryVersionIsAudited, Successes
<1>3. ASSUME NEW r \in Requests, NEW c \in Commands, Operate(r, c)
      PROVE  Sound'
  BY <1>3, CreateIsSound, ChangeIsSound, ApproveIsSound, RefusalsAreSound,
     MissesAreSound, RepeatIsSound DEF Operate
<1> QED
  BY <1>1, <1>2, <1>3 DEF Next

(***************************************************************************)
(* Every reachable state is sound: in particular the collections keep      *)
(* their types and every version of a question has exactly one success row *)
(* in the audit (InMemoryQuestionStore.cs, Create to Withdraw).            *)
(***************************************************************************)
THEOREM VersionsAreAudited == Spec => [](TypeOK /\ EveryVersionIsAudited)
<1>1. Sound => TypeOK /\ EveryVersionIsAudited
  BY DEF Sound
<1> QED
  BY <1>1, SoundInit, StepIsSound, PTL DEF Spec
-----------------------------------------------------------------------------
(***************************************************************************)
(* The store keeps the contract.  The contract's operators are its own.    *)
(***************************************************************************)
LEMMA SameRules ==
  ASSUME NEW c, NEW q, NEW at
  PROVE  /\ Contract!NewQuestion(c, at) = NewQuestion(c, at)
         /\ Contract!Refusal(q, c) = Refusal(q, c)
         /\ Contract!Apply(q, c, at) = Apply(q, c, at)
         /\ Contract!Visible(c.id, c.tenant) <=> Visible(c.id, c.tenant)
         /\ Contract!Accepted = Accepted
<1>1. Contract!NewQuestion(c, at) = NewQuestion(c, at)
  BY DEF Contract!NewQuestion, NewQuestion, Contract!NoInstant, NoInstant,
         Contract!NoVersion, NoVersion
<1>2. Contract!Accepted = Accepted
  BY DEF Contract!Accepted, Accepted
<1>3. Contract!Refusal(q, c) = Refusal(q, c)
  BY <1>2 DEF Contract!Refusal, Contract!UpdateRefusal, Contract!SubmitRefusal,
     Contract!ReturnRefusal, Contract!ApproveRefusal, Contract!WithdrawRefusal,
     Refusal, UpdateRefusal, SubmitRefusal, ReturnRefusal, ApproveRefusal, WithdrawRefusal
<1>4. Contract!Apply(q, c, at) = Apply(q, c, at)
  BY DEF Contract!Apply, Contract!Updated, Contract!Submitted, Contract!Returned,
     Contract!Approved, Contract!Withdrawn, Contract!Advance,
     Apply, Updated, Submitted, Returned, Approved, Withdrawn, Advance
<1>5. Contract!Visible(c.id, c.tenant) <=> Visible(c.id, c.tenant)
  BY DEF Contract!Visible, Visible
<1> QED
  BY <1>1, <1>2, <1>3, <1>4, <1>5

LEMMA SameKeys ==
  ASSUME NEW c, NEW q, NEW at
  PROVE  /\ Contract!KeyAfterChange(c, q, at)
              <=> IF c.op = "approve" THEN StoreAnswer(c, q, at) ELSE UNCHANGED idempotency
         /\ Contract!KeyAfterRefusal(c, clock)
              <=> idempotency' = IF c.op = "approve" THEN Purged(c) ELSE idempotency
         /\ Contract!KeyIsFree(c, at) <=> (c.op = "approve" => ~Live(SlotOf(c), at))
         /\ Contract!Live(Contract!SlotOf(c), at) <=> Live(SlotOf(c), at)
         /\ Contract!SlotOf(c) = SlotOf(c)
         /\ Contract!Fingerprint(c) = Fingerprint(c)
BY DEF Contract!KeyAfterChange, Contract!KeyAfterRefusal, Contract!StoreAnswer,
       Contract!DropExpired, Contract!KeyIsFree, Contract!Live, Contract!SlotOf,
       Contract!Fingerprint, StoreAnswer, Purged, Live, SlotOf, Fingerprint

LEMMA SameReplies ==
  /\ \A q : Contract!Ok(q) = Ok(q)
  /\ \A code : Contract!Refused(code) = Refused(code)
  /\ Contract!NoReply = NoReply
  /\ Contract!NotFound = NotFound
  /\ Contract!KeyReused = KeyReused
BY DEF Contract!Ok, Ok, Contract!Refused, Refused, Contract!NoReply, NoReply,
       Contract!NotFound, NotFound, Contract!KeyReused, KeyReused

\* A request that is served was not heard of before.
LEMMA ServeIsTold ==
  ASSUME Sound, NEW r \in Requests, NEW c \in Commands, NEW rep, Serve(r, c, rep)
  PROVE  Contract!Ask(r, c) /\ Contract!Tell(r, rep)
BY SameReplies DEF Sound, UnservedIsBlank, Serve, Contract!Ask, Contract!Tell

LEMMA CreateKeepsContract ==
  ASSUME Sound, NEW r \in Requests, NEW c \in Commands, Create(r, c)
  PROVE  Contract!Create(r, c, clock)
BY ServeIsTold, SameRules, SameReplies DEF Create, Contract!Create

LEMMA ChangeKeepsContract ==
  ASSUME Sound, NEW r \in Requests, NEW c \in Commands,
         Change(r, c) \/ Approve(r, c)
  PROVE  Contract!Change(r, c, clock)
<1> DEFINE q == Apply(questions[c.id], c, clock)
<1>1. /\ c.op # "create" /\ Visible(c.id, c.tenant)
      /\ Refusal(questions[c.id], c) = Accepted
      /\ c.op = "approve" => ~Live(SlotOf(c), clock)
      /\ questions' = [questions EXCEPT ![c.id] = q]
      /\ Serve(r, c, Ok(q))
      /\ IF c.op = "approve" THEN StoreAnswer(c, q, clock) ELSE UNCHANGED idempotency
  BY PurgedType DEF Change, Approve, Apply
<1>2. Contract!Ask(r, c) /\ Contract!Tell(r, Ok(q))
  BY <1>1, ServeIsTold
<1> QED
  BY <1>1, <1>2, SameRules, SameKeys, SameReplies DEF Contract!Change

LEMMA RefusalKeepsContract ==
  ASSUME Sound, NEW r \in Requests, NEW c \in Commands,
         \/ RefuseAudited(r, c)
         \/ RefuseUnaudited(r, c)
         \/ RefuseApproval(r, c)
         \/ Miss(r, c)
         \/ MissApproval(r, c)
  PROVE  Contract!Refuse(r, c, clock)
<1>1. /\ c.op # "create"
      /\ c.op = "approve" => ~Live(SlotOf(c), clock)
      /\ UNCHANGED questions
      /\ idempotency' = IF c.op = "approve" THEN Purged(c) ELSE idempotency
  BY DEF RefuseAudited, RefuseUnaudited, RefuseApproval, Miss, MissApproval
<1>2. \/ ~Visible(c.id, c.tenant) /\ Serve(r, c, Refused(NotFound))
      \/ /\ Visible(c.id, c.tenant)
         /\ Refusal(questions[c.id], c) # Accepted
         /\ Serve(r, c, Refused(Refusal(questions[c.id], c)))
  BY DEF RefuseAudited, RefuseUnaudited, RefuseApproval, Miss, MissApproval
<1>3. Contract!Ask(r, c)
  BY <1>2, ServeIsTold
<1>4. \/ ~Visible(c.id, c.tenant) /\ Contract!Tell(r, Refused(NotFound))
      \/ /\ Visible(c.id, c.tenant)
         /\ Refusal(questions[c.id], c) # Accepted
         /\ Contract!Tell(r, Refused(Refusal(questions[c.id], c)))
  BY <1>2, ServeIsTold
<1> QED
  BY <1>1, <1>3, <1>4, SameRules, SameKeys, SameReplies DEF Contract!Refuse

LEMMA RepeatKeepsContract ==
  ASSUME Sound, NEW r \in Requests, NEW c \in Commands, Repeat(r, c)
  PROVE  Contract!Repeat(r, c, clock)
BY ServeIsTold, SameKeys, SameReplies DEF Repeat, Contract!Repeat

LEMMA StepKeepsContract ==
  ASSUME Sound, [Next]_vars
  PROVE  [Contract!Next]_(Contract!promise)
<1>1. ASSUME NEW r \in Requests, NEW c \in Commands, Operate(r, c)
      PROVE  Contract!Next
  <2>1. clock \in Instants
    BY DEF Sound, TypeOK
  <2>2. \/ Contract!Create(r, c, clock) \/ Contract!Change(r, c, clock)
        \/ Contract!Refuse(r, c, clock) \/ Contract!Repeat(r, c, clock)
    BY <1>1, CreateKeepsContract, ChangeKeepsContract, RefusalKeepsContract,
       RepeatKeepsContract DEF Operate
  <2> QED
    BY <2>1, <2>2 DEF Contract!Next
<1>2. ASSUME Tick \/ UNCHANGED vars
      PROVE  UNCHANGED Contract!promise
  BY <1>2 DEF Tick, vars, Contract!promise
<1> QED
  BY <1>1, <1>2 DEF Next

(***************************************************************************)
(* "The same public contract" (InMemoryQuestionStore.cs, line 7), for      *)
(* every instance: the in-memory store serves each request as              *)
(* QuestionContract allows.                                                *)
(***************************************************************************)
THEOREM InMemoryKeepsContract == Spec => ContractSpec
<1>1. Init => Contract!Init
  BY SameReplies DEF Init, Contract!Init, Contract!Slots, Slots
<1>2. Sound /\ [Next]_vars => [Contract!Next]_(Contract!promise)
  BY StepKeepsContract
<1> QED
  BY <1>1, <1>2, SoundInit, StepIsSound, PTL DEF Spec, ContractSpec, Contract!Spec
=============================================================================
