------------------------- MODULE SecurityAuditProofs -------------------------
(***************************************************************************)
(* Theorems about SecurityAudit for every set of requests and sources,     *)
(* every channel capacity and every number of restarts: a window has at    *)
(* most one row, the dictionary lets one denial of a window pass, and no   *)
(* denial goes uncounted.                                                  *)
(***************************************************************************)
EXTENDS SecurityAudit, FiniteSetTheorems, TLAPS

(***************************************************************************)
(* Types.  A request that was denied has an envelope, whose instant is not *)
(* ahead of the clock.                                                     *)
(***************************************************************************)
Denied ==
  \A r \in Requests : pc[r] # "idle" => denial[r] \in Denial /\ denial[r].at <= clock

\* The worker holds an envelope exactly while it writes one.
Busy == {"writing", "inserted", "duplicate"}
WorkerHolds == writing # Null <=> worker \in Busy

Typed == TypeOK /\ Denied /\ WorkerHolds

LEMMA InstantsAreNat == Instants \subseteq Nat
BY AuditAssumption

LEMMA KeyType ==
  ASSUME Typed, NEW r \in Requests, pc[r] # "idle"
  PROVE  Key(r) \in Sources \X Nat
<1>1. denial[r].source \in Sources /\ denial[r].at \in Nat
  BY InstantsAreNat DEF Typed, Denied, Denial
<1>2. \A n \in Nat, m \in Nat \ {0} : n \div m \in Nat
  OBVIOUS
<1> QED
  BY <1>1, <1>2, AuditAssumption DEF Key

LEMMA TypedInit == Init => Typed
<1> SUFFICES ASSUME Init PROVE Typed
  OBVIOUS
<1>1. /\ pc \in [Requests -> Steps]
      /\ denial \in [Requests -> Denial \union {NoDenial}]
      /\ unseen \in [Requests -> SUBSET [key : Sources \X Nat, at : Instants]]
      /\ met \in [Requests -> (Sources \X Nat) \union {Null}]
  BY DEF Init, Steps
<1>2. queue \in Seq(Requests) /\ Len(queue) = 0 /\ 0 <= QueueCapacity
  BY AuditAssumption DEF Init
<1>3. restarts \in 0 .. MaxRestarts
  BY AuditAssumption DEF Init
<1> QED
  BY <1>1, <1>2, <1>3 DEF Init, Typed, TypeOK, Denied, WorkerHolds, Busy

LEMMA TypedAnswer ==
  ASSUME Typed, NEW r \in Requests, Answer(r)
  PROVE  Typed'
<1> USE DEF Typed, TypeOK, Denied, WorkerHolds, Busy, Steps
<1>1. CASE MarkWindow(r)
  <2>1. Key(r) \in Sources \X Nat /\ denial[r].at \in Instants
    BY <1>1, KeyType DEF MarkWindow, Denial
  <2> QED
    BY <1>1, <2>1 DEF MarkWindow, trims, metrics, life, durable
<1>2. CASE Suppress(r)
  BY <1>2 DEF Suppress, trims, life, durable
<1>3. CASE TrimExpiredWindows(r)
  <2>1. Expired(r) \subseteq windows
    BY DEF Expired
  <2> QED
    BY <1>3, <2>1 DEF TrimExpiredWindows, metrics, life, durable
<1>6. CASE MeetExpired(r)
  <2>1. \A w \in unseen[r] \union Expired(r) : w.key \in Sources \X Nat
    BY DEF Expired
  <2> QED
    BY <1>6, <2>1 DEF MeetExpired, metrics, life, durable
<1>7. CASE TryRemove(r)
  BY <1>7 DEF TryRemove, metrics, life, durable
<1>8. CASE EndTrim(r)
  BY <1>8 DEF EndTrim, metrics, life, durable
<1>4. CASE Enqueue(r)
  BY <1>4, AuditAssumption DEF Enqueue, trims, metrics, life, durable
<1>5. CASE Drop(r)
  BY <1>5 DEF Drop, trims, life, durable
<1> QED
  BY <1>1, <1>2, <1>3, <1>4, <1>5, <1>6, <1>7, <1>8 DEF Answer

LEMMA TypedWork ==
  ASSUME Typed, Work
  PROVE  Typed'
<1> USE DEF Typed, TypeOK, Denied, WorkerHolds, Busy
<1>1. CASE Take
  <2>1. Head(queue) \in Requests /\ Tail(queue) \in Seq(Requests) /\ Head(queue) # Null
    BY <1>1, AuditAssumption DEF Take
  <2>2. Len(Tail(queue)) <= QueueCapacity
    BY <1>1, AuditAssumption DEF Take
  <2> QED
    BY <1>1, <2>1, <2>2 DEF Take, middleware, trims, metrics, life, durable
<1>2. CASE Wake \/ Sleep \/ Exit
  BY <1>2 DEF Wake, Sleep, Exit, middleware, trims, metrics, life, durable
<1>3. CASE Insert
  <2>1. writing \in Requests /\ rows' \subseteq rows \union {writing}
    BY <1>3 DEF Insert
  <2> QED
    BY <1>3, <2>1 DEF Insert, middleware, trims, metrics, life
<1>4. CASE Complete
  BY <1>4 DEF Complete, middleware, trims, life, durable
<1>5. CASE FailWrite
  BY <1>5 DEF FailWrite, middleware, trims, life
<1> QED
  BY <1>1, <1>2, <1>3, <1>4, <1>5 DEF Work

LEMMA TypedNext ==
  ASSUME Typed, [Next]_vars
  PROVE  Typed'
<1>1. ASSUME NEW r \in Requests, NEW limited \in BOOLEAN, NEW source \in Sources,
             Deny(r, limited, source)
      PROVE  Typed'
  <2>1. [limited |-> limited, source |-> source, at |-> clock] \in Denial /\ clock <= clock
    BY <1>1, InstantsAreNat DEF Denial, Typed, TypeOK
  <2> QED
    BY <1>1, <2>1 DEF Deny, Typed, TypeOK, Denied, WorkerHolds, Steps, trims, metrics, life, durable
<1>2. CASE Stop
  BY <1>2 DEF Stop, Typed, TypeOK, Denied, WorkerHolds, middleware, trims, metrics, durable
<1>3. CASE Restart
  <2>1. restarts' \in 0 .. MaxRestarts
    BY <1>3, AuditAssumption DEF Restart, Typed, TypeOK
  <2>2. queue' \in Seq(Requests) /\ Len(queue') <= QueueCapacity
    BY <1>3, AuditAssumption DEF Restart
  <2> QED
    BY <1>3, <2>1, <2>2
       DEF Restart, Typed, TypeOK, Denied, WorkerHolds, Busy, Steps, durable
<1>4. CASE Tick
  <2>1. clock \in Nat /\ clock' \in Instants /\ clock' \in Nat /\ clock <= clock'
    BY <1>4, InstantsAreNat DEF Tick, Typed, TypeOK
  <2>2. Denied'
    <3>1. \A r \in Requests : pc[r] # "idle" => denial[r].at \in Nat
      BY InstantsAreNat DEF Typed, Denied, Denial
    <3> QED
      BY <1>4, <2>1, <3>1 DEF Tick, middleware, Typed, Denied
  <2> QED
    BY <1>4, <2>1, <2>2
       DEF Tick, Typed, TypeOK, WorkerHolds, middleware, trims, metrics, life, durable
<1>5. CASE UNCHANGED vars
  BY <1>5 DEF vars, Typed, TypeOK, Denied, WorkerHolds, middleware, trims, metrics, life, durable
<1> QED
  BY <1>1, <1>2, <1>3, <1>4, <1>5, TypedAnswer, TypedWork DEF Next

(***************************************************************************)
(* Every variable keeps its type, and the channel its bound, whatever the  *)
(* requests, the worker, stops and restarts do.                            *)
(***************************************************************************)
THEOREM TypeCorrect == Spec => []TypeOK
<1>1. Typed /\ [Next]_vars => Typed'
  BY TypedNext
<1>2. Typed => TypeOK
  BY DEF Typed
<1> QED
  BY <1>1, <1>2, TypedInit, PTL DEF Spec
-----------------------------------------------------------------------------
(***************************************************************************)
(* Where an envelope is.  What is in the channel or at the worker is in no *)
(* other place, and is not in the table or the log unless the worker has   *)
(* just put it there; what is in the table or the log was in the channel.  *)
(***************************************************************************)
QueueIsNew ==
  /\ \A i \in 1 .. Len(queue) :
       /\ pc[queue[i]] = "queued"
       /\ queue[i] \notin rows \union logged \union {writing}
  /\ \A i, j \in 1 .. Len(queue) : queue[i] = queue[j] => i = j

WritingIsNew ==
  writing # Null =>
    /\ pc[writing] = "queued"
    /\ writing \notin logged
    /\ writing \in rows <=> worker = "inserted"

Settled == \A r \in rows \union logged : pc[r] \in {"queued", "gone"}

Placed == QueueIsNew /\ WritingIsNew /\ Settled

LEMMA PlacedInit == Init => Placed
BY DEF Init, Placed, QueueIsNew, WritingIsNew, Settled

LEMMA PlacedAnswer ==
  ASSUME Typed, Placed, NEW r \in Requests, Answer(r)
  PROVE  Placed'
<1>1. /\ UNCHANGED <<worker, writing, rows, logged>>
      /\ pc[r] \in {"marking", "trimming", "scanning", "removing", "writing"}
      /\ \A s \in Requests \ {r} : pc'[s] = pc[s]
  BY DEF Answer, MarkWindow, Suppress, TrimExpiredWindows, MeetExpired, TryRemove, EndTrim, Enqueue, Drop, durable,
     Typed, TypeOK
<1>2. r \notin rows \union logged \union {writing}
  BY <1>1, AuditAssumption DEF Placed, Settled, WritingIsNew
<1>3. \A i \in 1 .. Len(queue) : queue[i] \in Requests /\ queue[i] # r
  BY <1>1 DEF Placed, QueueIsNew, Typed, TypeOK
<1>4. WritingIsNew' /\ Settled'
  BY <1>1, <1>2 DEF Placed, WritingIsNew, Settled, Typed, TypeOK
<1>5. CASE UNCHANGED queue
  BY <1>1, <1>3, <1>4, <1>5 DEF Placed, QueueIsNew
<1>6. CASE Enqueue(r)
  <2>1. /\ Len(queue') = Len(queue) + 1 /\ Len(queue) \in Nat
        /\ \A i \in 1 .. Len(queue) : queue'[i] = queue[i]
        /\ queue'[Len(queue) + 1] = r
        /\ pc'[r] = "queued"
    BY <1>6 DEF Enqueue, Typed, TypeOK
  <2>2. \A i \in 1 .. Len(queue') : i \in 1 .. Len(queue) \/ i = Len(queue) + 1
    BY <2>1
  <2> QED
    BY <1>1, <1>2, <1>3, <1>4, <2>1, <2>2 DEF Placed, QueueIsNew
<1> QED
  BY <1>5, <1>6 DEF Answer, MarkWindow, Suppress, TrimExpiredWindows, MeetExpired, TryRemove,
     EndTrim, Drop

LEMMA PlacedWork ==
  ASSUME Typed, Placed, Work
  PROVE  Placed'
<1>1. UNCHANGED pc
  BY DEF Work, Wake, Take, Sleep, Insert, Complete, FailWrite, Exit, middleware
<1>2. CASE Wake \/ Sleep \/ Exit
  BY <1>1, <1>2 DEF Wake, Sleep, Exit, durable, Placed, QueueIsNew, WritingIsNew, Settled,
     Typed, WorkerHolds, Busy
<1>3. CASE Take
  <2>1. /\ writing' = queue[1] /\ queue' = Tail(queue) /\ UNCHANGED <<rows, logged>>
        /\ worker' = "writing" /\ writing = Null
    BY <1>3 DEF Take, durable, Typed, WorkerHolds, Busy
  <2>2. /\ Len(queue) \in Nat \ {0} /\ Len(queue') = Len(queue) - 1
        /\ \A i \in 1 .. Len(queue') : queue'[i] = queue[i + 1] /\ i + 1 \in 2 .. Len(queue)
    BY <1>3, <2>1 DEF Take, Typed, TypeOK
  <2>3. /\ pc[writing'] = "queued" /\ writing' \notin rows \union logged
        /\ \A i \in 2 .. Len(queue) : queue[i] # writing'
    BY <2>1, <2>2 DEF Placed, QueueIsNew
  <2>4. QueueIsNew'
    BY <1>1, <2>1, <2>2, <2>3 DEF Placed, QueueIsNew
  <2> QED
    BY <1>1, <2>1, <2>3, <2>4 DEF Placed, WritingIsNew, Settled
<1>4. CASE Insert
  <2>1. /\ UNCHANGED <<queue, writing, logged>>
        /\ writing \in Requests /\ writing # Null /\ worker = "writing"
        /\ \/ worker' = "inserted" /\ rows' = rows \union {writing}
           \/ worker' = "duplicate" /\ rows' = rows
    BY <1>4 DEF Insert, Typed, TypeOK, WorkerHolds, Busy
  <2> QED
    BY <1>1, <2>1 DEF Placed, QueueIsNew, WritingIsNew, Settled
<1>5. CASE Complete \/ FailWrite
  <2>1. /\ UNCHANGED <<queue, rows>>
        /\ writing' = Null /\ writing \in Requests /\ writing # Null
        /\ logged' \subseteq logged \union {writing}
    BY <1>5 DEF Complete, FailWrite, durable, Typed, TypeOK, WorkerHolds, Busy
  <2>2. \A i \in 1 .. Len(queue) : queue[i] # Null
    BY AuditAssumption DEF Typed, TypeOK
  <2> QED
    BY <1>1, <2>1, <2>2 DEF Placed, QueueIsNew, WritingIsNew, Settled
<1> QED
  BY <1>2, <1>3, <1>4, <1>5 DEF Work

LEMMA PlacedNext ==
  ASSUME Typed, Placed, [Next]_vars
  PROVE  Placed'
<1> USE DEF Placed, QueueIsNew, WritingIsNew, Settled
<1>1. ASSUME NEW r \in Requests, NEW limited \in BOOLEAN, NEW source \in Sources,
             Deny(r, limited, source)
      PROVE  Placed'
  <2>1. /\ UNCHANGED <<queue, writing, worker, rows, logged>>
        /\ \A s \in Requests : pc[s] # "idle" => pc'[s] = pc[s]
    BY <1>1 DEF Deny, durable, Typed, TypeOK
  <2> QED
    BY <2>1, AuditAssumption DEF Typed, TypeOK
<1>2. CASE Restart
  BY <1>2 DEF Restart, durable, Typed, TypeOK
<1>3. CASE Stop \/ Tick \/ UNCHANGED vars
  BY <1>3 DEF Stop, Tick, vars, middleware, durable
<1> QED
  BY <1>1, <1>2, <1>3, PlacedAnswer, PlacedWork DEF Next
-----------------------------------------------------------------------------
(***************************************************************************)
(* An envelope does not change once it is made, and the clock goes on.     *)
(***************************************************************************)
LEMMA DenialsStay ==
  ASSUME Typed, [Next]_vars
  PROVE  /\ clock <= clock' /\ clock \in Nat /\ clock' \in Nat
         /\ \A r \in Requests : pc[r] # "idle" => pc'[r] # "idle" /\ denial'[r] = denial[r]
<1>1. ASSUME NEW r \in Requests, NEW limited \in BOOLEAN, NEW source \in Sources,
             Deny(r, limited, source)
      PROVE  \A s \in Requests : pc[s] # "idle" => pc'[s] # "idle" /\ denial'[s] = denial[s]
  BY <1>1 DEF Deny, Typed, TypeOK
<1>2. ASSUME NEW r \in Requests, Answer(r)
      PROVE  \A s \in Requests : pc[s] # "idle" => pc'[s] # "idle" /\ denial'[s] = denial[s]
  BY <1>2 DEF Answer, MarkWindow, Suppress, TrimExpiredWindows, MeetExpired, TryRemove, EndTrim, Enqueue, Drop, Typed, TypeOK
<1>3. CASE Work \/ Stop \/ Tick \/ UNCHANGED vars
  BY <1>3, InstantsAreNat
     DEF Work, Wake, Take, Sleep, Insert, Complete, FailWrite, Exit, Stop, Tick, vars,
         middleware, Typed, TypeOK
<1>4. CASE Restart
  BY <1>4, InstantsAreNat DEF Restart, Typed, TypeOK
<1>5. clock' = clock \/ Tick
  BY DEF Next, Deny, Answer, MarkWindow, Suppress, TrimExpiredWindows, MeetExpired, TryRemove, EndTrim, Enqueue, Drop,
     Work, Wake, Take, Sleep, Insert, Complete, FailWrite, Exit, Stop, Restart, vars
<1>6. clock <= clock' /\ clock \in Nat /\ clock' \in Nat
  BY <1>5, InstantsAreNat DEF Tick, Typed, TypeOK
<1> QED
  BY <1>1, <1>2, <1>3, <1>4, <1>6 DEF Next

LEMMA SameWindowStays ==
  ASSUME Typed, [Next]_vars, NEW r \in Requests, NEW s \in Requests,
         pc[r] # "idle", pc[s] # "idle"
  PROVE  /\ SameWindow(r, s)' = SameWindow(r, s)
         /\ SameWindow(s, r) = SameWindow(r, s)
<1>1. denial'[r] = denial[r] /\ denial'[s] = denial[s]
  BY DenialsStay
<1>2. denial[r] \in Denial /\ denial[s] \in Denial
  BY DEF Typed, Denied
<1> QED
  BY <1>1, <1>2 DEF SameWindow, Key, Denial
-----------------------------------------------------------------------------
(***************************************************************************)
(* The unique index.                                                       *)
(***************************************************************************)
LEMMA OneRowNext ==
  ASSUME Typed, Placed, OneRowPerWindow, [Next]_vars
  PROVE  OneRowPerWindow'
<1>1. \A r \in rows : r \in Requests /\ pc[r] # "idle"
  BY DEF Placed, Settled, Typed, TypeOK
<1>2. CASE UNCHANGED rows
  BY <1>1, <1>2, SameWindowStays DEF OneRowPerWindow
<1>3. CASE Insert /\ rows' # rows
  <2>1. /\ writing \in Requests /\ pc[writing] # "idle"
        /\ rows' = rows \union {writing}
        /\ \A s \in rows : ~SameWindow(writing, s)
    BY <1>3 DEF Insert, Conflicts, Typed, TypeOK, WorkerHolds, Busy, Placed, WritingIsNew
  <2>2. ASSUME NEW r \in rows', NEW s \in rows', SameWindow(r, s)'
        PROVE  r = s
    <3>1. r \in Requests /\ s \in Requests /\ pc[r] # "idle" /\ pc[s] # "idle"
      BY <1>1, <2>1
    <3>2. SameWindow(r, s) /\ SameWindow(s, r)
      BY <2>2, <3>1, SameWindowStays
    <3> QED
      BY <2>1, <3>2 DEF OneRowPerWindow
  <2> QED
    BY <2>2 DEF OneRowPerWindow
<1>4. UNCHANGED rows \/ Insert
  BY DEF Next, Deny, Answer, MarkWindow, Suppress, TrimExpiredWindows, MeetExpired, TryRemove, EndTrim, Enqueue, Drop,
     Work, Wake, Take, Sleep, Complete, FailWrite, Exit, Stop, Restart, Tick, vars, durable
<1> QED
  BY <1>2, <1>3, <1>4

(***************************************************************************)
(* ADR-0010 D2 for every instance: a window never has two rows, whatever   *)
(* the dictionary has forgotten (ON CONFLICT DO NOTHING over the partial   *)
(* unique index).                                                          *)
(***************************************************************************)
THEOREM WindowsHaveOneRow == Spec => []OneRowPerWindow
<1>1. Init => Typed /\ Placed /\ OneRowPerWindow
  <2>1. Init => OneRowPerWindow
    BY DEF Init, OneRowPerWindow
  <2> QED
    BY <2>1, TypedInit, PlacedInit
<1>2. Typed /\ Placed /\ OneRowPerWindow /\ [Next]_vars
        => Typed' /\ Placed' /\ OneRowPerWindow'
  BY TypedNext, PlacedNext, OneRowNext
<1> QED
  BY <1>1, <1>2, PTL DEF Spec
-----------------------------------------------------------------------------
(***************************************************************************)
(* The dictionary.  A request that was let pass has an entry of its window *)
(* there, its own or a later one, until a trim has removed it.  An entry   *)
(* is not older than its window, so that a trim that finds it expired, or  *)
(* found an earlier one of the same key expired, comes when the window has *)
(* long been over; and that remains so while the trim is on its way.       *)
(***************************************************************************)
HasEntry(r) == \E w \in windows : w.key = Key(r)

NotOlder(w) == w.at >= w.key[2] * Minute

EntriesOfWindows == \A w \in windows : NotOlder(w)

TrimsAreLate ==
  \A r \in Requests :
    /\ \A w \in unseen[r] : LongOver(w.key)
    /\ pc[r] = "removing" => met[r] \in Sources \X Nat /\ LongOver(met[r])

EntriesRemain ==
  \A r \in Requests : Passed(r) /\ denial[r].limited => LongOver(Key(r)) \/ HasEntry(r)

Suppressing == EntriesOfWindows /\ TrimsAreLate /\ EntriesRemain /\ OnePassPerWindow

LEMMA WindowOfInstant ==
  ASSUME NEW at \in Nat, NEW m \in Nat \ {0}
  PROVE  (at \div m) * m <= at
OBVIOUS

LEMMA LongOverStays ==
  ASSUME Typed, [Next]_vars, NEW key \in Sources \X Nat, LongOver(key)
  PROVE  LongOver(key)'
<1>1. (key[2] + 2) * Minute \in Nat
  BY AuditAssumption
<1> QED
  BY <1>1, DenialsStay DEF LongOver

\* What a trim finds expired belongs to a window that is long over.
LEMMA ExpiredIsLongOver ==
  ASSUME Typed, EntriesOfWindows, NEW r \in Requests, pc[r] # "idle", NEW w \in Expired(r)
  PROVE  LongOver(w.key)
<1>1. denial[r].at \in Nat /\ denial[r].at <= clock /\ clock \in Nat
  BY InstantsAreNat DEF Typed, TypeOK, Denied, Denial
<1>2. w \in windows /\ w.at \in Nat /\ w.key \in Sources \X Nat /\ w.at < denial[r].at - 2 * Minute
  <2>1. w \in windows /\ w.at \in Nat /\ w.key \in Sources \X Nat
    BY InstantsAreNat DEF Expired, Typed, TypeOK
  <2>2. ~(w.at >= denial[r].at - 2 * Minute)
    BY DEF Expired, Kept
  <2>3. 2 * Minute \in Nat
    BY AuditAssumption
  <2> QED
    BY <1>1, <2>1, <2>2, <2>3
<1>3. w.at >= w.key[2] * Minute
  BY <1>2 DEF EntriesOfWindows, NotOlder
<1>4. PICK n \in Nat : n = w.key[2]
  BY <1>2
<1>5. PICK p \in Nat : p = n * Minute
  BY AuditAssumption
<1>6. (n + 2) * Minute = p + 2 * Minute
  BY <1>5, AuditAssumption
<1>7. clock > p + 2 * Minute
  <2>1. 2 * Minute \in Nat
    BY AuditAssumption
  <2> QED
    BY <1>1, <1>2, <1>3, <1>4, <1>5, <2>1
<1> QED
  BY <1>4, <1>6, <1>7 DEF LongOver

\* A step that lets no limited denial pass, opens no window and begins no trim.
LEMMA QuietSuppresses ==
  ASSUME Typed, Suppressing, [Next]_vars,
         \A r \in Requests : Passed(r)' /\ denial'[r].limited => Passed(r),
         windows' \subseteq windows,
         \A w \in windows : w \in windows' \/ LongOver(w.key),
         TrimsAreLate'
  PROVE  Suppressing'
<1>1. \A r \in Requests : Passed(r) => pc[r] # "idle"
  BY DEF Passed, InTrim
<1>2. \A r \in Requests :
        pc[r] # "idle" /\ LongOver(Key(r)) => LongOver(Key(r))'
  <2> SUFFICES ASSUME NEW r \in Requests, pc[r] # "idle", LongOver(Key(r))
               PROVE  LongOver(Key(r))'
    OBVIOUS
  <2>1. Key(r) \in Sources \X Nat /\ Key(r)' = Key(r)
    BY KeyType, DenialsStay DEF Key
  <2>2. \A k \in Sources \X Nat : LongOver(k) => LongOver(k)'
    BY LongOverStays
  <2> QED
    BY <2>1, <2>2 DEF LongOver
<1>3. EntriesOfWindows'
  BY DEF Suppressing, EntriesOfWindows, NotOlder
<1>4. ASSUME NEW r \in Requests, Passed(r)', denial'[r].limited
      PROVE  LongOver(Key(r))' \/ HasEntry(r)'
  <2>1. Passed(r) /\ denial'[r] = denial[r] /\ Key(r)' = Key(r)
    BY <1>1, <1>4, DenialsStay DEF Key
  <2>2. LongOver(Key(r)) \/ HasEntry(r)
    BY <1>4, <2>1 DEF Suppressing, EntriesRemain
  <2>3. CASE HasEntry(r)
    <3>1. PICK w \in windows : w.key = Key(r)
      BY <2>3 DEF HasEntry
    <3>2. w \in windows' \/ LongOver(Key(r))
      BY <3>1
    <3> QED
      BY <1>1, <1>2, <2>1, <3>1, <3>2 DEF HasEntry
  <2> QED
    BY <1>1, <1>2, <2>1, <2>2, <2>3
<1>5. ASSUME NEW r \in Requests, NEW s \in Requests, Passed(r)', Passed(s)',
             SameWindow(r, s)', r # s
      PROVE  LongOver(Key(r))'
  <2>1. Passed(r) /\ Passed(s) /\ SameWindow(r, s)
    BY <1>1, <1>5, SameWindowStays DEF SameWindow
  <2> QED
    BY <1>1, <1>2, <1>5, <2>1 DEF Suppressing, OnePassPerWindow
<1> QED
  BY <1>3, <1>4, <1>5 DEF Suppressing, EntriesRemain, OnePassPerWindow

\* Trims that are on their way stay late.
LEMMA TrimsStayLate ==
  ASSUME Typed, TrimsAreLate, [Next]_vars, NEW r \in Requests,
         \A w \in unseen'[r] : w \in unseen[r] \/ (LongOver(w.key) /\ w.key \in Sources \X Nat),
         pc'[r] = "removing" =>
           (pc[r] = "removing" /\ met'[r] = met[r])
             \/ (met'[r] \in Sources \X Nat /\ LongOver(met'[r]))
  PROVE  /\ \A w \in unseen'[r] : LongOver(w.key)'
         /\ pc'[r] = "removing" => met'[r] \in Sources \X Nat /\ LongOver(met[r])'
<1>1. \A k \in Sources \X Nat : LongOver(k) => LongOver(k)'
  BY LongOverStays
<1>2. \A w \in unseen[r] : w.key \in Sources \X Nat /\ LongOver(w.key)
  BY DEF Typed, TypeOK, TrimsAreLate
<1>3. \A w \in unseen'[r] : LongOver(w.key)'
  BY <1>1, <1>2
<1>4. ASSUME pc'[r] = "removing" PROVE met'[r] \in Sources \X Nat /\ LongOver(met[r])'
  <2>1. met'[r] \in Sources \X Nat /\ LongOver(met'[r])
    BY <1>4 DEF TrimsAreLate
  <2> QED
    BY <1>1, <2>1 DEF LongOver
<1> QED
  BY <1>3, <1>4

\* The same for all requests when no trim does a step.
LEMMA TrimsUntouched ==
  ASSUME Typed, TrimsAreLate, [Next]_vars, UNCHANGED trims,
         \A r \in Requests : pc'[r] = "removing" => pc[r] = "removing"
  PROVE  TrimsAreLate'
<1>1. ASSUME NEW r \in Requests
      PROVE  /\ \A w \in unseen'[r] : LongOver(w.key)'
             /\ pc'[r] = "removing" => met'[r] \in Sources \X Nat /\ LongOver(met[r])'
  <2>1. unseen'[r] = unseen[r] /\ met'[r] = met[r] /\ (pc'[r] = "removing" => pc[r] = "removing")
    BY DEF trims
  <2> QED
    BY <2>1, TrimsStayLate
<1> QED
  BY <1>1 DEF TrimsAreLate

LEMMA MarkSuppresses ==
  ASSUME Typed, Suppressing, [Next]_vars, NEW r \in Requests, MarkWindow(r)
  PROVE  Suppressing'
<1>1. /\ pc[r] = "marking" /\ pc'[r] = "trimming"
      /\ UNCHANGED <<denial, clock, trims>>
      /\ windows' = windows \union {[key |-> Key(r), at |-> denial[r].at]}
      /\ \A s \in Requests \ {r} : pc'[s] = pc[s]
      /\ ~Marked(r)
  BY DEF MarkWindow, Typed, TypeOK
<1>2. \A s \in Requests : /\ Key(s)' = Key(s) /\ LongOver(Key(s))' = LongOver(Key(s))
                          /\ HasEntry(s) => HasEntry(s)'
  BY <1>1 DEF Key, LongOver, HasEntry
<1>3. HasEntry(r)'
  BY <1>1, <1>2 DEF HasEntry
<1>4. \A s \in Requests \ {r} : Passed(s)' = Passed(s)
  BY <1>1 DEF Passed, InTrim
<1>5. EntriesRemain'
  BY <1>1, <1>2, <1>3, <1>4 DEF Suppressing, EntriesRemain
<1>6. ASSUME NEW s \in Requests \ {r}, Passed(s), denial[s].limited, Key(s) = Key(r)
      PROVE  LongOver(Key(r))
  BY <1>1, <1>6 DEF Suppressing, EntriesRemain, HasEntry, Marked
<1>7. ASSUME NEW s \in Requests, NEW t \in Requests, Passed(s)', Passed(t)',
             SameWindow(s, t)', s # t
      PROVE  LongOver(Key(s))'
  <2>1. denial[s].limited /\ denial[t].limited /\ Key(s) = Key(t)
    BY <1>1, <1>2, <1>7 DEF SameWindow
  <2>2. CASE s = r \/ t = r
    BY <1>2, <1>4, <1>6, <1>7, <2>1, <2>2
  <2>3. CASE s # r /\ t # r
    BY <1>2, <1>4, <1>7, <2>1, <2>3 DEF Suppressing, OnePassPerWindow, SameWindow
  <2> QED
    BY <2>2, <2>3
<1>8. EntriesOfWindows'
  <2>1. denial[r].at \in Nat
    BY <1>1, InstantsAreNat DEF Typed, Denied, Denial
  <2>2. (denial[r].at \div Minute) * Minute <= denial[r].at
    BY <2>1, WindowOfInstant, AuditAssumption
  <2>3. NotOlder([key |-> Key(r), at |-> denial[r].at])
    <3>1. (denial[r].at \div Minute) * Minute \in Int
      BY <2>1, AuditAssumption
    <3> QED
      BY <2>1, <2>2, <3>1 DEF NotOlder, Key
  <2> QED
    BY <1>1, <2>3 DEF Suppressing, EntriesOfWindows, NotOlder
<1>9. TrimsAreLate'
  BY <1>1, TrimsUntouched DEF Suppressing
<1> QED
  BY <1>5, <1>7, <1>8, <1>9 DEF Suppressing, OnePassPerWindow

LEMMA TrimSuppresses ==
  ASSUME Typed, Suppressing, [Next]_vars, NEW r \in Requests,
         TrimExpiredWindows(r) \/ MeetExpired(r) \/ TryRemove(r) \/ EndTrim(r)
  PROVE  Suppressing'
<1>1. /\ pc[r] \in InTrim /\ pc'[r] \in InTrim \union {"writing"}
      /\ UNCHANGED denial
      /\ \A s \in Requests \ {r} :
           pc'[s] = pc[s] /\ unseen'[s] = unseen[s] /\ met'[s] = met[s]
  BY DEF TrimExpiredWindows, MeetExpired, TryRemove, EndTrim, InTrim, Typed, TypeOK
<1>2. \A w \in Expired(r) : LongOver(w.key) /\ w.key \in Sources \X Nat
  BY <1>1, ExpiredIsLongOver DEF InTrim, Suppressing, Expired, Typed, TypeOK
<1>3. \A w \in unseen[r] : LongOver(w.key) /\ w.key \in Sources \X Nat
  BY DEF Suppressing, TrimsAreLate, Typed, TypeOK
<1>4. /\ \A w \in unseen'[r] : w \in unseen[r] \/ (LongOver(w.key) /\ w.key \in Sources \X Nat)
      /\ pc'[r] = "removing" => met'[r] \in Sources \X Nat /\ LongOver(met'[r])
  <2>1. CASE TrimExpiredWindows(r)
    BY <1>2, <2>1 DEF TrimExpiredWindows, Typed, TypeOK
  <2>2. CASE MeetExpired(r)
    <3>1. PICK w \in unseen[r] \union Expired(r) :
            met' = [met EXCEPT ![r] = w.key] /\ unseen' = [unseen EXCEPT ![r] = @ \ {w}]
      BY <2>2 DEF MeetExpired
    <3>2. met'[r] = w.key /\ LongOver(w.key) /\ w.key \in Sources \X Nat
      BY <1>2, <1>3, <3>1 DEF Typed, TypeOK
    <3> QED
      BY <3>1, <3>2 DEF Typed, TypeOK
  <2>3. CASE TryRemove(r)
    BY <2>3 DEF TryRemove, Typed, TypeOK
  <2>4. CASE EndTrim(r)
    BY <2>4 DEF EndTrim, Typed, TypeOK
  <2> QED
    BY <2>1, <2>2, <2>3, <2>4
<1>5. TrimsAreLate'
  <2>1. ASSUME NEW s \in Requests
        PROVE  /\ \A w \in unseen'[s] : LongOver(w.key)'
               /\ pc'[s] = "removing" => met'[s] \in Sources \X Nat /\ LongOver(met[s])'
    <3>1. CASE s = r
      BY <1>4, <3>1, TrimsStayLate DEF Suppressing
    <3>2. CASE s # r
      BY <1>1, <3>2, TrimsStayLate DEF Suppressing
    <3> QED
      BY <3>1, <3>2
  <2> QED
    BY <2>1 DEF TrimsAreLate
<1>6. windows' \subseteq windows /\ \A w \in windows : w \in windows' \/ LongOver(w.key)
  <2>1. CASE TryRemove(r)
    <3>1. LongOver(met[r]) /\ windows' = {w \in windows : w.key # met[r]}
      BY <2>1 DEF TryRemove, Suppressing, TrimsAreLate
    <3> QED
      BY <3>1
  <2>2. CASE TrimExpiredWindows(r) \/ MeetExpired(r) \/ EndTrim(r)
    BY <2>2 DEF TrimExpiredWindows, MeetExpired, EndTrim
  <2> QED
    BY <2>1, <2>2
<1>7. \A s \in Requests : Passed(s)' => Passed(s)
  BY <1>1 DEF Passed, InTrim
<1> QED
  BY <1>5, <1>6, <1>7, QuietSuppresses

LEMMA SuppressingNext ==
  ASSUME Typed, Suppressing, [Next]_vars
  PROVE  Suppressing'
<1>1. CASE Restart
  BY <1>1 DEF Restart, Passed, InTrim, Suppressing, EntriesOfWindows, TrimsAreLate,
     EntriesRemain, OnePassPerWindow
<1>2. ASSUME UNCHANGED <<windows, trims>>,
             \A r \in Requests : pc'[r] = "removing" => pc[r] = "removing",
             \A r \in Requests : Passed(r)' /\ denial'[r].limited => Passed(r)
      PROVE  Suppressing'
  BY <1>2, TrimsUntouched, QuietSuppresses DEF Suppressing
<1>3. ASSUME NEW r \in Requests, Suppress(r) \/ Enqueue(r) \/ Drop(r)
      PROVE  Suppressing'
  BY <1>2, <1>3 DEF Suppress, Enqueue, Drop, Passed, InTrim, Typed, TypeOK
<1>4. ASSUME NEW r \in Requests, NEW limited \in BOOLEAN, NEW source \in Sources,
             Deny(r, limited, source)
      PROVE  Suppressing'
  <2>1. /\ UNCHANGED <<windows, trims>> /\ denial'[r].limited = limited
        /\ pc'[r] \in {"marking", "writing"}
        /\ limited => pc'[r] = "marking"
        /\ \A s \in Requests \ {r} : pc'[s] = pc[s]
    BY <1>4 DEF Deny, Typed, TypeOK
  <2>2. \A s \in Requests : Passed(s)' /\ denial'[s].limited => Passed(s)
    BY <2>1 DEF Passed, InTrim
  <2> QED
    BY <1>2, <2>1, <2>2
<1>5. CASE Work \/ Stop \/ Tick \/ UNCHANGED vars
  BY <1>2, <1>5
     DEF Work, Wake, Take, Sleep, Insert, Complete, FailWrite, Exit, Stop, Tick, vars,
         middleware, Passed, InTrim
<1> QED
  BY <1>1, <1>3, <1>4, <1>5, MarkSuppresses, TrimSuppresses DEF Next, Answer

(***************************************************************************)
(* TryEnqueue for every instance: the dictionary lets another denial of a  *)
(* window pass only when the window has been over for more than a minute,  *)
(* however requests and the steps of overlapping trims interleave.         *)
(***************************************************************************)
(***************************************************************************)
(* TryEnqueue for every instance: the dictionary lets a second denial of a *)
(* window pass only when one of the two was overtaken by two minutes,      *)
(* however requests and trims interleave.                                  *)
(***************************************************************************)
THEOREM WindowsOpenOnce == Spec => []OnePassPerWindow
<1>1. Init => Suppressing
  BY DEF Init, Suppressing, EntriesOfWindows, TrimsAreLate, EntriesRemain, OnePassPerWindow,
     Passed, InTrim
<1>2. Typed /\ Suppressing /\ [Next]_vars => Typed' /\ Suppressing'
  BY TypedNext, SuppressingNext
<1>3. Suppressing => OnePassPerWindow
  BY DEF Suppressing
<1> QED
  BY <1>1, <1>2, <1>3, TypedInit, PTL DEF Spec
-----------------------------------------------------------------------------
(***************************************************************************)
(* The accounts.  Stored are the rows that the worker knows to be there.   *)
(***************************************************************************)
Stored == (rows \intersect Finished) \ (logged \union {writing})
AtWorker == {writing} \ {Null}

Balanced == EveryDenialIsCounted /\ IsFiniteSet(Finished)

\* The same equation, with the sizes as numbers.
LEMMA Balance ==
  ASSUME Typed, Balanced
  PROVE  /\ Cardinality(Finished) =
              Len(queue) + Cardinality(AtWorker) + suppressed + failures + Cardinality(Stored)
         /\ Len(queue) \in Nat /\ suppressed \in Nat /\ failures \in Nat
         /\ Cardinality(Finished) \in Nat
         /\ IsFiniteSet(Stored) /\ Cardinality(Stored) \in Nat
         /\ Cardinality(AtWorker) = IF writing = Null THEN 0 ELSE 1
<1>1. IsFiniteSet(Stored)
  BY FS_Subset DEF Balanced, Stored
<1>2. writing = Null => AtWorker = {}
  BY DEF AtWorker
<1>3. writing # Null => AtWorker = {writing}
  BY DEF AtWorker
<1>4. Cardinality(AtWorker) = IF writing = Null THEN 0 ELSE 1
  BY <1>2, <1>3, FS_EmptySet, FS_Singleton
<1> QED
  BY <1>1, <1>4, FS_CardinalityType
     DEF Balanced, EveryDenialIsCounted, Stored, AtWorker, Typed, TypeOK

\* What is left to show of a step.
LEMMA StaysBalanced ==
  ASSUME Typed', IsFiniteSet(Finished'),
         Cardinality(Finished') =
           Len(queue') + (IF writing' = Null THEN 0 ELSE 1) + suppressed' + failures'
             + Cardinality(Stored')
  PROVE  Balanced'
<1>1. writing' = Null => AtWorker' = {}
  BY DEF AtWorker
<1>2. writing' # Null => AtWorker' = {writing'}
  BY DEF AtWorker
<1>3. Cardinality(AtWorker') = IF writing' = Null THEN 0 ELSE 1
  BY <1>1, <1>2, FS_EmptySet, FS_Singleton
<1> QED
  BY <1>3 DEF Balanced, EveryDenialIsCounted, Stored, AtWorker

\* A denial is finished: suppressed, queued or dropped.
LEMMA AnswerBalances ==
  ASSUME Typed, Typed', Placed, Balanced, NEW r \in Requests, Answer(r)
  PROVE  Balanced'
<1>1. /\ UNCHANGED <<worker, writing, rows, logged>>
      /\ pc[r] \in {"marking", "trimming", "scanning", "removing", "writing"}
      /\ \A s \in Requests \ {r} : pc'[s] = pc[s]
  BY DEF Answer, MarkWindow, Suppress, TrimExpiredWindows, MeetExpired, TryRemove, EndTrim, Enqueue, Drop, durable,
     Typed, TypeOK
<1>2. r \notin rows /\ r \notin Finished
  BY <1>1 DEF Placed, Settled, Finished
<1>3. CASE pc'[r] \in {"trimming", "scanning", "removing", "writing"} /\ UNCHANGED <<queue, suppressed, failures>>
  <2>1. Finished' = Finished
    BY <1>1, <1>3 DEF Finished
  <2>2. Stored' = Stored
    BY <1>1, <2>1 DEF Stored
  <2> QED
    BY <1>1, <1>3, <2>1, <2>2, Balance, StaysBalanced DEF Balanced
<1>4. CASE /\ pc'[r] \in {"suppressed", "queued", "dropped"}
           /\ Len(queue') + suppressed' + failures' = Len(queue) + suppressed + failures + 1
  <2>1. Finished' = Finished \union {r}
    BY <1>1, <1>4 DEF Finished
  <2>2. Stored' = Stored
    BY <1>1, <1>2, <2>1 DEF Stored
  <2>3. IsFiniteSet(Finished') /\ Cardinality(Finished') = Cardinality(Finished) + 1
    BY <1>2, <2>1, FS_AddElement DEF Balanced
  <2>4. Len(queue') \in Nat /\ suppressed' \in Nat /\ failures' \in Nat
    BY DEF Typed, TypeOK
  <2>5. Cardinality(Finished') =
          Len(queue') + (IF writing = Null THEN 0 ELSE 1) + suppressed' + failures'
            + Cardinality(Stored)
    <3>1. PICK w \in Nat : w = IF writing = Null THEN 0 ELSE 1
      OBVIOUS
    <3>2. Cardinality(AtWorker) = w
      BY <3>1, Balance
    <3>3. Cardinality(Finished) =
            Len(queue) + w + suppressed + failures + Cardinality(Stored)
      BY <3>2, Balance
    <3>4. /\ Cardinality(Finished) \in Nat /\ Cardinality(Stored) \in Nat
          /\ Len(queue) \in Nat /\ suppressed \in Nat /\ failures \in Nat
      BY Balance
    <3>5. Len(queue') + suppressed' + failures' = Len(queue) + suppressed + failures + 1
      BY <1>4
    <3>6. Cardinality(Finished) + 1 =
            Len(queue') + w + suppressed' + failures' + Cardinality(Stored)
      <4>1. PICK ff \in Nat : ff = failures'
        BY <2>4
      <4>2. PICK ss \in Nat : ss = suppressed'
        BY <2>4
      <4>3. PICK qq \in Nat : qq = Len(queue')
        BY <2>4
      <4>4. qq + ss + ff = Len(queue) + suppressed + failures + 1
        BY <2>4, <3>4, <3>5, <4>1, <4>2, <4>3
      <4>5. PICK n \in Nat : n = Cardinality(Finished)
        BY <3>4
      <4>6. PICK c \in Nat : c = Cardinality(Stored)
        BY <3>4
      <4>7. n = Len(queue) + w + suppressed + failures + c
        BY <3>3, <4>5, <4>6
      <4>8. n + 1 = qq + w + ss + ff + c
        BY <3>4, <4>4, <4>7
      <4> QED
        BY <4>1, <4>2, <4>3, <4>5, <4>6, <4>8
    <3> QED
      BY <2>3, <3>1, <3>6
  <2> QED
    BY <1>1, <2>2, <2>3, <2>5, StaysBalanced
<1>5. pc \in [Requests -> Steps] /\ queue \in Seq(Requests)
      /\ Len(queue) \in Nat /\ suppressed \in Nat /\ failures \in Nat
  BY DEF Typed, TypeOK
<1>6. CASE \/ MarkWindow(r) \/ TrimExpiredWindows(r)
           \/ MeetExpired(r) \/ TryRemove(r) \/ EndTrim(r)
  <2>1. pc'[r] \in {"trimming", "scanning", "removing", "writing"} /\ UNCHANGED <<queue, suppressed, failures>>
    BY <1>5, <1>6 DEF MarkWindow, TrimExpiredWindows, MeetExpired, TryRemove, EndTrim, metrics
  <2> QED
    BY <1>3, <2>1
<1>7. CASE Suppress(r) \/ Drop(r)
  <2>1. pc'[r] \in {"suppressed", "dropped"} /\ queue' = queue
    BY <1>5, <1>7 DEF Suppress, Drop
  <2>2. \/ suppressed' = suppressed + 1 /\ failures' = failures
        \/ suppressed' = suppressed /\ failures' = failures + 1
    BY <1>7 DEF Suppress, Drop
  <2>3. Len(queue') + suppressed' + failures' = Len(queue) + suppressed + failures + 1
    BY <1>5, <2>1, <2>2
  <2> QED
    BY <1>4, <2>1, <2>3
<1>8. CASE Enqueue(r)
  <2>1. pc'[r] = "queued" /\ UNCHANGED <<suppressed, failures>>
    BY <1>5, <1>8 DEF Enqueue, metrics
  <2>2. Len(queue') = Len(queue) + 1
    BY <1>5, <1>8 DEF Enqueue
  <2>3. Len(queue') + suppressed' + failures' = Len(queue) + suppressed + failures + 1
    BY <1>5, <2>1, <2>2
  <2> QED
    BY <1>4, <2>1, <2>3
<1> QED
  BY <1>6, <1>7, <1>8 DEF Answer

LEMMA WorkBalances ==
  ASSUME Typed, Typed', Placed, Balanced, Work
  PROVE  Balanced'
<1>1. Finished' = Finished
  BY DEF Work, Wake, Take, Sleep, Insert, Complete, FailWrite, Exit, middleware, Finished
<1>2. /\ Len(queue') \in Nat /\ suppressed' \in Nat /\ failures' \in Nat
      /\ IsFiniteSet(Finished')
  BY <1>1 DEF Typed, TypeOK, Balanced
<1>3. CASE Wake \/ Sleep \/ Exit
  <2>1. UNCHANGED <<queue, writing, suppressed, failures, rows, logged>>
    BY <1>3 DEF Wake, Sleep, Exit, metrics, durable
  <2>2. Stored' = Stored
    BY <1>1, <2>1 DEF Stored
  <2> QED
    BY <1>1, <1>2, <2>1, <2>2, Balance, StaysBalanced
<1>4. CASE Take
  <2>1. /\ writing = Null /\ writing' = queue[1] /\ queue # <<>>
        /\ UNCHANGED <<suppressed, failures, rows, logged>>
    BY <1>4 DEF Take, metrics, durable, Typed, WorkerHolds, Busy
  <2>2. /\ Len(queue) \in Nat \ {0} /\ Len(queue') = Len(queue) - 1
        /\ queue[1] \in Requests
    BY <1>4, <2>1 DEF Take, Typed, TypeOK
  <2>3. writing' # Null /\ writing' \notin rows /\ Null \notin rows
    BY <2>1, <2>2, AuditAssumption DEF Placed, QueueIsNew, Typed, TypeOK
  <2>4. Stored' = Stored
    BY <1>1, <2>1, <2>3 DEF Stored
  <2> QED
    BY <1>1, <1>2, <2>1, <2>2, <2>3, <2>4, Balance, StaysBalanced
<1>5. CASE Insert
  <2>1. /\ UNCHANGED <<queue, writing, suppressed, failures, logged>>
        /\ rows' \subseteq rows \union {writing} /\ rows \subseteq rows'
    BY <1>5 DEF Insert, metrics
  <2>2. Stored' = Stored
    BY <1>1, <2>1 DEF Stored
  <2> QED
    BY <1>1, <1>2, <2>1, <2>2, Balance, StaysBalanced
<1>6. CASE Complete
  <2>1. /\ writing \in Requests /\ writing # Null /\ writing' = Null
        /\ UNCHANGED <<queue, failures, rows, logged>>
        /\ worker \in {"inserted", "duplicate"}
        /\ suppressed' = IF worker = "duplicate" THEN suppressed + 1 ELSE suppressed
    BY <1>6 DEF Complete, durable, Typed, TypeOK, WorkerHolds, Busy
  <2>2. /\ writing \in Finished /\ writing \notin logged /\ Null \notin rows
        /\ writing \in rows <=> worker = "inserted"
    BY <2>1, AuditAssumption DEF Placed, WritingIsNew, Finished, Typed, TypeOK
  <2>3. CASE worker = "duplicate"
    <3>1. Stored' = Stored
      BY <1>1, <2>1, <2>2, <2>3 DEF Stored
    <3> QED
      BY <1>1, <1>2, <2>1, <2>3, <3>1, Balance, StaysBalanced
  <2>4. CASE worker = "inserted"
    <3>1. Stored' = Stored \union {writing} /\ writing \notin Stored
      BY <1>1, <2>1, <2>2, <2>4 DEF Stored
    <3>2. Cardinality(Stored') = Cardinality(Stored) + 1
      BY <3>1, FS_AddElement, Balance
    <3> QED
      BY <1>1, <1>2, <2>1, <2>4, <3>2, Balance, StaysBalanced
  <2> QED
    BY <2>1, <2>3, <2>4
<1>7. CASE FailWrite
  <2>1. /\ writing \in Requests /\ writing # Null /\ writing' = Null
        /\ UNCHANGED <<queue, suppressed, rows>>
        /\ logged' = logged \union {writing} /\ failures' = failures + 1
    BY <1>7 DEF FailWrite, Typed, TypeOK, WorkerHolds, Busy
  <2>2. Null \notin rows
    BY AuditAssumption DEF Typed, TypeOK
  <2>3. Stored' = Stored
    BY <1>1, <2>1, <2>2 DEF Stored
  <2> QED
    BY <1>1, <1>2, <2>1, <2>3, Balance, StaysBalanced
<1> QED
  BY <1>3, <1>4, <1>5, <1>6, <1>7 DEF Work

LEMMA BalancedNext ==
  ASSUME Typed, Placed, Balanced, [Next]_vars
  PROVE  Balanced'
<1>0. Typed'
  BY TypedNext
<1>1. ASSUME UNCHANGED <<queue, writing, suppressed, failures, rows, logged>>,
             Finished' = Finished
      PROVE  Balanced'
  <2>1. Stored' = Stored
    BY <1>1 DEF Stored
  <2> QED
    BY <1>0, <1>1, <2>1, Balance, StaysBalanced DEF Balanced
<1>2. ASSUME NEW r \in Requests, NEW limited \in BOOLEAN, NEW source \in Sources,
             Deny(r, limited, source)
      PROVE  Balanced'
  <2>1. Finished' = Finished
    BY <1>2 DEF Deny, Finished, Typed, TypeOK
  <2> QED
    BY <1>1, <1>2, <2>1 DEF Deny, metrics, durable
<1>3. CASE Stop \/ Tick \/ UNCHANGED vars
  BY <1>1, <1>3 DEF Stop, Tick, vars, middleware, metrics, durable, Finished
<1>4. CASE Restart
  <2>1. Finished' = {}
    BY <1>4 DEF Restart, Finished
  <2>2. Stored' = {}
    BY <2>1 DEF Stored
  <2>3. Len(queue') = 0 /\ suppressed' = 0 /\ failures' = 0 /\ writing' = Null
    BY <1>4 DEF Restart
  <2> QED
    BY <1>0, <2>1, <2>2, <2>3, FS_EmptySet, StaysBalanced
<1> QED
  BY <1>0, <1>2, <1>3, <1>4, AnswerBalances, WorkBalances DEF Next

(***************************************************************************)
(* The metrics tell the truth for every instance: each denial of this life *)
(* of the process is in the channel, at the worker, in the table, or in    *)
(* exactly one of security_audit_suppressed_total and                      *)
(* audit_write_failures_total, also when a write that timed out has left   *)
(* its row.                                                                *)
(***************************************************************************)
THEOREM DenialsAreCounted == Spec => []EveryDenialIsCounted
<1>1. Init => Balanced
  <2> SUFFICES ASSUME Init PROVE Balanced
    OBVIOUS
  <2>2. Finished = {} /\ Stored = {} /\ AtWorker = {}
    BY DEF Init, Finished, Stored, AtWorker
  <2>3. Len(queue) = 0 /\ suppressed = 0 /\ failures = 0
    BY DEF Init
  <2> QED
    BY <2>2, <2>3, FS_EmptySet DEF Balanced, EveryDenialIsCounted, Stored, AtWorker
<1>2. Typed /\ Placed /\ Balanced /\ [Next]_vars => Typed' /\ Placed' /\ Balanced'
  BY TypedNext, PlacedNext, BalancedNext
<1>3. Balanced => EveryDenialIsCounted
  BY DEF Balanced
<1> QED
  BY <1>1, <1>2, <1>3, TypedInit, PlacedInit, PTL DEF Spec
=============================================================================
