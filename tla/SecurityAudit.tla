----------------------------- MODULE SecurityAudit -----------------------------
(***************************************************************************)
(* The record of refused requests (PlatformSecurityAudit.cs): after the    *)
(* response is decided the middleware builds an envelope and offers it,    *)
(* without waiting, to a bounded channel; one background worker takes the  *)
(* envelopes and inserts them into platform_security_events.  Of the       *)
(* requests that the rate limiter refuses, only the first one of a window  *)
(* (partition, action, UTC minute) is meant to be stored; an in-memory     *)
(* dictionary of windows suppresses the others, and a partial unique index *)
(* catches what the dictionary misses.                                     *)
(*                                                                         *)
(* A source stands for a partition hash and a normalized action.  The      *)
(* other reason codes are one: a denial is rate limited or it is not.  The *)
(* process may be stopped, or die, and be started again: the dictionary,   *)
(* the channel and the counters are lost, the rows and the log are not.    *)
(***************************************************************************)
EXTENDS Integers, Sequences, FiniteSets

CONSTANTS
  Requests,          \* requests that the application refuses
  Sources,           \* (partition hash, normalized action) pairs
  Instants,          \* readings of the clock
  Minute,            \* length of a window
  QueueCapacity,     \* Audit:QueueCapacity
  WindowsBeforeTrim, \* 4096: the dictionary is trimmed from this size on
  MaxRestarts,       \* bound: how often the process is started again
  Null               \* no envelope

ASSUME AuditAssumption ==
  /\ Instants \subseteq Nat
  /\ Minute \in Nat \ {0}
  /\ QueueCapacity \in Nat \ {0}
  /\ WindowsBeforeTrim \in Nat
  /\ MaxRestarts \in Nat
  /\ Null \notin Requests

VARIABLES
  pc,         \* where the middleware is with a request
  denial,     \* the envelope of a request
  windows,    \* rateLimitWindows: [key, at] entries
  unseen,     \* the expired entries that a request's trim is to meet
  met,        \* the key that a request's trim is about to remove
  queue,      \* the channel
  worker,     \* where the worker's loop is
  writing,    \* the envelope at the worker, or Null
  suppressed, \* security_audit_suppressed_total
  failures,   \* audit_write_failures_total
  stopping,   \* the worker's stoppingToken has been cancelled
  restarts,   \* how often the process was started again
  rows,       \* platform_security_events: the requests that have a row
  logged,     \* requests with a fallback log line
  clock

middleware == <<pc, denial>>
trims == <<unseen, met>>
metrics == <<suppressed, failures>>
life == <<stopping, restarts>>
durable == <<rows, logged>>
vars == <<middleware, windows, trims, queue, worker, writing, metrics, life, durable, clock>>

\* "gone" is a request of an earlier life of the process.
Steps == {"idle", "marking", "trimming", "scanning", "removing",
          "writing", "queued", "suppressed", "dropped", "gone"}
Finished == {r \in Requests : pc[r] \in {"queued", "suppressed", "dropped"}}

Denial == [limited : BOOLEAN, source : Sources, at : Instants]
NoDenial == [limited |-> FALSE, source |-> Null, at |-> 0]

\* suppressionKey, and the columns of uq_platform_rate_limit_window.
Key(r) == <<denial[r].source, denial[r].at \div Minute>>
SameWindow(r, s) == denial[r].limited /\ denial[s].limited /\ Key(r) = Key(s)

Init ==
  /\ windows = {}
  /\ unseen = [r \in Requests |-> {}]
  /\ met = [r \in Requests |-> Null]
  /\ queue = <<>>
  /\ worker = "waiting"
  /\ writing = Null
  /\ suppressed = 0
  /\ failures = 0
  /\ stopping = FALSE
  /\ pc = [r \in Requests |-> "idle"]
  /\ denial = [r \in Requests |-> NoDenial]
  /\ restarts = 0
  /\ rows = {}
  /\ logged = {}
  /\ clock \in Instants
-----------------------------------------------------------------------------
(***************************************************************************)
(* SecurityAuditMiddleware and SecurityAuditQueue.TryEnqueue.  Requests    *)
(* run concurrently: every use of the dictionary and of the channel is a   *)
(* step of its own.                                                        *)
(***************************************************************************)
Deny(r, limited, source) ==
  /\ pc[r] = "idle"
  /\ denial' = [denial EXCEPT ![r] = [limited |-> limited, source |-> source, at |-> clock]]
  /\ pc' = [pc EXCEPT ![r] = IF limited THEN "marking" ELSE "writing"]
  /\ UNCHANGED <<windows, trims, queue, worker, writing, metrics, life, durable, clock>>

Marked(r) == \E w \in windows : w.key = Key(r)

MarkWindow(r) ==
  /\ pc[r] = "marking"
  /\ ~Marked(r)
  /\ windows' = windows \union {[key |-> Key(r), at |-> denial[r].at]}
  /\ pc' = [pc EXCEPT ![r] = "trimming"]
  /\ UNCHANGED <<denial, trims, queue, worker, writing, metrics, life, durable, clock>>

Suppress(r) ==
  /\ pc[r] = "marking"
  /\ Marked(r)
  /\ suppressed' = suppressed + 1
  /\ pc' = [pc EXCEPT ![r] = "suppressed"]
  /\ UNCHANGED <<denial, windows, trims, queue, worker, writing, failures, life, durable, clock>>

\* Mutated form: the threshold is the instant of the denial itself.
KeptSince(w, at) == w.at >= at

Kept(w, at) == w.at >= at - 2 * Minute
Expired(r) == {w \in windows : ~Kept(w, denial[r].at)}

(***************************************************************************)
(* TrimExpiredWindows enumerates the dictionary while other requests add   *)
(* to it and trim it, and removes an expired entry by its key, whatever    *)
(* the key holds by then.  Entries that come during the enumeration may be *)
(* met or not; one that went may be met if it was there at the beginning.  *)
(***************************************************************************)
TrimExpiredWindows(r) ==
  /\ pc[r] = "trimming"
  /\ IF Cardinality(windows) < WindowsBeforeTrim
     THEN /\ pc' = [pc EXCEPT ![r] = "writing"]
          /\ UNCHANGED unseen
     ELSE /\ pc' = [pc EXCEPT ![r] = "scanning"]
          /\ unseen' = [unseen EXCEPT ![r] = Expired(r)]
  /\ UNCHANGED <<denial, windows, met, queue, worker, writing, metrics, life, durable, clock>>

MeetExpired(r) ==
  /\ pc[r] = "scanning"
  /\ \E w \in unseen[r] \union Expired(r) :
       /\ met' = [met EXCEPT ![r] = w.key]
       /\ unseen' = [unseen EXCEPT ![r] = @ \ {w}]
  /\ pc' = [pc EXCEPT ![r] = "removing"]
  /\ UNCHANGED <<denial, windows, queue, worker, writing, metrics, life, durable, clock>>

TryRemove(r) ==
  /\ pc[r] = "removing"
  /\ windows' = {w \in windows : w.key # met[r]}
  /\ met' = [met EXCEPT ![r] = Null]
  /\ pc' = [pc EXCEPT ![r] = "scanning"]
  /\ UNCHANGED <<denial, unseen, queue, worker, writing, metrics, life, durable, clock>>

EndTrim(r) ==
  /\ pc[r] = "scanning"
  /\ unseen[r] \intersect windows = {}
  /\ unseen' = [unseen EXCEPT ![r] = {}]
  /\ pc' = [pc EXCEPT ![r] = "writing"]
  /\ UNCHANGED <<denial, windows, met, queue, worker, writing, metrics, life, durable, clock>>

Enqueue(r) ==
  /\ pc[r] = "writing"
  /\ Len(queue) < QueueCapacity
  /\ queue' = Append(queue, r)
  /\ pc' = [pc EXCEPT ![r] = "queued"]
  /\ UNCHANGED <<denial, windows, trims, worker, writing, metrics, life, durable, clock>>

Drop(r) ==
  /\ pc[r] = "writing"
  /\ Len(queue) >= QueueCapacity
  /\ failures' = failures + 1
  /\ pc' = [pc EXCEPT ![r] = "dropped"]
  /\ UNCHANGED <<denial, windows, trims, queue, worker, writing, suppressed, life, durable, clock>>
-----------------------------------------------------------------------------
(***************************************************************************)
(* SecurityAuditWorker.ExecuteAsync.  ReadAllAsync waits for an envelope   *)
(* ("waiting") and then hands out envelopes until the channel is empty     *)
(* ("reading"); the stopping token ends the wait, never the inner loop, so *)
(* that a stop lets the remaining writes fail and be logged.               *)
(***************************************************************************)
Wake ==
  /\ worker = "waiting"
  /\ queue # <<>>
  /\ worker' = "reading"
  /\ UNCHANGED <<middleware, windows, trims, queue, writing, metrics, life, durable, clock>>

Take ==
  /\ worker = "reading"
  /\ queue # <<>>
  /\ writing' = Head(queue)
  /\ queue' = Tail(queue)
  /\ worker' = "writing"
  /\ UNCHANGED <<middleware, windows, trims, metrics, life, durable, clock>>

Sleep ==
  /\ worker = "reading"
  /\ queue = <<>>
  /\ worker' = "waiting"
  /\ UNCHANGED <<middleware, windows, trims, queue, writing, metrics, life, durable, clock>>

\* Mutated form: INSERT without ON CONFLICT and without the unique index.
NeverConflicts(r) == FALSE

Conflicts(r) == \E s \in rows : SameWindow(r, s)

\* IAuditSink.WriteAsync: the INSERT takes effect, the worker does not know yet.
Insert ==
  /\ worker = "writing"
  /\ \/ /\ Conflicts(writing)
        /\ worker' = "duplicate"
        /\ UNCHANGED rows
     \/ /\ ~Conflicts(writing)
        /\ worker' = "inserted"
        /\ rows' = rows \union {writing}
  /\ UNCHANGED <<middleware, windows, trims, queue, writing, metrics, life, logged, clock>>

\* Mutated form: a duplicate is not counted.
CompleteUncounted ==
  /\ worker \in {"inserted", "duplicate"}
  /\ worker' = "reading"
  /\ writing' = Null
  /\ UNCHANGED <<middleware, windows, trims, queue, metrics, life, durable, clock>>

Complete ==
  /\ worker \in {"inserted", "duplicate"}
  /\ suppressed' = IF worker = "duplicate" THEN suppressed + 1 ELSE suppressed
  /\ worker' = "reading"
  /\ writing' = Null
  /\ UNCHANGED <<middleware, windows, trims, queue, failures, life, durable, clock>>

\* Mutated form: a write that fails is tried again.
TryAgain ==
  /\ worker \in {"writing", "inserted", "duplicate"}
  /\ worker' = "writing"
  /\ UNCHANGED <<middleware, windows, trims, queue, writing, metrics, life, durable, clock>>

\* The write times out, fails, or is cancelled; its row may be there or not.
FailWrite ==
  /\ worker \in {"writing", "inserted", "duplicate"}
  /\ failures' = failures + 1
  /\ logged' = logged \union {writing}
  /\ worker' = "reading"
  /\ writing' = Null
  /\ UNCHANGED <<middleware, windows, trims, queue, suppressed, life, rows, clock>>

Exit ==
  /\ worker = "waiting"
  /\ stopping
  /\ worker' = "exited"
  /\ UNCHANGED <<middleware, windows, trims, queue, writing, metrics, life, durable, clock>>
-----------------------------------------------------------------------------
Stop ==
  /\ ~stopping
  /\ stopping' = TRUE
  /\ UNCHANGED <<middleware, windows, trims, queue, worker, writing, metrics, restarts, durable, clock>>

\* The process ends, after a stop or by a crash, and is started again.
Restart ==
  /\ restarts < MaxRestarts
  /\ restarts' = restarts + 1
  /\ windows' = {}
  /\ unseen' = [r \in Requests |-> {}]
  /\ met' = [r \in Requests |-> Null]
  /\ queue' = <<>>
  /\ worker' = "waiting"
  /\ writing' = Null
  /\ suppressed' = 0
  /\ failures' = 0
  /\ stopping' = FALSE
  /\ pc' = [r \in Requests |-> IF pc[r] = "idle" THEN "idle" ELSE "gone"]
  /\ UNCHANGED <<denial, durable, clock>>

Tick ==
  /\ \E later \in Instants : later > clock /\ clock' = later
  /\ UNCHANGED <<middleware, windows, trims, queue, worker, writing, metrics, life, durable>>
-----------------------------------------------------------------------------
Answer(r) ==
  \/ MarkWindow(r)
  \/ Suppress(r)
  \/ TrimExpiredWindows(r)
  \/ MeetExpired(r)
  \/ TryRemove(r)
  \/ EndTrim(r)
  \/ Enqueue(r)
  \/ Drop(r)

Work == Wake \/ Take \/ Sleep \/ Insert \/ Complete \/ FailWrite \/ Exit

Next ==
  \/ \E r \in Requests :
       \/ \E limited \in BOOLEAN, source \in Sources : Deny(r, limited, source)
       \/ Answer(r)
  \/ Work
  \/ Stop
  \/ Restart
  \/ Tick

Spec == Init /\ [][Next]_vars

(***************************************************************************)
(* The host keeps scheduling the worker, and every write ends: CancelAfter *)
(* makes it fail if nothing else does.  Nothing is assumed of the requests *)
(* or of the process's restarts.                                           *)
(***************************************************************************)
FairSpec == Spec /\ WF_vars(Work)
-----------------------------------------------------------------------------
(***************************************************************************)
(* Every variable keeps its type, and the bounded channel its bound.       *)
(***************************************************************************)
TypeOK ==
  /\ pc \in [Requests -> Steps]
  /\ denial \in [Requests -> Denial \union {NoDenial}]
  /\ windows \subseteq [key : Sources \X Nat, at : Instants]
  /\ unseen \in [Requests -> SUBSET [key : Sources \X Nat, at : Instants]]
  /\ met \in [Requests -> (Sources \X Nat) \union {Null}]
  /\ queue \in Seq(Requests)
  /\ Len(queue) <= QueueCapacity
  /\ worker \in {"waiting", "reading", "writing", "inserted", "duplicate", "exited"}
  /\ writing \in Requests \union {Null}
  /\ suppressed \in Nat
  /\ failures \in Nat
  /\ stopping \in BOOLEAN
  /\ restarts \in 0 .. MaxRestarts
  /\ rows \subseteq Requests
  /\ logged \subseteq Requests
  /\ clock \in Instants

(***************************************************************************)
(* ADR-0010 D2: a window has at most one row, whatever races, delays,      *)
(* trims and restarts the process goes through.                            *)
(***************************************************************************)
OneRowPerWindow ==
  \A r, s \in rows : SameWindow(r, s) => r = s

(***************************************************************************)
(* Within one life of the process the dictionary lets one denial of a      *)
(* window pass; another one passes only when its window has been over for  *)
(* more than a minute, so that it waited that long between its denial and  *)
(* its look at the dictionary: trims make a window forget its first denial *)
(* no earlier, also when several overlap and remove what others put there. *)
(***************************************************************************)
InTrim == {"trimming", "scanning", "removing"}
Passed(r) == pc[r] \in InTrim \union {"writing", "queued", "dropped"}
LongOver(key) == clock > (key[2] + 2) * Minute

OnePassPerWindow ==
  \A r, s \in Requests :
    /\ Passed(r) /\ Passed(s)
    /\ SameWindow(r, s)
    /\ r # s
    => LongOver(Key(r))

(***************************************************************************)
(* Every denial of this life of the process is accounted for exactly once: *)
(* it waits in the channel, is at the worker, has a row, or is counted by  *)
(* one of the two metrics.  (A write that failed for the worker may have   *)
(* left its row: it is counted as a failure.)                              *)
(***************************************************************************)
EveryDenialIsCounted ==
  Cardinality(Finished) =
    Len(queue) + Cardinality({writing} \ {Null}) + suppressed + failures
      + Cardinality((rows \intersect Finished) \ (logged \union {writing}))

(***************************************************************************)
(* No envelope stays in the channel: unless the process is stopped, the    *)
(* worker gets to every one of the finitely many and is done with it, so   *)
(* that the channel is empty again, however many writes fail or time out.  *)
(***************************************************************************)
EveryEnvelopeIsHandled ==
  []<>(stopping \/ (queue = <<>> /\ writing = Null))

(***************************************************************************)
(* What ADR-0010 D2 decides: of a window the first denial is stored, and   *)
(* to lose it is the rejected alternative.  A suppressed denial therefore  *)
(* has another of its window that is on its way, stored or at least logged.*)
(***************************************************************************)
InChannel(r) == \E i \in DOMAIN queue : queue[i] = r
OnItsWay(s) == pc[s] \in InTrim \union {"writing"} \/ InChannel(s) \/ writing = s

WindowKeepsItsFirst ==
  \A r \in Requests :
    pc[r] = "suppressed" =>
      \E s \in Requests :
        /\ SameWindow(r, s)
        /\ OnItsWay(s) \/ s \in rows \/ s \in logged
=============================================================================
