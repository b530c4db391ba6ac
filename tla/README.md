# Toi no Mori: TLA+ models, checks and proofs

This directory holds the formal specification of Toi no Mori (問いの森). The
repository has two halves, and both are modelled:

- the **service**: editors write questions, reviewers approve them, anonymous readers
  see what was approved, for many tenants over one PostgreSQL database;
- the **operations** around it: the workflows in which AI workers manufacture and
  review changes under the control of human organizers, the CI gates that turn a run
  into evidence, and the disaster recovery of the database.

The modules are translated from the code under `src/`, `scripts/` and
`.github/workflows/`. TLC checks them on small instances; TLAPS proves the results
for every value of the constants: every safety property of a passing run is a theorem.

## 1. Inventory

| Component | State it keeps | Operations | Talks to |
|---|---|---|---|
| Question aggregate (`ToiNoMori.Domain/Question.cs`) | one question: status, version, owner, content, approval, reasons | create, update, submit, return, approve, withdraw | loaded and saved by a store |
| PostgreSQL store (`Persistence/PostgreSqlQuestionStore.cs`, `Migrations/`) | tables `questions`, `question_revisions`, `audit_events`, `idempotency_records` | the six commands, public and administrative reads | PostgreSQL, one transaction per request |
| In-memory store (`InMemoryQuestionStore.cs`) | dictionaries under one lock | the same | nothing |
| HTTP endpoints (`ApiEndpointMappings.cs`, `Contracts.cs`) | none | validation, If-Match, Idempotency-Key, status codes | the store, once per request |
| Platform security audit (`PlatformSecurityAudit.cs`, `PostgreSqlPlatformSecurityAudit.cs`) | window dictionary, bounded channel, metrics; table `platform_security_events` | record a refused request, suppress, write, fail | every response, the database, the log |
| Authentication, tenant and CSRF filters | none beyond a cookie | accept or refuse a request | the endpoints |
| Host and schema (`AppHost.cs`, `PostgreSqlMigrator.cs`) | `schema_migrations`, grants | apply migrations, validate roles | PostgreSQL at start-up |
| Browser application (`wwwroot/app/app.js`) | lists, the open draft, its ETag | search, save, submit, review, withdraw | the endpoints |
| AI controller (`scripts/ai_controller/core.py`, `scripts/qf-ai-controller.py`) | none: every command reads documents and prints a decision | preflight, work-order, route, manufacture-output, review-gate, loop, disposition-record, appointment | the workflows call it, its exit status ends their jobs |
| Manufacture workflows (`qf-work-order-contract.yml`, `qf-codex-manufacture.yml`) | work orders on main, one concurrency group, branches, Draft pull requests | contract run, request, manufacture, publish | GitHub, the manufacturer (an AI), the controller |
| Review workflows (`qf-ci-gate-router.yml`, `qf-review-request.yml`, `qf-claude-technical-review.yml`, `qf-review-gate.yml`, `qf-ai-loop-controller.yml`, `qf-review-result-publish.yml`) | labels, evidence branches, review records on main | route, ask, review, gate, label, publish | GitHub, the reviewer (an AI), the controller |
| Findings and dispositions (`core.py`, `docs/governance/REVIEW-PROTOCOL.md`) | reviews, fix candidates, iterations, disposition records | correct, reverify, record, supersede | organizers, the controller |
| Role appointment (`qf-role-appointment-signature.yml`) | a required check per head | evaluate | the pull request, its reviews, a permission |
| CI gates (`scripts/ci/run-stage6r*.sh`, `write-stage6r*-evidence.py`) | a log, an evidence file, an exit status | run builds and suites, parse, write | the job |
| Backups (`scripts/dr/create-encrypted-backup.sh`, `upload-and-await-crr.sh`, `restore-encrypted-backup.sh`) | the dump, its manifest, two buckets, the restored database | back up, upload, await, restore | PostgreSQL, S3 replication |
| Failover drill (`scripts/test-disaster-recovery.sh`, `scripts/dr/seal-failover-evidence.py`) | a timeline, two databases, an evidence directory | declare, isolate, restore, accept, switch, seal, publish | the clock, both databases |

What is hard, and what makes each part correct:

- **Store.** Requests run concurrently in READ COMMITTED transactions. An approval
  reads its idempotency record, waits for a row, and writes four tables; the caller
  may lose the answer and try again; the clock is read before the waits. It is
  correct when every command takes effect at most once and atomically, on the row
  as it is; when audit and revisions agree with it; when what is public was
  reviewed in that very version; when a retried approval gets its first answer.
- **In-memory store.** One lock, but operations that change several collections and
  undo nothing. It is correct when it answers as the PostgreSQL store would.
- **Security audit.** Concurrent requests share a dictionary and a bounded channel
  that one worker drains, with a write timeout and restarts. It is correct when a
  window has at most one row, when no denial goes uncounted, and when the worker
  never stops.
- **Manufacture.** Contract runs are concurrent and end in any order; one group keeps
  one running and one pending run. While a run waits, main moves and orders expire or
  are replaced. It is correct when nothing outside an order's scope is published, and
  when what starts was checked against a main that no earlier start has left behind.
- **Review.** Every check that completes starts a chain of six workflows; chains
  overlap, jobs fail, the branch and main move, and the reviewer may answer anything.
  It is correct when acceptance follows only from a clean review of that head, and
  when records obey the gate.
- **Findings.** What was found must not get lost or be called fixed without a fix,
  and automatic corrections must end.
- **Role appointment.** Four reads through an API, one after the other, while people
  push, review and dismiss. A green check must mean a signed record.
- **CI gates.** Two channels, an exit status and a log, and neither is complete.
  Accepted evidence must mean that everything ran and passed.
- **Disaster recovery.** Replication is late or fails, restores fail half way, clocks
  are set, and a drill that failed may leave its databases running. A reported backup
  must be whole or refused, a database and the one restored from it must never both
  take writes, and published evidence must tell one order of events.

## 2. Modules

| Module | What it is |
|---|---|
| `QuestionDomain` | the aggregate: rules in the order of the code and next versions, pure operators |
| `QuestionAnswers` | what both stores share: questions, stored answers, audit rows, replies |
| `QuestionContract` | abstract specification of `IQuestionStore`: what a caller is told is one atomic step |
| `QuestionTables` | the PostgreSQL tables and the writes of one transaction |
| `QuestionLedger` | abstract specification: each request is at most one atomic step on the tables |
| `PgQuestionStore` | detailed specification: every request is a process that runs one transaction |
| `InMemoryQuestionStore` | detailed specification: every operation is one step under the lock |
| `SecurityAudit` | middleware, suppression, channel, worker, sink, restarts |
| `ControllerDecisions`, `ReviewGate`, `ControllerCli` | the decisions of `core.py`, the twenty checks of the review gate, and the commands with their exit status |
| `Manufacture` | pushes, contract runs, the concurrency group, the jobs of a manufacture run |
| `ReviewPipeline` | chains of workflow runs over heads of one pull request |
| `FindingLifecycle` | reviews, corrections, reverifications and disposition records of one work order |
| `RoleAppointment` | the evaluation of the required check against a changing pull request |
| `CiEvidence`, `CiGate` | the parser and acceptance rules of the eight evidence writers; the gate scripts that feed them |
| `DrBackup` | backup, upload with replication, restore |
| `FailoverDrill` | the drill, the seal, the publication of its evidence |
| `MC...` | commands and values of the constants for TLC |
| `QuestionDomainProofs`, `PgQuestionStoreProofs`, `InMemoryQuestionStoreProofs`, `SecurityAuditProofs` | proofs about the service (section 4) |
| `ReviewProofs`, `RoleAppointmentProofs`, `DeliveryProofs`, `DisasterRecoveryProofs` | proofs about the operations: chains and findings; appointment; CI gates and manufacture; backups and drill |

The domain is shared by both stores, the contract is implemented by both, and the
controller's operators are shared by the five modules of its workflows. `ReviewProofs`,
`DeliveryProofs` and `DisasterRecoveryProofs` each extend two components that have no
state in common; the initial predicates and next-state relations of one of the two have
names of their own for that (`LifecycleNext`, `GateNext`, `DrillNext`).

### The store

`PgQuestionStore` cuts a transaction where another one can get in between:

```
create                    idle -> insert ------------------------------------> done
update, submit, return,
withdraw                  idle -> load -> decide ----------------------------> done
approve                   idle -> lockKey -> lookup -> load -> decide -------> done
                                                \-> replay, or reused key --> done
```

| Action | Code |
|---|---|
| `Receive` | the clock is read and the transaction begins (`MutateAsync`, `ApproveAsync`, `CreateAsync`) |
| `LockKey` | `pg_advisory_xact_lock` on tenant and key |
| `ReplayAnswer`, `RefuseReusedKey`, `MissKey` | `DeleteExpiredIdempotencyAsync`, `ReadIdempotencyAsync` and the branches on their result |
| `LockRow`, `MissRow` | `SELECT ... FOR UPDATE` in `LoadRequiredAsync` |
| `CommitChange`, `CommitRefusal`, `InsertQuestion` | the aggregate's decision, all writes, COMMIT |
| `LoseConnection` | any failure before COMMIT: rollback and 503 |
| a commit with `answered = FALSE` | COMMIT took effect, the caller is told 503 |

The writes of a transaction are invisible until COMMIT, so they are part of its
commit step. A retry is another request with the same command. PostgreSQL itself is
modelled by what the code relies on: row and advisory locks last until the end of
the transaction; `FOR UPDATE` returns the newest committed row after its wait, and
nothing, at once, when there is no row. A new Guid is one that no request named
before. Two different keys are assumed not to share a hash, which could only make
two approvals wait for each other.

Abstractions: title, body and tags are one value; a reason is present or blank; the
revision's Guid is its question and version; `request` in a revision or an audit
entry is a history field. The tables start empty (data that migration 002 carried
over from earlier schemas is not modelled). The two unique constraints are guards
of `CommitChange`; the invariants show that they are never what stops it.

The ledger and the contract are two views of the same atomicity. The ledger is about
the tables: every commit is one step that writes question, revision, audit and key
together. The contract is about the callers: it knows no audit, ties each reply to
the command that was asked, and is what the in-memory store promises as well.

### The in-memory store

The lock makes every operation one step; `Change` is the body that update, submit,
return and withdraw share, `Approve` has its own. What remains hard is that nothing
is undone: `Approve` changes the aggregate in place, then calls `Dictionary.Add`,
which throws on a taken key, then audits. The model keeps that branch (`Unavailable`,
question changed, no audit row); the invariant and the theorem show it is never
taken, because the expired entry is removed first (`Purged`). The audit differs from
PostgreSQL's: refusals of return and withdraw, and of missing questions, leave no
row. The clock may move on between the two readings of one operation (`ReadAgain`).

### The security audit

Each use of the shared dictionary and of the channel is a step of its own
(`MarkWindow` or `Suppress`, the trim, `Enqueue` or `Drop`). A trim is many steps:
`TrimExpiredWindows` looks at the count and begins the enumeration, `MeetExpired`
meets one entry whose instant is too old, `TryRemove` removes whatever is under that
key by then, and `EndTrim` ends when no entry is left that was there from the
beginning. Two trims may so overlap that one removes an entry that was put there after
the other had removed the one it met. The window of such an entry has been over for
more than a minute, and that is what `OnePassPerWindow` states: a second denial of a
window passes only if it waited that long between its denial and its look at the
dictionary. The worker
follows `ReadAllAsync`: it waits, then hands out envelopes until the channel is
empty; a stop ends the wait but not the inner loop. `Insert` takes effect before
the worker knows (`Complete`), and `FailWrite`, which is the timeout, a database
failure or the cancellation, may come before or after it. `Restart` loses the
dictionary, the channel and the metrics; rows and log lines stay. Reason codes other
than `access.rate_limited` behave alike and are one.

### The controller and its workflows

`core.py` has no state: each command validates documents against each other and
against facts that the workflow looked up, and yields a decision with named checks.
`ControllerDecisions` and `ReviewGate` keep every check as a conjunct; a document is
the record of the fields a decision reads, a commit a number, the hash of a document
the document itself. What the JSON Schema subset in `core.py` examines beyond these
fields is one Boolean. `ControllerCli` adds what `set -e` makes of it: a command that
exits with 1 ends its job.

`Manufacture` and `ReviewPipeline` are the jobs around these commands. A workflow
run is a record with the stage it is at and what it carried along; a job that fails,
times out or is killed ends its run at that stage (`RunFails`, `JobFails`). What
the two AIs do is any element of a small set of patches, reports and reviews, empty
and contradictory ones included.

A manufacture run looks at main and at the clock once and starts its manufacturer
several steps later: `ResolveTip` notes the tip, `ValidateIdentity` or `RefuseIdentity`
decides by it, and `StartManufacturer` comes after checkout, canary and prompt. Main may
move and the order expire in between.

GitHub is modelled by its rules. `workflow_run` starts one run per completion, up to
`MaxLevels` levels deep: the router's is the first, then request, review, gate, and loop
controller or publisher. A concurrency group keeps one running and one pending run and
drops the one that was pending when another arrives. A new event of a pull request puts
its required check back to queued at once.

`FindingLifecycle` drives `review-gate`,
`loop` and `disposition-record` over several heads and phases; for the later phases
and for the records there is no workflow yet, so that the caller is modelled by
what the commands demand of it. `RoleAppointment` splits one evaluation at its four
API reads.

### The CI gates

`CiEvidence` has the parser (`parse_suites` as a fold over the lines) and the
acceptance rule of each of the writers; `CiGate` has the runner, in which every
step may be good, fail, warn, miss tests or die without its result line, and the
log may lose the rest of its lines. The writer sees the exit status and the log
only. Contract checks that read sources and documents are one step.

### Disaster recovery

`DrBackup`: the database commits while the dump runs; the manifest's time is noted
before the dump (a count of commits takes its place); an upload polls replication a
bounded number of times; the copy may be damaged, late or never come; a restore
goes table by table and may fail between two, in a database that the next restore
may use. An upload cannot tell a damaged copy from a good one; a restore refuses it
before it touches the database. The other kind of restore, which has no target database
and only validates, writes a report that no model has.

`FailoverDrill`: each step notes the time under a clock that may be set; any command may
fail; the seal validates the timeline; three files are installed one after the other,
so that a drill that fails between two of them leaves a mixture. The ports of the
primary and of the recovery cluster hold the number of the drill whose cluster is open
for writing there, from the start of the cluster on. The cleanup of a drill that fails
may leave a cluster running, and the next drill meets it. That `pg_ctl` has stopped a server when it says so
is taken at its word. Encryption, signatures and the tenants' contents are one check each.

## 3. What TLC checks

| Run | Question | Bounds and distinct states |
|---|---|---|
| `PgLifecycle` | rows, revisions, audit and answers stay consistent over the life of a question; a retried approval takes effect once | 4 requests of 9 commands, 2 at a time, 2 tenants, 2 instants, retention 1, 1 lost answer or connection; 966 k |
| `PgProgress` | no handler waits for ever; the store implements the ledger and the contract | 4 requests, 3 at a time, no failures; 19 k |
| `InMemoryContract` | the in-memory store implements the same contract and audits every version | 6 requests of 10 commands on two questions with one key, 2 instants; 43 k |
| `AuditWindows` | one row per window, one pass while it is not long over, exact accounting, every envelope is handled | 3 denials, instants 1, 3, 4, capacity 1, trim from 2 windows, 1 restart; 2.1 M |
| `AuditFullQueueWindow` | fails: a full channel can silence a whole window | capacity 1, one minute |
| `CiGates` | accepted evidence was green, a green job ran its plan | every stage's real plan, up to 3 faults; 877 k |
| `ManufactureRuns` | what is published is in scope and whole, what starts was checked after its wait | 2 orders in 2 versions, 3 commits, 1 expiry, 3 files; 270 k |
| `ReviewChains` | acceptance is earned, records are gated | 2 chains of 5 levels, 2 heads, 5 kinds of review, 2 tips; 2.02 M |
| `FindingLedger` | fixed means fixed, corrections end, the ledger is linked | 2 findings (P1, P2), 3 heads, Phase C, 2 days; 407 k |
| `Appointments` | green is signed | 2 people, 4 contents, 5 set-ups, 2 heads, 3 events; 276 k |
| `DrillEvidence` | one primary; published evidence is in order | 2 drills, 2 seconds, no loss allowed; 1.42 M |
| `DrBackups` | what is reported is whole or refused, a reported restore is whole; uploads end | 2 tables, 2 commits, 2 backups, 3 uploads; 492 k |

Properties of the store:

- `DecisionIsCurrent`: the row a handler decides on is the committed row.
- `LawfulHistory`, `TablesAgree` (`RowIsNewestRevision`, `AuditMatchesHistory`): the
  revisions are a serial history of accepted commands, the row is its last entry,
  and success rows and revisions correspond one to one.
- `NoLostUpdate`: an edit or approval replaced the version its caller named.
- `PublicIsReviewed`: what is public was in review, with that content, in the
  version that a reviewer other than the owner approved.
- `AnswersAreTrue`: "ok" is durable; a refusal changed nothing and is audited. A
  reused key is the exception: `ApproveAsync` throws before its `try`, so it is not.
- `StoredAnswersAreCommitted`, `ApprovedOnce`, `RetryIsNotRefused`: idempotency of
  approvals. `RetryIsNotRefused` is judged by the clock of the retry's end, since the
  code compares the expiry with a reading from before its waits.
- `TenantIsolation`, `EveryRequestIsAnswered`, `LedgerSpec`, `ContractSpec`, and
  `EveryVersionIsAudited` for the in-memory store (a question of version n has n
  success rows).

Properties of the security audit: `OneRowPerWindow`, `OnePassPerWindow`,
`EveryDenialIsCounted` (an equation, which a timed-out write that left its row does
not break), `EveryEnvelopeIsHandled`.

Properties of the operations:

- `PublishedIsInScope`, `HonestWorkIsWhole`: a published patch is in the scope of its
  order and outside the control plane, and not half of what an honest manufacturer
  reported, although `git diff` leaves created files out.
- `StartsAreCurrent`: a manufacturer starts on what was, when its run looked after its
  wait, the organizer's READY and unexpired order on a main not older than any on which
  another one started before. What happens between that look and the start is not
  excluded, since nobody looks again.
- `AcceptanceIsEarned`, `RecordsAreGated`: about two chains that review one work order
  side by side.
- `VerifiedWasFixed`, `CorrectionsAreBounded`, `LedgerIsLinked`. The run has Phase C, in
  which a correction may follow, with `MaxIterations` 1; the limits of the other phases
  are covered by the theorems only.
- `GreenIsSigned`: at the moment the check turns green, the newest review of the
  nominee approves exactly this head, and the record is the only change.
- `AcceptedMeansGreen`, `PassedIsItsOwn`.
- `GreenJobRanItsPlan`: the exit status 0 of a gate means that every step of its plan ran
  and none failed, although the gate's own status misses the identifier check and the
  evidence misses the suites that the writer does not register.
- `ReportedIsWholeOrRefused`: the copy of a reported backup is in Tokyo and has all that
  was committed before its manifest's time, or it is damaged and nothing of it gets into
  a database. `ReportedRestoreIsWhole`, `UploadEnds`.
- `OnePrimary`: a primary and the database restored from its backup are never both open,
  from the start of the recovery cluster on, and a drill restores into its own cluster.
- `PublishedIsOrdered`: whatever artifact, evidence and summary call accepted tells one
  order of events and a loss within the objective, also in a half-replaced directory.

**Bounds.** Two requests in flight suffice for every conflict on a row or a key,
since locks are pairwise; three in `PgProgress` make a chain of waits, an approval
behind a key whose holder waits for a row. Four requests reach create, submit,
approve and one more that repeats, contests or withdraws the approval. Six requests
of the in-memory store create, submit and approve two questions under one key.
Capacity 1 makes the channel full with the second denial; the instants 1, 3 and 4
put denials before, at and after the two minutes of the trim. Two trims that remove
each other's successors need five denials, which only the theorem covers. Two chains
are every conflict of two reviews; two drills are one that meets the files and the
clusters that another has left; three faults are a failure, another one that
hides it, and a suite in between that the writer does not know.
`MaxFailures`, `MaxInFlight`, `MaxRestarts`, `MaxHead`, `MaxTip`, `MaxMoves`,
`MaxEvents`, `MaxCommits`, `MaxNow`, `MaxDay`, `MaxFaults`, `MaxDrills`, `MaxWaits`,
`MaxBackups`, `MaxUploads` and the finite sets of instants are bounds of the models;
the proofs do not depend on their values. (`MaxIterations` and `MaxRpo` are values of
the code, `MaxWaits` stands for the number of polls, and `MaxLevels` is a value of the
platform: `ReviewChains` gives the workflows the 5 levels that they need.) Deadlock is not checked:
clients may stop sending, a stopped worker stays so, and a finished run is finished.

**Fairness.** `PgProgress`: awaited database calls return (weak fairness), and the
lock queues of PostgreSQL are first in, first out (strong fairness of `LockKey` and
`LockRow`); nothing is assumed of arrivals, failures or the clock. `AuditWindows`:
the worker is scheduled and a write ends, because `CancelAfter` ends it.
`DrBackups`: a call to S3 returns and a sleep ends.

**Mutants.** Every property of a passing run has a mutated form of one definition
("Mutated form" or "Mutant" in the modules) under which TLC finds it violated.

### Disagreements with the documents

With a run:

- ADR-0010 D2 says that the first denial of a window is stored and that losing it was
  rejected; `TryEnqueue` marks the window before it tries the channel, so a full
  channel loses the first denial while the window goes on suppressing the others
  (`AuditFullQueueWindow`).

Met while modelling and visible in the models, without a run of their own. Paths are
short for `docs/governance/automation/QF-OPS-MVS01-001-v0.5.1.md` (QF-OPS) and
`.github/workflows`.

- A full audit channel leaves no log line, it is only counted
  (`PlatformSecurityAudit.cs:265`; `stage6r6-platform-security-audit.md:61` names it
  with the timeout).
- Two contract runs of one identity may both find no branch and both request a
  manufacture (`qf-work-order-contract.yml:58`; QF-OPS 375 to 380 want the check again
  after the wait, and a no-op). A new version of an order whose branch exists is
  a no-op as well, since the branch is looked for by the id alone (line 52).
- The second approval names a commit, while the approval is part of the file that the
  commit contains (`core.py:720`; QF-OPS 349, 396).
- The router compares the work order with itself, as main has it now
  (`qf-ci-gate-router.yml:64`; QF-OPS 724): an order that was replaced since the
  branch was manufactured is not noticed.
- The review workflows need five levels of `workflow_run` (`qf-ci-gate-router.yml`,
  `qf-review-request.yml`, `qf-claude-technical-review.yml`, `qf-review-gate.yml`, then
  `qf-ai-loop-controller.yml` and `qf-review-result-publish.yml`). GitHub documents that
  it chains three at most. With `MaxLevels` = 3 no gate, label or record follows a
  review; what is checked and proved of them holds at every level, then for want of any.
- A head may get two verdict labels, one from each chain
  (`qf-ai-loop-controller.yml:42`; QF-OPS 463 to 470), and a review that is empty or
  fails gets none (`qf-review-gate.yml:33`; QF-OPS 896 wants `qf:stopped`).
- A manufacturer may start on an order that expired or left main after the validation
  (`qf-codex-manufacture.yml:83`; it starts at 113).
- A record may close a finding that no review verified (`core.py:1298`;
  `REVIEW-PROTOCOL.md:46`, QF-OPS 1040).
- A third request for manufacture removes the pending one without a run, since
  `cancel-in-progress: false` protects the running one only (QF-OPS 743).
- A drill that dies between two `install` commands leaves an artifact beside the
  evidence of another one (`test-disaster-recovery.sh:563`;
  `stage6r10-tokyo-ishikari-dr.md:25`), and a failed comparison of the restored data
  does not keep the evidence from being installed, with exit status 1 (line 433).

## 4. What is proved

The theorems hold for every set of requests, commands, questions, tenants, keys and
instants, for every channel capacity, and for every number of chains, heads, orders,
files, faults, people, backups and drills. What they assume of the constants:

- `DomainAssumption`, `AnswersAssumption`, `AuditAssumption`, `StoreAssumption` or
  `CommandsAssumption`: instants are positive naturals, `Null` is none of the values it
  stands in for, commands are commands, capacities are numbers.
- `ReviewAssumption`: there is a required check (`required-checks` is not empty), the
  reviewer's answers are of the kinds that the module defines, and heads and levels are
  counted from 1.
- `GateAssumption`: the stages are those that have a writer.
- `BackupAssumption`: tables are numbered from 1, in the order of the restore.
- `DrillAssumption` (`MaxRpo \in Nat`); of the instances, `Phase` is A, B or C,
  `MaxIterations` is a number, a review names finitely many findings, and `Files` are
  paths (sequences of strings). These stand as hypotheses of the theorems that need them.

1. `TypeCorrect`: `Spec => []TypeOK`. `Shape` strengthens `TypeOK` with "the step of
   a handler fits its command", which is what makes `Apply` and `SlotOf` well-typed.
   The lemmas of `QuestionDomainProofs` show what each command does to a question.
   Items 1 to 5 are in `PgQuestionStoreProofs`.
2. `IsolationHolds`: the inductive invariant `Isolation`. A loaded row is locked, is
   the committed row and belongs to the tenant; a missing row stays missing (a tenant
   never changes, and nobody names a Guid before its insert); an approval holds the
   lock of its key from the look-up on, so a key found free stays free; a request is
   unaudited until its commit. `TypeOK` and `DecisionIsCurrent` alone are not
   inductive: without the locks in the invariant another commit may change the row.
   The proof splits a step of request r into what it does to the others (`Effect`,
   `OthersStayIsolated`) and to r itself (`HandleIsolates`).
3. `DecisionsAreCurrent`: `Spec => []DecisionIsCurrent`, from 2.
4. `StoreImplementsLedger`: `Spec => LedgerSpec`, from 2: a commit maps to the ledger
   step of the same command and instant, every other step to a stutter.
5. `StoreKeepsContract`: `Spec => ContractSpec` for the PostgreSQL store, from 2 and
   `Untold` (no caller is told anything before the end).
6. `ChronicleHolds` (in `PgQuestionStoreProofs` too): the inductive invariant `Chronicle` about
   what the store leaves behind. From 2, every step is of one of four kinds
   (`EveryStepHasAKind`): it writes one revision on the row as it is, records a
   refusal, repeats a stored answer, or leaves the tables alone. `Chronicle` joins the
   checked invariants with what they need to be inductive: revisions are written by
   requests that are done (`Attributed`), nothing but a withdrawal follows an approval
   (`ApprovalIsFinal`), a specific refusal was about a row of the tenant
   (`RefusedInTenant`), no handler's instant is ahead of the clock (`NowIsPast`), and
   an approval's answer is stored until its time is over (`Remembered`). The lemmas
   take the kinds of steps one by one. From it follow `HistoryIsLawful`,
   `NoUpdateIsLost`, `TablesStayInAgreement`, `PublicWasReviewed`,
   `CallersAreToldTheTruth`, `StoredAnswersAreTrue`, `ApprovalTakesEffectOnce`,
   `TenantsAreIsolated`, and the action property `RetriesAreReplayed`: a step that
   refuses a retry would have to find the stored answer expired at an instant that is
   not ahead of the clock, or with another fingerprint.
7. `VersionsAreAudited` and `InMemoryKeepsContract` for the in-memory store. The
   inductive invariant `Sound` adds that an unserved request has no command and no
   audit row, so that a new success row is new and the count grows by exactly one.
8. `SecurityAuditProofs`: `TypeCorrect`; `WindowsHaveOneRow`, from `Placed` (an
   envelope is in one place only, and is in the table or the log only after the worker
   put it there: without it a second insert of one envelope would not be excluded);
   `WindowsOpenOnce`, from `Suppressing`: an entry is not older than its window
   (`EntriesOfWindows`); what a trim has met, or has yet to meet, is of a window that is
   long over, because its threshold comes from an instant that is not ahead of the clock
   (`TrimsAreLate`); hence whatever a trim removes by its key, a request that was let
   pass has an entry in the dictionary until its window is long over (`EntriesRemain`);
   `DenialsAreCounted`: each step changes both sides of the account by the same
   number, which `Placed` makes true of a write that ends (its row is not counted
   before) and of one that fails after its row was written.

9. `DisasterRecoveryProofs`. `BackupIsSound` is the inductive invariant of `DrBackup`:
   a dump is not older than the time its manifest names, because the time is noted
   first; a key that was reported is in Tokyo, and only uploaded keys are; a restore in
   progress has every table before its next one from the one backup it opened, so that
   a report, which is written after the last table, tells of one backup.
   `RestoresAreWhole` follows, and `ReportedIsInTokyo`: what a restore works on was opened
   and is not damaged, hence nothing of a damaged copy is in a database.
   `DrillHasOnePrimary` rests on `OneUp`, which says whose cluster may be at which port at
   which step: after the isolation the primary port is empty, and stays so until the next
   drill starts. The end of a drill opens nothing (`EndOpensNone`), though it may leave
   open what is open; a later drill has another number. `EvidenceIsOrdered` rests on
   `SealedIsOrdered`: each of the three files tells of an acceptance only in an order that
   the seal has validated (`Tells`, `Keeps`), whichever drills they come from.
10. `ReviewProofs`, chains. `ChainsAreSound`: a run reads no label and no branch again,
   hence the invariant says of each run what it carries (`RunHolds`): its head was green
   when it was routed, an accepted loop holds a review of its own head, and what is to be
   published passed the gate. Without it `RecordsAreGated` is not inductive, since the
   gate and the publication are jobs of their own. `OnlyGatedIsRecorded` and the action
   property `AcceptancesAreEarned` follow, for every number of levels.
11. `ReviewProofs`, findings. `LedgerStaysLinked` needs the same of drafts as of records,
   since a draft is validated long before it is merged. `LoopIsBounded` is about
   `at_phase_limit`. `NothingIsCalledFixedUnfixed`: a review never is of a head to come, so
   that another head's review is an earlier head's (`FixesHold`); of the gate it takes
   REV-GATE-003, 013 and 014, and that the candidate compared with the head, the last one
   of its finding, is one of the candidates that the request selected.
12. `RoleAppointmentProofs`. `GreenMeansSigned`: an event replaces the run of the
   head by a queued one, hence whatever that run has read is still so (`IsCurrent`); the
   theorem is about four reads at four instants and needs no lock.
13. `DeliveryProofs`, CI gates. `AcceptedEvidenceIsTrue`, `ResultsKeepTheirSuite` and
   `GreenJobsRanTheirPlan`. The parser is a recursive function over the log; the lemmas
   `ScannedNothing` and `ScannedLine` prove that it reads one line after the other, and
   `StepIsTold` what it makes of a step that went as it did. The invariant `GateHolds`
   says that, while the gate has counted no failure, the log is that of the first k
   steps, with no suite open (`LogIsPrefix`). A gate that lost the rest of its log lacks
   its last suite, which every writer asks for: this is why a truncated log is never
   accepted, although one or two identifier and build lines may be missing from it.
   `GreenJobsRanTheirPlan` joins both channels: an exit status 0 is backed by a gate that
   counted no failure and by accepted evidence (`ExitIsBacked`), the one covers every step
   but the identifier check, the other that one.
14. `DeliveryProofs`, manufacture. `PatchesStayInScope`, `HonestWorkIsPublishedWhole` and
   the action property `ManufacturersStartOnCheckedOrders`, from `ManufactureHolds`: a run
   carries the order of its commit, from its validation on that this order was checked at
   the tip it had resolved (`Admitted`), and from the envelope on a patch that was compared
   with scope, denied prefixes and report. That no start has an older main than an
   earlier one is `StartsPrecede`: the tip is resolved only when the run before has
   ended, and main only grows. `path_is_denied` drops one leading `./` before
   it compares a path with the denied prefixes; `DeniedDespiteDot` shows that what it
   accepts has none of them as a prefix, as it stands, since none begins with `./`. That `Scope` is not
   empty is not assumed: it is precondition 16 of a work order.

What the proofs found out about the models. TLC had not seen, with two faults, that the
writers of 6R-5 to 6R-7 can report a suite as passed that died: they do not know the
heading of the town-readiness suite, whose result line closes the suite that is open
(mobile died, OIDC did not start, town readiness has six tests: mobile "passed"). The
proof of `PassedIsItsOwn` failed there, TLC finds it with three faults, and the property
now names the exception (`ForeignCount`). The evidence is rejected all the same, since
the gate has failed. And two CASE guards of `Printed` overlapped, now `SuiteLines`.

So every safety property, state invariant or action property, that a passing run checks
is a theorem, the violated one excepted.

Only model-checked: liveness (`EveryRequestIsAnswered`, `EveryEnvelopeIsHandled`,
`UploadEnds`), which is beyond the prover, as is ENABLED. The prover has
no induction over data either, in the form of the library's theorems with an operator
parameter; where a proof needs one (the parser, the candidates of a request) it takes the
least counterexample instead, which the well-foundedness of the naturals gives
(`LeastExists`). `FoldFunction`, with which the later writers add up their totals, stays
unexpanded: the proofs use the other conditions of those writers only.

## 5. Not modelled

- **Schema migration and role boundary**: `ApplyAsync` is one transaction that begins
  with an advisory lock, so that starts are serial and a crash leaves nothing; what
  could still be wrong is the content of the SQL scripts and grants.
- **Connection pool and tenant setting**: `set_config` is local to the transaction.
  What a transaction sees through row level security is `Visible`.
- **Browser application**: it keeps no state that outlives the page; its requests,
  repeated ones and ones under a new key included, are commands of the store's
  models. Overlapping list loads concern the page only.
- **Authentication, tenant resolution, CSRF, host**: per-request checks without
  state of their own, and wiring of the framework.
- **Reads**: administrative searches and the audit readers change nothing; the
  public list is `PublicQuestions`.
- **Numbers**: a version is a natural; it would take 2^31 changes of one question to
  overflow the column.
- **Contract checks in CI** compare sources with documents; their verdict is one
  step of `CiGate`.
