------------------------------ MODULE Manufacture ------------------------------
(***************************************************************************)
(* From a pushed work order to a Draft pull request: the workflows         *)
(* qf-work-order-contract.yml and qf-codex-manufacture.yml.                *)
(*                                                                         *)
(* A push to main that changes work orders starts a contract run, and      *)
(* contract runs are concurrent.  Each one that ends requests a            *)
(* manufacture run; those share a concurrency group, in which one run is   *)
(* running and at most one is pending: a later request takes the place of  *)
(* the pending one.  The manufacturer is an AI, and may edit, create and   *)
(* report what it likes.  Any job may fail at any point.                   *)
(*                                                                         *)
(* main is the sequence of the commits of the default branch; a commit     *)
(* holds the work order files.  The control plane of the repository does   *)
(* not change here, so that preflight always passes.                       *)
(***************************************************************************)
EXTENDS ControllerCli

CONSTANTS
  Ids,             \* identifiers of work orders
  Versions,        \* the versions that the organizer may write
  Risks,           \* the risk classes of the work orders
  Files,           \* paths that the manufacturer may touch
  Scope,           \* paths that the work orders allow
  Prohibited,      \* paths that the work orders prohibit
  NoOrder,         \* the file of a work order that was not written yet
  MaxCommits,      \* bound: commits of main
  MaxNow           \* bound: the clock; orders expire at 1

VARIABLES
  main,            \* commits: the work order files and who pushed
  now,
  contracts,       \* commits whose contract run has not ended
  group,           \* manufacture runs: the running one and the pending one
  branches,        \* codex/ branches: work order, patch, and the pull request
  started          \* manufacturer executions: the run and the tip it started at

vars == <<main, now, contracts, group, branches, started>>

Organizers == {"organizer"}
Actors == {"organizer", "writer"}
Checks == {"required"}

NoRun == [stage |-> "none"]
Tip == Len(main)

(***************************************************************************)
(* Work orders.  A file is what distinguishes the work orders here, and    *)
(* Document is its content.  A file that is not READY does not satisfy the *)
(* schema.                                                                 *)
(***************************************************************************)
\* A file cannot hold the commit that it is pushed with.
Writable(id) ==
  [id : {id}, version : Versions, risk : Risks, ready : BOOLEAN,
   second : IF Risks = {"normal"} THEN {0} ELSE 0 .. Tip]

Document(file) ==
  LET spec == [objective |-> file.id, risk |-> file.risk, scope |-> Scope,
               prohibited |-> Prohibited, tests |-> Checks]
  IN [organizer |-> "organizer", id |-> file.id, version |-> file.version,
      decision |-> "APPROVED", state |-> IF file.ready THEN "READY" ELSE "HOLD",
      schemaValid |-> file.ready, hash |-> spec,
      executionId |-> <<file.id, file.version, spec>>, base |-> 1, expires |-> 1,
      secondReviewer |-> IF file.second = 0 THEN "" ELSE "second",
      secondDecision |-> IF file.second = 0 THEN "NOT_REQUIRED" ELSE "APPROVED",
      secondSha |-> file.second, budget |-> [iterations |-> 0, limits |-> 1],
      objective |-> spec.objective, risk |-> spec.risk, scope |-> spec.scope,
      prohibited |-> spec.prohibited, tests |-> spec.tests]

Identity(file) == Document(file).executionId

Facts(actor, default, workflow, dedup) ==
  [defaultSha |-> default, workflowSha |-> workflow, actor |-> actor,
   organizers |-> Organizers, baseIsAncestor |-> TRUE, now |-> now,
   dedup |-> dedup, visibility |-> "public", requiredChecks |-> Checks,
   preconditions |-> PreconditionIds]

Init ==
  /\ main = <<[orders |-> [id \in Ids |-> NoOrder], actor |-> "organizer"]>>
  /\ now = 0
  /\ contracts = {} /\ branches = {} /\ started = {}
  /\ group = [running |-> NoRun, pending |-> NoRun]

(***************************************************************************)
(* Pushes to main.                                                         *)
(***************************************************************************)
ChangedBy(commit) ==
  {id \in Ids : main[commit].orders[id] # main[commit - 1].orders[id]}

\* The work order of a commit that changed one.
OnlyChange(commit) == CHOOSE id \in ChangedBy(commit) : TRUE

\* A push of work orders starts a contract run for its commit.
PushOrders(actor, changes) ==
  /\ Tip < MaxCommits
  /\ \E id \in DOMAIN changes : changes[id] # main[Tip].orders[id]
  /\ LET orders == [id \in Ids |-> IF id \in DOMAIN changes THEN changes[id]
                                   ELSE main[Tip].orders[id]]
     IN main' = Append(main, [orders |-> orders, actor |-> actor])
  /\ contracts' = contracts \cup {Tip + 1}
  /\ UNCHANGED <<now, group, branches, started>>

PushOther(actor) ==
  /\ Tip < MaxCommits
  /\ main' = Append(main, [main[Tip] EXCEPT !.actor = actor])
  /\ UNCHANGED <<now, contracts, group, branches, started>>

Expire ==
  /\ now < MaxNow
  /\ now' = now + 1
  /\ UNCHANGED <<main, contracts, group, branches, started>>

(***************************************************************************)
(* qf-work-order-contract.yml.                                             *)
(***************************************************************************)
HasBranch(id) == \E b \in branches : b.order.id = id

\* The tree before the push, and the branches and pull requests by prefix.
DedupState(commit, id) ==
  LET prior == main[commit - 1].orders[id]
      order == main[commit].orders[id]
  IN IF \/ prior # NoOrder /\ prior.ready /\ Identity(prior) = Identity(order)
        \/ HasBranch(id)
     THEN "processed" ELSE "first"

ContractDecision(commit) ==
  IF Cardinality(ChangedBy(commit)) # 1
  THEN Raised("not exactly one changed Work Order")
  ELSE LET id == OnlyChange(commit)
           order == main[commit].orders[id]
       IN CommandWorkOrder(Document(order),
            Facts(main[commit].actor, commit, commit, DedupState(commit, id)))

\* The run that the end of a contract run requests; its artifact has the
\* work order file only when the contract succeeded.  default is the tip
\* that the run finds on main, and checked the time of its validation.
Requested(commit, decision) ==
  [stage |-> "resolve", default |-> 0, checked |-> 0, commit |-> commit, contract |-> decision,
   order |-> IF Succeeds(decision) THEN main[commit].orders[OnlyChange(commit)] ELSE NoOrder]

Enqueue(run) ==
  group' = IF group.running = NoRun THEN [group EXCEPT !.running = run]
                                    ELSE [group EXCEPT !.pending = run]

RunContract(commit) ==
  /\ commit \in contracts
  /\ contracts' = contracts \ {commit}
  /\ Enqueue(Requested(commit, ContractDecision(commit)))
  /\ UNCHANGED <<main, now, branches, started>>

(***************************************************************************)
(* qf-codex-manufacture.yml.                                               *)
(***************************************************************************)
At(stage) == group.running # NoRun /\ group.running.stage = stage
Continue(run) == group' = [group EXCEPT !.running = run]

EndRun == group' = [running |-> group.pending, pending |-> NoRun]

\* The job of a failed contract is skipped, that of a no-op ends at once.
SkipRun ==
  /\ At("resolve")
  /\ group.running.contract.state # "qf:manufacturing"
  /\ EndRun
  /\ UNCHANGED <<main, now, contracts, branches, started>>

\* Mutant: the tip of main is the commit of the run that requested this one.
ResolveRequestedTip ==
  /\ At("resolve")
  /\ group.running.contract.state = "qf:manufacturing"
  /\ Continue([group.running EXCEPT !.stage = "identity", !.default = group.running.commit])
  /\ UNCHANGED <<main, now, contracts, branches, started>>

\* Resolve live default branch SHA.
ResolveTip ==
  /\ At("resolve")
  /\ group.running.contract.state = "qf:manufacturing"
  /\ Continue([group.running EXCEPT !.stage = "identity", !.default = Tip])
  /\ UNCHANGED <<main, now, contracts, branches, started>>

\* Revalidate Work Order and fixed base: as in the contract run, with the tip
\* as it was resolved and without deduplication.
IdentityDecision(run) ==
  CommandWorkOrder(Document(run.order),
    Facts(main[run.commit].actor, run.default, run.commit, "first"))

ValidateIdentity ==
  /\ At("identity")
  /\ Succeeds(IdentityDecision(group.running))
  /\ Continue([group.running EXCEPT !.stage = "prompt", !.checked = now])
  /\ UNCHANGED <<main, now, contracts, branches, started>>

RefuseIdentity ==
  /\ At("identity")
  /\ ~Succeeds(IdentityDecision(group.running))
  /\ EndRun
  /\ UNCHANGED <<main, now, contracts, branches, started>>

\* The approved base is checked out and the prompt assembled, before Codex
\* starts; main, the clock and the order are not looked at again.
StartManufacturer ==
  /\ At("prompt")
  /\ Continue([group.running EXCEPT !.stage = "codex"])
  /\ started' = started \cup {[run |-> group.running, tip |-> Tip]}
  /\ UNCHANGED <<main, now, contracts, branches>>

\* `git diff` has the edited files and leaves the created ones out.
Manufacture(edited, created, reported) ==
  /\ At("codex")
  /\ Continue(
       [stage |-> "seal", commit |-> group.running.commit, contract |-> group.running.contract,
        order |-> group.running.order, patch |-> edited, created |-> created,
        reported |-> reported])
  /\ UNCHANGED <<main, now, contracts, branches, started>>

\* The patch is identified by its edits: the base is that of the order.
Report(run) ==
  LET order == Document(run.order)
  IN [schemaValid |-> TRUE, id |-> order.id, iteration |-> 1, hash |-> order.hash,
      base |-> order.base, patch |-> run.patch, scopeChanged |-> run.reported,
      tests |-> order.tests]

\* Scope and report are checked in the manufacture job and in the verify job.
EnvelopeHolds(run) ==
  LET order == Document(run.order)
  IN /\ Succeeds(CommandScope(order, run.patch))
     /\ Succeeds(CommandManufacturingResult(Report(run), order, run.patch, order.base, run.patch))

Advances(run) ==
  CASE run.stage = "seal" -> EnvelopeHolds(run)
    [] run.stage = "verify" ->
         /\ Succeeds(CommandPatchIdentity(run.patch, run.patch, run.patch))
         /\ run.patch # {}                         \* git apply --check
         /\ EnvelopeHolds(run)
    [] run.stage = "test" -> TRUE                  \* the tests of the product passed
    [] OTHER -> FALSE

FollowingStage(stage) ==
  CASE stage = "seal" -> "verify" [] stage = "verify" -> "test" [] stage = "test" -> "publish"

Advance ==
  /\ group.running # NoRun
  /\ Advances(group.running)
  /\ Continue([group.running EXCEPT !.stage = FollowingStage(group.running.stage)])
  /\ UNCHANGED <<main, now, contracts, branches, started>>

BranchOf(run) ==
  [order |-> run.order, patch |-> run.patch, created |-> run.created,
   report |-> run.reported, pr |-> FALSE]
SameName(b, run) == b.order.id = run.order.id /\ b.patch = run.patch

PushBranch ==
  /\ At("publish")
  /\ Succeeds(CommandPatchIdentity(group.running.patch, group.running.patch, group.running.patch))
  /\ ~\E b \in branches : SameName(b, group.running)
  /\ branches' = branches \cup {BranchOf(group.running)}
  /\ Continue([group.running EXCEPT !.stage = "open"])
  /\ UNCHANGED <<main, now, contracts, started>>

OpenPullRequest ==
  /\ At("open")
  /\ branches' = {IF SameName(b, group.running) THEN [b EXCEPT !.pr = TRUE] ELSE b : b \in branches}
  /\ EndRun
  /\ UNCHANGED <<main, now, contracts, started>>

\* A check of a step failed, or the job did: a timeout, a lost runner, an
\* unavailable service, red tests, a branch that exists.
RunFails ==
  /\ group.running # NoRun
  /\ EndRun
  /\ UNCHANGED <<main, now, contracts, branches, started>>

RunStep ==
  \/ SkipRun \/ ResolveTip \/ ValidateIdentity \/ RefuseIdentity \/ StartManufacturer
  \/ Advance \/ PushBranch \/ OpenPullRequest
  \/ \E edited, created \in SUBSET Files :
       /\ edited \cap created = {}
       /\ \E reported \in {edited, edited \cup created} : Manufacture(edited, created, reported)

Next ==
  \/ \E actor \in Actors :
       \/ PushOther(actor)
       \/ \E ids \in SUBSET Ids \ {{}} :
            \E changes \in [ids -> UNION {Writable(id) : id \in ids}] :
              /\ \A id \in ids : changes[id].id = id
              /\ PushOrders(actor, changes)
  \/ Expire
  \/ \E commit \in 1 .. Tip : RunContract(commit)
  \/ RunStep
  \/ RunFails

Spec == Init /\ [][Next]_vars

-----------------------------------------------------------------------------
\* A run can wait long behind another one, and checks again after the wait.
\* What its manufacturer starts on was, on a main that no manufacturer before
\* it was started after, the READY order of an organizer, and unexpired when
\* that was checked: of the orders that were withdrawn, replaced or expired
\* while their runs waited none is manufactured.  Between that check and the
\* start main may move and the order expire, which nobody looks at.
StartsAreCurrent ==
  [][\A s \in started' \ started :
       LET order == s.run.order
       IN /\ main[s.run.default].orders[order.id] = order
          /\ main[s.run.commit].actor \in Organizers
          /\ order.ready /\ s.run.checked < Document(order).expires
          /\ \A earlier \in started : earlier.tip <= s.run.default]_vars

\* What is published stays in the scope of its order and away from the
\* control plane, whatever the manufacturer touched and reported.
PublishedIsInScope ==
  \A b \in branches :
    /\ b.patch # {}
    /\ \A file \in b.patch :
         /\ \E item \in Scope : IsPrefix(item, file)
         /\ ~\E item \in Prohibited : IsPrefix(item, file)
         /\ ~\E item \in DenyPrefixes : IsPrefix(item, file)

\* A manufacturer that truthfully reports a file which `git diff` left out
\* of the patch does not have half of its work published.
HonestWorkIsWhole ==
  \A b \in branches : b.report = b.patch \cup b.created => b.created = {}

=============================================================================
