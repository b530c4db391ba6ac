----------------------------- MODULE FailoverDrill -----------------------------
(***************************************************************************)
(* The failover drill of scripts/test-disaster-recovery.sh and the seal of *)
(* its evidence, scripts/dr/seal-failover-evidence.py, with the directory  *)
(* that drill after drill publishes to.                                    *)
(*                                                                         *)
(* The drill notes the time of each of its steps.  The clock may be set    *)
(* back under it, what is restored may not be what was backed up, and any  *)
(* of its commands may fail, which ends it; the clusters of a drill that   *)
(* ended so may go on at their ports.  A drill and its clusters have the   *)
(* number of the drill.  Times are seconds; a hash is what is hashed.      *)
(***************************************************************************)
EXTENDS Integers, Sequences, FiniteSets, SequencesExt

CONSTANTS
  Subjects,    \* who may approve
  MaxRpo,      \* rpoSeconds that the seal accepts
  MaxNow,      \* bound: seconds
  MaxDrills    \* bound: drills

ASSUME DrillAssumption == MaxRpo \in Nat

VARIABLES
  now,         \* the clock
  pc,          \* the step that the drill has finished
  noted,       \* the times that it has noted
  restored,    \* what the recovered database was found to be
  primary,     \* the drill whose cluster is open for writing at the primary port, or NoDrill
  recovery,    \* the same of the recovery port
  sealed,      \* the artifact and evidence in the drill's own directory
  published,   \* the evidence directory, which stays
  drills       \* drills started

drillVars == <<now, pc, noted, restored, primary, recovery, sealed, published, drills>>

Timeline ==
  <<"declared", "isolated", "restoreStarted", "restoreCompleted", "accepted", "switched">>

NoDrill == 0
Nothing == [artifact |-> <<>>, evidence |-> <<>>, latest |-> <<>>]

(***************************************************************************)
(* The seal.                                                               *)
(***************************************************************************)
Ascending(times) == \A i \in 2 .. Len(times) : times[i - 1] <= times[i]

\* Mutant: the order of the first and the last step is checked.
InOrderEnds(t) == t.snapshot <= t.declared /\ t.declared <= t.switched

InOrder(t) ==
  /\ t.snapshot <= t.declared
  /\ Ascending([i \in DOMAIN Timeline |-> t[Timeline[i]]])

TwoApprove(candidate) ==
  /\ candidate.commander # candidate.lead
  /\ candidate.approved <= candidate.timeline.switched

\* validate: the fields that are constant in the drill are left out.
Validate(candidate) ==
  /\ InOrder(candidate.timeline)
  /\ TwoApprove(candidate)
  /\ candidate.isolated
  /\ candidate.latestSchema
  /\ candidate.rpo \in 0 .. MaxRpo /\ candidate.rto >= 0

\* The artifact is written first and then the evidence with its hash.
SealedBy(candidate) ==
  IF Validate(candidate)
  THEN [artifact |-> <<candidate>>, evidence |-> <<[status |-> "accepted", hash |-> candidate]>>]
  ELSE [artifact |-> <<>>, evidence |-> <<>>]

(***************************************************************************)
(* The drill.                                                              *)
(***************************************************************************)
NoTimes == [step \in ToSet(Timeline) \cup {"snapshot", "disaster", "success"} |-> 0]
NotRestored == [whole |-> FALSE, schema |-> FALSE]
Unsealed == [artifact |-> <<>>, evidence |-> <<>>]

DrillInit ==
  /\ now = 1 /\ pc = "idle" /\ noted = NoTimes /\ restored = NotRestored
  /\ primary = NoDrill /\ recovery = NoDrill
  /\ sealed = Unsealed /\ published = Nothing /\ drills = 0

SetClock ==
  /\ now' \in {t \in {now - 1, now + 1} : t \in 1 .. MaxNow}
  /\ pc # "idle"
  /\ UNCHANGED <<pc, noted, restored, primary, recovery, sealed, published, drills>>

\* A step of the drill that notes the time.
Note(from, step) ==
  /\ pc = from /\ pc' = step
  /\ noted' = [noted EXCEPT ![step] = now]
  /\ UNCHANGED <<now, sealed, published, drills>>

\* The primary is started, and the backup is taken and validated.  A drill that
\* finds the port taken ends here and leaves everything as it is.
Start ==
  /\ pc = "idle" /\ drills < MaxDrills /\ primary = NoDrill
  /\ drills' = drills + 1 /\ primary' = drills + 1
  /\ pc' = "snapshot" /\ noted' = [NoTimes EXCEPT !["snapshot"] = now]
  /\ UNCHANGED <<now, restored, recovery, sealed, published>>

\* The declaration and the acceptance are noted twice, with a call of date each:
\* for the timeline and for the metrics.
Declare == Note("snapshot", "declared") /\ UNCHANGED <<restored, primary, recovery>>
DeclareEpoch == Note("declared", "disaster") /\ UNCHANGED <<restored, primary, recovery>>

\* Mutant: the primary is left to be stopped with the cleanup.
DeclareIsolated ==
  /\ Note("disaster", "isolated")
  /\ UNCHANGED <<restored, primary, recovery>>

\* The immediate stop of the drill's primary; it ends the drill when it fails.
Isolate ==
  /\ Note("disaster", "isolated")
  /\ primary' = NoDrill
  /\ UNCHANGED <<restored, recovery>>

\* The recovery cluster is started, and open for writing, before the time is
\* noted.  A port that is taken ends the drill (Fail).
StartRestore ==
  /\ recovery = NoDrill /\ recovery' = drills
  /\ Note("isolated", "restoreStarted")
  /\ UNCHANGED <<restored, primary>>

\* pg_restore ends the drill when it fails; what it has restored is examined
\* later.
Restore ==
  /\ Note("restoreStarted", "restoreCompleted")
  /\ restored' \in [whole : BOOLEAN, schema : BOOLEAN]
  /\ UNCHANGED <<primary, recovery>>

\* The API is started with the recovery database, and answers.
Accept == Note("restoreCompleted", "accepted") /\ UNCHANGED <<restored, primary, recovery>>
AcceptEpoch == Note("accepted", "success") /\ UNCHANGED <<restored, primary, recovery>>
Switch == Note("success", "switched") /\ UNCHANGED <<restored, primary, recovery>>

Candidate(commander, lead) ==
  [timeline |-> noted, commander |-> commander, lead |-> lead, approved |-> noted["accepted"],
   isolated |-> primary # drills, latestSchema |-> restored.schema,
   rpo |-> noted["disaster"] - noted["snapshot"], rto |-> noted["success"] - noted["disaster"]]

\* A drill is not started with one person in both roles.  When one of the two
\* files cannot be written, there is nothing to publish.
SealEvidence ==
  /\ pc = "switched" /\ pc' = "sealed"
  /\ \E commander, lead \in Subjects :
       commander # lead /\ sealed' \in {SealedBy(Candidate(commander, lead)), Unsealed}
  /\ UNCHANGED <<now, noted, restored, primary, recovery, published, drills>>

\* The summary holds the evidence.  The checks of the recovered data are
\* counted in it, not required.
Summary ==
  IF sealed.evidence = <<>> THEN <<[status |-> "rejected"]>> ELSE sealed.evidence

\* install of the artifact, install of the evidence, and the summary.
PublishArtifact ==
  /\ pc = "sealed" /\ pc' = IF sealed.artifact = <<>> THEN "evidence" ELSE "artifact"
  /\ published' =
       IF sealed.artifact = <<>> THEN published
       ELSE [published EXCEPT !.artifact = sealed.artifact]
  /\ UNCHANGED <<now, noted, restored, primary, recovery, sealed, drills>>

PublishEvidence ==
  /\ pc = "artifact" /\ pc' = "evidence"
  /\ published' = [published EXCEPT !.evidence = sealed.evidence]
  /\ UNCHANGED <<now, noted, restored, primary, recovery, sealed, drills>>

\* cleanup, as a drill exits: it stops the clusters of the drill.  The first
\* stop that fails ends it, and a shell that is killed stops nothing.
Without(owner) == IF owner = drills THEN NoDrill ELSE owner

Cleanup ==
  \/ primary' = Without(primary) /\ recovery' \in {Without(recovery), recovery}
  \/ UNCHANGED <<primary, recovery>>

\* What a drill knows is in variables of its shell and in its own directory.
End ==
  /\ Cleanup
  /\ pc' = "idle" /\ noted' = NoTimes /\ restored' = NotRestored /\ sealed' = Unsealed
  /\ UNCHANGED <<now, drills>>

PublishLatest ==
  /\ pc = "evidence" /\ End
  /\ published' = [published EXCEPT !.latest = Summary]

\* A command of the drill fails or the drill is interrupted.
Fail ==
  /\ pc # "idle" /\ End
  /\ UNCHANGED published

DrillNext ==
  \/ SetClock \/ Fail
  \/ Start \/ Declare \/ DeclareEpoch \/ Isolate
  \/ StartRestore \/ Restore \/ Accept \/ AcceptEpoch \/ Switch
  \/ SealEvidence \/ PublishArtifact \/ PublishEvidence \/ PublishLatest

DrillSpec == DrillInit /\ [][DrillNext]_drillVars

-----------------------------------------------------------------------------
RestoreSteps ==
  {"restoreStarted", "restoreCompleted", "accepted", "success", "switched",
   "sealed", "artifact", "evidence"}

\* A primary and the database that was restored from its backup are never both
\* open for writing, from the start of the recovery cluster on; and what a drill
\* restores into and accepts is its own cluster, although clusters of drills
\* that failed may still run at the ports.
OnePrimary ==
  /\ primary # NoDrill => recovery # primary
  /\ pc \in RestoreSteps => recovery = drills

Told ==
  ToSet(published.artifact) \cup
  {e.hash : e \in {f \in ToSet(published.evidence \o published.latest) : f.status = "accepted"}}

\* What the evidence directory calls accepted, in its evidence and its summary
\* and by the artifact beside them, tells of an isolation before the restore, of
\* a switch after the acceptance and of a loss within the objective, although
\* the clock may have been set during the drill and a later drill may have
\* failed half way through replacing the files.
PublishedIsOrdered ==
  \A candidate \in Told :
    LET t == candidate.timeline
    IN /\ t["snapshot"] <= t["isolated"] /\ t["isolated"] <= t["restoreStarted"]
       /\ t["restoreCompleted"] <= t["accepted"] /\ t["accepted"] <= t["switched"]
       /\ candidate.rpo <= MaxRpo

=============================================================================
