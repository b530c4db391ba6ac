------------------------------- MODULE DrBackup -------------------------------
(***************************************************************************)
(* A backup of the database from its dump in Ishikari to its restore in    *)
(* Tokyo: scripts/dr/create-encrypted-backup.sh,                           *)
(* upload-and-await-crr.sh and restore-encrypted-backup.sh, with the       *)
(* replication of the buckets, which is external and never certain.        *)
(*                                                                         *)
(* Instead of the time at which it starts, a backup notes how many changes *)
(* the database has committed by then.  A backup is named by its number.   *)
(***************************************************************************)
EXTENDS Integers, Sequences, FiniteSets

CONSTANTS
  Tables,      \* tables of a dump, 1 .. N, in the order of their restore
  MaxWaits,    \* polls until the deadline
  MaxCommits,  \* bound: changes of the database
  MaxBackups,  \* bound: backups completed
  MaxUploads   \* bound: uploads started

ASSUME BackupAssumption ==
  /\ Tables \subseteq Nat \ {0} /\ \A table \in Tables : 1 .. table \subseteq Tables
  /\ MaxWaits \in Nat /\ MaxCommits \in Nat /\ MaxBackups \in Nat

VARIABLES
  commits,     \* changes that the source database has committed
  job,         \* create-encrypted-backup.sh, one at a time by its flock
  backups,     \* .p7m files of the output directory: what they hold
  upload,      \* upload-and-await-crr.sh
  uploads,     \* uploads started
  ishikari,    \* ReplicationStatus of each object of the source bucket
  tokyo,       \* objects that the destination bucket shows
  damaged,     \* those that do not decrypt to what was signed
  reported,    \* backups for which an upload has exited with 0
  restore,     \* restore-encrypted-backup.sh
  database,    \* from which backup each table of the target was restored
  report       \* the backup that a restore report names, of this target

source == <<commits, job, backups>>
buckets == <<upload, uploads, ishikari, tokyo, damaged, reported>>
target == <<restore, database, report>>
vars == <<source, buckets, target>>

None == 0
NoUpload == [at |-> "idle", key |-> None, waits |-> 0]
NoRestore == [at |-> "idle", key |-> None, next |-> 0]
Uploaded == {key \in DOMAIN backups : ishikari[key] # "absent"}

Init ==
  /\ commits = 0 /\ job = [at |-> "idle"] /\ backups = <<>>
  /\ upload = NoUpload /\ uploads = 0
  /\ ishikari = [key \in 1 .. MaxBackups |-> "absent"]
  /\ tokyo = {} /\ damaged = {} /\ reported = {}
  /\ restore = NoRestore /\ database = [table \in Tables |-> None] /\ report = None

-----------------------------------------------------------------------------
(***************************************************************************)
(* create-encrypted-backup.sh                                              *)
(***************************************************************************)
Commit ==
  /\ commits < MaxCommits /\ commits' = commits + 1
  /\ UNCHANGED <<job, backups, buckets, target>>

Stamp ==
  /\ job.at = "idle" /\ Len(backups) < MaxBackups
  /\ job' = [at |-> "stamped", started |-> commits]
  /\ UNCHANGED <<commits, backups, buckets, target>>

\* pg_dump reads one snapshot, taken when it starts.
Dump ==
  /\ job.at = "stamped"
  /\ job' = [at |-> "dumped", started |-> job.started, dump |-> commits]
  /\ UNCHANGED <<commits, backups, buckets, target>>

\* The file is signed, encrypted to a partial file and moved to its name.
Seal ==
  /\ job.at = "dumped" /\ job' = [at |-> "sealed"]
  /\ backups' = Append(backups, [started |-> job.started, dump |-> job.dump, metadata |-> FALSE])
  /\ UNCHANGED <<commits, buckets, target>>

Describe ==
  /\ job.at = "sealed" /\ job' = [at |-> "idle"]
  /\ backups' = [backups EXCEPT ![Len(backups)].metadata = TRUE]
  /\ UNCHANGED <<commits, buckets, target>>

FailBackup ==
  /\ job.at # "idle" /\ job' = [at |-> "idle"]
  /\ UNCHANGED <<commits, backups, buckets, target>>

-----------------------------------------------------------------------------
(***************************************************************************)
(* upload-and-await-crr.sh                                                 *)
(***************************************************************************)
\* It needs both files.  A backup whose upload failed may be uploaded again:
\* its object is then replicated anew.
PutBackup(key) ==
  /\ upload.at = "idle" /\ uploads < MaxUploads /\ uploads' = uploads + 1
  /\ backups[key].metadata
  /\ upload' = [at |-> "put", key |-> key, waits |-> 0]
  /\ ishikari' = [ishikari EXCEPT ![key] = "PENDING"]
  /\ UNCHANGED <<tokyo, damaged, reported, source, target>>

PutMetadata ==
  /\ upload.at = "put"
  /\ upload' = [upload EXCEPT !.at = "waiting", !.waits = MaxWaits]
  /\ UNCHANGED <<uploads, ishikari, tokyo, damaged, reported, source, target>>

\* Mutant: the source's word is enough.
ReplicatedBySource(key) == ishikari[key] = "COMPLETED"

\* The source reports COMPLETED and the destination has it.
Replicated(key) == ishikari[key] = "COMPLETED" /\ key \in tokyo

Poll ==
  /\ upload.at = "waiting" /\ upload.waits > 0
  /\ IF Replicated(upload.key)
     THEN reported' = reported \cup {upload.key} /\ upload' = NoUpload
     ELSE upload' = [upload EXCEPT !.waits = @ - 1] /\ UNCHANGED reported
  /\ UNCHANGED <<uploads, ishikari, tokyo, damaged, source, target>>

\* Mutant: the wait has no end.
StartWaitAgain ==
  /\ upload.at = "waiting" /\ upload.waits = 0
  /\ upload' = [upload EXCEPT !.waits = MaxWaits]
  /\ UNCHANGED <<uploads, ishikari, tokyo, damaged, reported, source, target>>

TimeOut ==
  /\ upload.at = "waiting" /\ upload.waits = 0
  /\ upload' = NoUpload
  /\ UNCHANGED <<uploads, ishikari, tokyo, damaged, reported, source, target>>

\* A call of the client fails, before or after it took effect.
FailUpload ==
  /\ upload.at # "idle" /\ upload' = NoUpload
  /\ UNCHANGED <<uploads, ishikari, tokyo, damaged, reported, source, target>>

\* The buckets.  The status and the copy show in any order; the copy may be
\* damaged, which neither its size nor the hash kept with it tells.
Replicate(key) ==
  /\ ishikari[key] = "PENDING"
  /\ \E status \in {"COMPLETED", "FAILED"} : ishikari' = [ishikari EXCEPT ![key] = status]
  /\ UNCHANGED <<upload, uploads, tokyo, damaged, reported, source, target>>

ShowCopy(key) ==
  /\ ishikari[key] \in {"PENDING", "COMPLETED"} /\ key \notin tokyo
  /\ tokyo' = tokyo \cup {key}
  /\ damaged' \in {damaged, damaged \cup {key}}
  /\ UNCHANGED <<upload, uploads, ishikari, reported, source, target>>

-----------------------------------------------------------------------------
(***************************************************************************)
(* restore-encrypted-backup.sh                                             *)
(***************************************************************************)
\* Decryption, signature and hash; each restore has a directory of its own.
OpenBackup(key) ==
  /\ restore.at = "idle" /\ key \in tokyo \ damaged
  /\ restore' = [at |-> "restoring", key |-> key, next |-> 1]
  /\ UNCHANGED <<database, report, source, buckets>>

\* Mutant: without --exit-on-error a table that is there is passed over.
RestoreOrSkip ==
  /\ restore.at = "restoring" /\ restore.next \in Tables
  /\ restore' = [restore EXCEPT !.next = @ + 1]
  /\ database' = IF database[restore.next] = None
                 THEN [database EXCEPT ![restore.next] = restore.key] ELSE database
  /\ UNCHANGED <<report, source, buckets>>

\* pg_restore is no one transaction; a table that is there ends it.
RestoreTable ==
  /\ restore.at = "restoring" /\ restore.next \in Tables
  /\ IF database[restore.next] = None
     THEN /\ database' = [database EXCEPT ![restore.next] = restore.key]
          /\ restore' = [restore EXCEPT !.next = @ + 1]
     ELSE restore' = NoRestore /\ UNCHANGED database
  /\ UNCHANGED <<report, source, buckets>>

WriteReport ==
  /\ restore.at = "restoring" /\ restore.next \notin Tables
  /\ restore' = NoRestore /\ report' = restore.key
  /\ UNCHANGED <<database, source, buckets>>

FailRestore ==
  /\ restore.at # "idle" /\ restore' = NoRestore
  /\ UNCHANGED <<database, report, source, buckets>>

\* The operator turns to another empty database.
NewTarget ==
  /\ restore.at = "idle" /\ database' = [table \in Tables |-> None] /\ report' = None
  /\ UNCHANGED <<restore, source, buckets>>

-----------------------------------------------------------------------------
Await == PutMetadata \/ Poll \/ TimeOut

Next ==
  \/ Commit \/ Stamp \/ Dump \/ Seal \/ Describe \/ FailBackup
  \/ Await \/ FailUpload
  \/ \E key \in DOMAIN backups : PutBackup(key)
  \/ \E key \in Uploaded : Replicate(key) \/ ShowCopy(key)
  \/ \E key \in tokyo : OpenBackup(key)
  \/ RestoreTable \/ WriteReport \/ FailRestore \/ NewTarget

Spec == Init /\ [][Next]_vars

\* The script goes on: its calls return and its sleeps end.
FairSpec == Spec /\ WF_vars(Await)

-----------------------------------------------------------------------------
\* Variables hold what they should; what is in Tokyo was uploaded.
TypeOK ==
  /\ commits \in 0 .. MaxCommits /\ Len(backups) <= MaxBackups
  /\ job.at \in {"idle", "stamped", "dumped", "sealed"}
  /\ upload.at \in {"idle", "put", "waiting"} /\ upload.waits \in 0 .. MaxWaits
  /\ damaged \subseteq tokyo /\ tokyo \subseteq Uploaded
  /\ restore.at \in {"idle", "restoring"} /\ restore.key \in tokyo \cup {None}
  /\ \A table \in Tables : database[table] \in tokyo \cup {None}

\* A backup that an upload has reported is in Tokyo.  Its copy has every change
\* that was committed before the time its manifest names, so that the difference
\* of that time from the disaster bounds the loss; or it is damaged, which the
\* upload cannot tell, and then nothing of it gets into any database.
ReportedIsWholeOrRefused ==
  \A key \in reported :
    /\ key \in tokyo
    /\ key \notin damaged => backups[key].dump >= backups[key].started
    /\ key \in damaged => \A table \in Tables : database[table] # key

\* A restore report tells of a database all of which comes from the one backup
\* that it names, and from one that was not damaged, although restores before
\* it have failed in the same database.
ReportedRestoreIsWhole ==
  report # None => report \notin damaged /\ \A table \in Tables : database[table] = report

\* However the replication goes, an upload ends.
UploadEnds == upload.at # "idle" ~> upload.at = "idle"
=============================================================================
