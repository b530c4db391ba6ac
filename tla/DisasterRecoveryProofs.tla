------------------------ MODULE DisasterRecoveryProofs ------------------------
(***************************************************************************)
(* Theorems about the disaster recovery of the database: the backup, its   *)
(* replication and its restore (DrBackup), and the failover drill with the *)
(* evidence that it publishes (FailoverDrill).  The two have no state in   *)
(* common.                                                                 *)
(***************************************************************************)
EXTENDS DrBackup, FailoverDrill, TLAPS

-----------------------------------------------------------------------------
(***************************************************************************)
(* The backup.  Jobs, uploads and restores, and the files that they leave. *)
(***************************************************************************)
Jobs ==
  [at : {"idle", "sealed"}] \cup [at : {"stamped"}, started : Nat]
    \cup [at : {"dumped"}, started : Nat, dump : Nat]
Files == [started : Nat, dump : Nat, metadata : BOOLEAN]

Typed ==
  /\ commits \in 0 .. MaxCommits
  /\ job \in Jobs
  /\ backups \in Seq(Files) /\ Len(backups) <= MaxBackups
  /\ job.at \in {"stamped", "dumped"} => Len(backups) < MaxBackups
  /\ upload \in [at : {"idle", "put", "waiting"}, key : Nat, waits : 0 .. MaxWaits]
  /\ ishikari \in [1 .. MaxBackups -> {"absent", "PENDING", "COMPLETED", "FAILED"}]
  /\ restore \in [at : {"idle", "restoring"}, key : Nat, next : Nat]
  /\ database \in [Tables -> Nat] /\ report \in Nat

\* A dump is not older than the time that its manifest names.
DumpsAreRecent ==
  /\ job.at = "stamped" => job.started <= commits
  /\ job.at = "dumped" => job.started <= job.dump
  /\ \A key \in DOMAIN backups : backups[key].started <= backups[key].dump

\* What is in Tokyo or is being uploaded was put to Ishikari.
CopiesAreUploaded ==
  /\ upload.at # "idle" => upload.key \in Uploaded
  /\ damaged \subseteq tokyo /\ reported \subseteq tokyo /\ tokyo \subseteq Uploaded

\* A restore is of one sound backup, and table after table.
RestoreIsOrdered ==
  /\ restore.at = "idle" => restore = NoRestore
  /\ restore.at = "restoring" =>
       /\ restore.key \in tokyo \ damaged
       /\ restore.next # 0 /\ \A table \in Tables : restore.next \in Tables \/ table < restore.next
       /\ \A table \in Tables : table < restore.next => database[table] = restore.key
  /\ \A table \in Tables : database[table] \in (tokyo \ damaged) \cup {None}
  /\ report # None => report \in tokyo \ damaged
  /\ ReportedRestoreIsWhole

BackupHolds == Typed /\ DumpsAreRecent /\ CopiesAreUploaded /\ RestoreIsOrdered

\* Numbers of backups are not that of none.
LEMMA CopiesAreBackups ==
  ASSUME Typed, CopiesAreUploaded
  PROVE  /\ Uploaded \subseteq DOMAIN backups /\ DOMAIN backups \subseteq 1 .. MaxBackups
         /\ \A key \in tokyo : key \in Nat /\ key # None
<1>1. DOMAIN backups = 1 .. Len(backups) /\ Len(backups) \in Nat
  BY DEF Typed
<1>2. DOMAIN backups \subseteq 1 .. MaxBackups
  BY <1>1, BackupAssumption DEF Typed
<1>3. Uploaded \subseteq DOMAIN backups
  BY DEF Uploaded
<1> QED
  BY <1>1, <1>2, <1>3 DEF CopiesAreUploaded, None

LEMMA BackupInit == Init => BackupHolds
<1> SUFFICES ASSUME Init PROVE BackupHolds
  OBVIOUS
<1>2. backups \in Seq(Files) /\ Len(backups) = 0 /\ DOMAIN backups = {}
  BY DEF Init
<1>3. Typed
  BY <1>2, BackupAssumption DEF Init, Typed, Jobs, NoUpload, NoRestore, None
<1>4. DumpsAreRecent
  BY <1>2 DEF Init, DumpsAreRecent
<1>5. CopiesAreUploaded
  BY DEF Init, CopiesAreUploaded, NoUpload
<1>6. RestoreIsOrdered
  BY DEF Init, RestoreIsOrdered, NoRestore, ReportedRestoreIsWhole
<1> QED
  BY <1>3, <1>4, <1>5, <1>6 DEF BackupHolds

\* create-encrypted-backup.sh: a file that is there does not change, apart
\* from its metadata.
LEMMA SourceStep ==
  ASSUME BackupHolds, Commit \/ Stamp \/ Dump \/ Seal \/ Describe \/ FailBackup
  PROVE  BackupHolds'
<1>1. UNCHANGED <<upload, uploads, ishikari, tokyo, damaged, reported, restore, database, report>>
  BY DEF Commit, Stamp, Dump, Seal, Describe, FailBackup, buckets, target
<1>2. /\ commits \in Nat /\ job \in Jobs /\ backups \in Seq(Files) /\ Len(backups) \in Nat
      /\ DOMAIN backups = 1 .. Len(backups)
  BY DEF BackupHolds, Typed
<1>3. RestoreIsOrdered'
  BY <1>1 DEF BackupHolds, RestoreIsOrdered, ReportedRestoreIsWhole, NoRestore
<1>4. ASSUME DOMAIN backups \subseteq DOMAIN backups'
      PROVE  CopiesAreUploaded'
  BY <1>1, <1>4 DEF BackupHolds, CopiesAreUploaded, Uploaded
<1>5. CASE Commit \/ Stamp \/ Dump \/ FailBackup
  <2>1. UNCHANGED backups /\ commits' \in 0 .. MaxCommits /\ commits <= commits'
    BY <1>2, <1>5, BackupAssumption DEF Commit, Stamp, Dump, FailBackup, BackupHolds, Typed
  <2>2. job' \in Jobs /\ (job'.at \in {"stamped", "dumped"} => Len(backups) < MaxBackups)
    BY <1>2, <1>5 DEF Commit, Stamp, Dump, FailBackup, BackupHolds, Typed, Jobs
  <2>3. Typed'
    BY <1>1, <2>1, <2>2 DEF BackupHolds, Typed
  <2>4. DumpsAreRecent'
    BY <1>2, <1>5, <2>1 DEF Commit, Stamp, Dump, FailBackup, BackupHolds, DumpsAreRecent, Jobs
  <2> QED
    BY <1>3, <1>4, <2>1, <2>3, <2>4 DEF BackupHolds
<1>6. CASE Seal
  <2> DEFINE file == [started |-> job.started, dump |-> job.dump, metadata |-> FALSE]
  <2>1. /\ file \in Files /\ file.started <= file.dump
        /\ backups' = Append(backups, file) /\ Len(backups) < MaxBackups
        /\ job' = [at |-> "sealed"] /\ UNCHANGED commits
    BY <1>2, <1>6 DEF Seal, BackupHolds, Typed, DumpsAreRecent, Jobs, Files
  <2> HIDE DEF file
  <2>2. /\ backups' \in Seq(Files) /\ Len(backups') = Len(backups) + 1
        /\ DOMAIN backups' = 1 .. Len(backups) + 1
        /\ \A key \in DOMAIN backups : backups'[key] = backups[key]
        /\ backups'[Len(backups) + 1] = file
    BY <1>2, <2>1
  <2>3. Typed'
    BY <1>1, <1>2, <2>1, <2>2, BackupAssumption DEF BackupHolds, Typed, Jobs
  <2>4. \A key \in DOMAIN backups' : key \in DOMAIN backups \/ key = Len(backups) + 1
    BY <1>2, <2>2
  <2>5. DumpsAreRecent'
    BY <2>1, <2>2, <2>4 DEF BackupHolds, DumpsAreRecent
  <2> QED
    BY <1>2, <1>3, <1>4, <2>2, <2>3, <2>5 DEF BackupHolds
<1>7. CASE Describe
  <2>1. /\ backups' = [backups EXCEPT ![Len(backups)].metadata = TRUE]
        /\ job' = [at |-> "idle"] /\ UNCHANGED commits
    BY <1>7 DEF Describe
  <2>2. /\ backups' \in Seq(Files) /\ Len(backups') = Len(backups)
        /\ DOMAIN backups' = DOMAIN backups
        /\ \A key \in DOMAIN backups : /\ backups'[key].started = backups[key].started
                                       /\ backups'[key].dump = backups[key].dump
    <3>1. \A key \in DOMAIN backups :
            backups'[key] = IF key = Len(backups) THEN [backups[key] EXCEPT !.metadata = TRUE]
                            ELSE backups[key]
      BY <1>2, <2>1
    <3>2. \A file \in Files : /\ [file EXCEPT !.metadata = TRUE] \in Files
                             /\ [file EXCEPT !.metadata = TRUE].started = file.started
                             /\ [file EXCEPT !.metadata = TRUE].dump = file.dump
      BY DEF Files
    <3>3. \A key \in DOMAIN backups : backups[key] \in Files
      BY <1>2
    <3>4. DOMAIN backups' = DOMAIN backups /\ backups' = [key \in DOMAIN backups |-> backups'[key]]
      BY <2>1
    <3>5. \A key \in DOMAIN backups : /\ backups'[key] \in Files
                                     /\ backups'[key].started = backups[key].started
                                     /\ backups'[key].dump = backups[key].dump
      BY <3>1, <3>2, <3>3
    <3>6. backups' \in [1 .. Len(backups) -> Files]
      BY <1>2, <3>4, <3>5
    <3> QED
      BY <1>2, <3>4, <3>5, <3>6
  <2>3. Typed'
    BY <1>1, <2>1, <2>2 DEF BackupHolds, Typed, Jobs
  <2>4. DumpsAreRecent'
    BY <2>1, <2>2 DEF BackupHolds, DumpsAreRecent
  <2> QED
    BY <1>3, <1>4, <2>2, <2>3, <2>4 DEF BackupHolds
<1> QED
  BY <1>5, <1>6, <1>7

\* upload-and-await-crr.sh and the buckets: a copy that is there stays, and
\* stays as sound as it is.
LEMMA BucketStep ==
  ASSUME BackupHolds,
         \/ Await \/ FailUpload
         \/ \E key \in DOMAIN backups : PutBackup(key)
         \/ \E key \in Uploaded : Replicate(key) \/ ShowCopy(key)
  PROVE  BackupHolds'
<1>1. UNCHANGED <<commits, job, backups, restore, database, report>>
  BY DEF Await, PutMetadata, Poll, TimeOut, FailUpload, PutBackup, Replicate, ShowCopy,
     source, target
<1>2. /\ Uploaded \subseteq DOMAIN backups /\ DOMAIN backups \subseteq 1 .. MaxBackups
      /\ \A key \in DOMAIN backups : key \in Nat
      /\ ishikari \in [1 .. MaxBackups -> {"absent", "PENDING", "COMPLETED", "FAILED"}]
      /\ upload \in [at : {"idle", "put", "waiting"}, key : Nat, waits : 0 .. MaxWaits]
  BY CopiesAreBackups DEF BackupHolds, Typed
<1>3. ASSUME tokyo \subseteq tokyo', damaged' \cap tokyo \subseteq damaged
      PROVE  RestoreIsOrdered'
  BY <1>1, <1>3 DEF BackupHolds, RestoreIsOrdered, ReportedRestoreIsWhole, NoRestore,
     CopiesAreUploaded
<1>4. ASSUME upload' \in [at : {"idle", "put", "waiting"}, key : Nat, waits : 0 .. MaxWaits],
             ishikari' \in [1 .. MaxBackups -> {"absent", "PENDING", "COMPLETED", "FAILED"}]
      PROVE  Typed' /\ DumpsAreRecent'
  BY <1>1, <1>4 DEF BackupHolds, Typed, DumpsAreRecent
<1>5. CASE Await \/ FailUpload
  <2>1. /\ UNCHANGED <<ishikari, tokyo, damaged>>
        /\ upload' \in [at : {"idle", "put", "waiting"}, key : Nat, waits : 0 .. MaxWaits]
        /\ upload'.at # "idle" => upload.at # "idle" /\ upload'.key = upload.key
    <3>1. NoUpload \in [at : {"idle", "put", "waiting"}, key : Nat, waits : 0 .. MaxWaits]
      BY BackupAssumption DEF NoUpload, None
    <3>2. CASE TimeOut \/ FailUpload
      BY <3>1, <3>2 DEF TimeOut, FailUpload, NoUpload
    <3>3. CASE PutMetadata
      <4>1. /\ upload.at = "put" /\ UNCHANGED <<ishikari, tokyo, damaged>>
            /\ upload' = [upload EXCEPT !.at = "waiting", !.waits = MaxWaits]
        BY <3>3 DEF PutMetadata
      <4>2. MaxWaits \in 0 .. MaxWaits
        BY BackupAssumption
      <4> QED
        BY <1>2, <4>1, <4>2
    <3>4. CASE Poll
      <4>1. /\ upload.at = "waiting" /\ UNCHANGED <<ishikari, tokyo, damaged>>
            /\ upload' = NoUpload \/ upload' = [upload EXCEPT !.waits = @ - 1]
            /\ upload.waits - 1 \in 0 .. MaxWaits
        <5>1. /\ upload.at = "waiting" /\ upload.waits > 0
              /\ UNCHANGED <<ishikari, tokyo, damaged>>
              /\ upload' = NoUpload \/ upload' = [upload EXCEPT !.waits = @ - 1]
          BY <3>4 DEF Poll
        <5>2. upload.waits \in 0 .. MaxWaits
          BY <1>2
        <5> QED
          BY <5>1, <5>2, BackupAssumption
      <4> QED
        BY <1>2, <3>1, <4>1 DEF NoUpload
    <3> QED
      BY <1>5, <3>2, <3>3, <3>4 DEF Await
  <2>2. reported' \subseteq tokyo
    BY <1>5 DEF Await, PutMetadata, Poll, Replicated, TimeOut, FailUpload, BackupHolds,
       CopiesAreUploaded
  <2>3. CopiesAreUploaded'
    BY <1>1, <2>1, <2>2 DEF BackupHolds, CopiesAreUploaded, Uploaded
  <2> QED
    BY <1>2, <1>3, <1>4, <2>1, <2>3 DEF BackupHolds
<1>6. ASSUME NEW key \in DOMAIN backups, PutBackup(key)
      PROVE  BackupHolds'
  <2>1. /\ upload' = [at |-> "put", key |-> key, waits |-> 0]
        /\ ishikari' = [ishikari EXCEPT ![key] = "PENDING"]
        /\ UNCHANGED <<tokyo, damaged, reported>>
    BY <1>6 DEF PutBackup
  <2>2. Uploaded' = Uploaded \cup {key}
    BY <1>1, <1>2, <2>1 DEF Uploaded
  <2>3. CopiesAreUploaded'
    BY <2>1, <2>2 DEF BackupHolds, CopiesAreUploaded
  <2> QED
    BY <1>2, <1>3, <1>4, <2>1, <2>3, BackupAssumption DEF BackupHolds
<1>7. ASSUME NEW key \in Uploaded, Replicate(key)
      PROVE  BackupHolds'
  <2>1. /\ ishikari' \in [1 .. MaxBackups -> {"absent", "PENDING", "COMPLETED", "FAILED"}]
        /\ ishikari'[key] # "absent"
        /\ \A other \in 1 .. MaxBackups : other # key => ishikari'[other] = ishikari[other]
        /\ UNCHANGED <<upload, tokyo, damaged, reported>>
    BY <1>2, <1>7 DEF Replicate
  <2>2. Uploaded' = Uploaded
    BY <1>1, <1>2, <2>1 DEF Uploaded
  <2>3. CopiesAreUploaded'
    BY <2>1, <2>2 DEF BackupHolds, CopiesAreUploaded
  <2> QED
    BY <1>2, <1>3, <1>4, <2>1, <2>3 DEF BackupHolds
<1>8. ASSUME NEW key \in Uploaded, ShowCopy(key)
      PROVE  BackupHolds'
  <2>1. /\ key \notin tokyo /\ tokyo' = tokyo \cup {key}
        /\ damaged' \subseteq damaged \cup {key}
        /\ UNCHANGED <<upload, ishikari, reported>>
    BY <1>8 DEF ShowCopy
  <2>2. Uploaded' = Uploaded
    BY <1>1, <2>1 DEF Uploaded
  <2>3. CopiesAreUploaded'
    BY <2>1, <2>2 DEF BackupHolds, CopiesAreUploaded
  <2> QED
    BY <1>2, <1>3, <1>4, <2>1, <2>3 DEF BackupHolds
<1> QED
  BY <1>5, <1>6, <1>7, <1>8

\* restore-encrypted-backup.sh.
LEMMA TargetStep ==
  ASSUME BackupHolds,
         \/ \E key \in tokyo : OpenBackup(key)
         \/ RestoreTable \/ WriteReport \/ FailRestore \/ NewTarget
  PROVE  BackupHolds'
<1>1. UNCHANGED <<commits, job, backups, upload, uploads, ishikari, tokyo, damaged, reported>>
  BY DEF OpenBackup, RestoreTable, WriteReport, FailRestore, NewTarget, source, buckets
<1>2. \A key \in tokyo : key \in Nat /\ key # None
  BY CopiesAreBackups DEF BackupHolds
<1>3. /\ Tables \subseteq Nat \ {0}
      /\ \A table \in Tables, next \in Nat \ {0} : next <= table => next \in Tables
  BY BackupAssumption
<1>4. /\ restore \in [at : {"idle", "restoring"}, key : Nat, next : Nat]
      /\ database \in [Tables -> Nat] /\ report \in Nat
  BY DEF BackupHolds, Typed
<1>5. DumpsAreRecent' /\ CopiesAreUploaded'
  BY <1>1 DEF BackupHolds, DumpsAreRecent, CopiesAreUploaded, Uploaded
<1>6. ASSUME restore' \in [at : {"idle", "restoring"}, key : Nat, next : Nat],
             database' \in [Tables -> Nat], report' \in Nat
      PROVE  Typed'
  BY <1>1, <1>6 DEF BackupHolds, Typed
<1>7. CASE FailRestore
  <2>1. restore' = NoRestore /\ UNCHANGED <<database, report>>
    BY <1>7 DEF FailRestore
  <2>2. RestoreIsOrdered'
    BY <1>1, <2>1 DEF BackupHolds, RestoreIsOrdered, ReportedRestoreIsWhole, NoRestore
  <2> QED
    BY <1>4, <1>5, <1>6, <2>1, <2>2 DEF BackupHolds, NoRestore, None
<1>8. CASE NewTarget
  <2>1. /\ UNCHANGED restore /\ restore.at = "idle"
        /\ database' = [table \in Tables |-> None] /\ report' = None
    BY <1>8 DEF NewTarget
  <2>2. RestoreIsOrdered'
    BY <1>1, <2>1 DEF BackupHolds, RestoreIsOrdered, ReportedRestoreIsWhole, NoRestore
  <2> QED
    BY <1>4, <1>5, <1>6, <2>1, <2>2 DEF BackupHolds, None
<1>9. ASSUME NEW key \in tokyo, OpenBackup(key)
      PROVE  BackupHolds'
  <2>1. /\ key \in tokyo \ damaged /\ UNCHANGED <<database, report>>
        /\ restore' = [at |-> "restoring", key |-> key, next |-> 1]
    BY <1>9 DEF OpenBackup
  <2>2. RestoreIsOrdered'
    BY <1>1, <1>3, <2>1 DEF BackupHolds, RestoreIsOrdered, ReportedRestoreIsWhole
  <2> QED
    BY <1>2, <1>4, <1>5, <1>6, <2>1, <2>2 DEF BackupHolds
<1>10. CASE RestoreTable /\ database[restore.next] = None
  <2>1. /\ restore.at = "restoring" /\ restore.next \in Tables
        /\ database' = [database EXCEPT ![restore.next] = restore.key]
        /\ restore' = [restore EXCEPT !.next = @ + 1] /\ UNCHANGED report
    BY <1>10 DEF RestoreTable
  <2>2. /\ restore'.at = "restoring" /\ restore'.key = restore.key
        /\ restore'.next = restore.next + 1 /\ restore.key \in tokyo \ damaged
        /\ restore' \in [at : {"idle", "restoring"}, key : Nat, next : Nat]
    BY <1>4, <2>1 DEF BackupHolds, RestoreIsOrdered
  <2>3. /\ database' \in [Tables -> Nat]
        /\ database'[restore.next] = restore.key
        /\ \A table \in Tables \ {restore.next} : database'[table] = database[table]
    BY <1>4, <2>1
  <2>4. \A table \in Tables : table < restore.next + 1 => database'[table] = restore.key
    <3>1. \A table \in Tables : table < restore.next + 1 =>
            table < restore.next \/ table = restore.next
      BY <1>3, <1>4
    <3> QED
      BY <2>1, <2>3, <3>1 DEF BackupHolds, RestoreIsOrdered
  <2>5. report = None \/ Tables = {}
    BY <1>10, <2>1 DEF BackupHolds, RestoreIsOrdered, ReportedRestoreIsWhole
  <2>6. /\ restore'.next # 0
        /\ \A table \in Tables : restore'.next \in Tables \/ table < restore'.next
    <3>1. restore.next + 1 \in Nat \ {0}
      BY <1>4
    <3>2. \A table \in Tables : restore.next + 1 <= table \/ table < restore.next + 1
      BY <1>3, <3>1
    <3> QED
      BY <1>3, <2>2, <3>1, <3>2
  <2>7. \A table \in Tables : database'[table] \in (tokyo \ damaged) \cup {None}
    BY <2>1, <2>2, <2>3 DEF BackupHolds, RestoreIsOrdered
  <2>8. RestoreIsOrdered'
    BY <1>1, <2>1, <2>2, <2>4, <2>5, <2>6, <2>7
       DEF BackupHolds, RestoreIsOrdered, ReportedRestoreIsWhole
  <2> QED
    BY <1>4, <1>5, <1>6, <2>1, <2>2, <2>3, <2>8 DEF BackupHolds
<1>11. CASE RestoreTable /\ database[restore.next] # None
  <2>1. restore' = NoRestore /\ UNCHANGED <<database, report>>
    BY <1>11 DEF RestoreTable
  <2>2. RestoreIsOrdered'
    BY <1>1, <2>1 DEF BackupHolds, RestoreIsOrdered, ReportedRestoreIsWhole, NoRestore
  <2> QED
    BY <1>4, <1>5, <1>6, <2>1, <2>2 DEF BackupHolds, NoRestore, None
<1>12. CASE WriteReport
  <2>1. /\ restore.at = "restoring" /\ restore.next \notin Tables
        /\ restore' = NoRestore /\ report' = restore.key /\ UNCHANGED database
    BY <1>12 DEF WriteReport
  <2>2. \A table \in Tables : table < restore.next
    BY <1>3, <1>4, <2>1 DEF BackupHolds, RestoreIsOrdered
  <2>3. \A table \in Tables : database[table] = restore.key
    BY <2>1, <2>2 DEF BackupHolds, RestoreIsOrdered
  <2>4. RestoreIsOrdered'
    BY <1>1, <2>1, <2>3 DEF BackupHolds, RestoreIsOrdered, ReportedRestoreIsWhole, NoRestore
  <2> QED
    BY <1>4, <1>5, <1>6, <2>1, <2>4 DEF BackupHolds, NoRestore, None
<1> QED
  BY <1>7, <1>8, <1>9, <1>10, <1>11, <1>12 DEF RestoreTable

(***************************************************************************)
(* The inductive invariant of the backup, for every number of tables,      *)
(* backups, uploads and polls.                                             *)
(***************************************************************************)
THEOREM BackupIsSound == Spec => []BackupHolds
<1>1. BackupHolds /\ [Next]_vars => BackupHolds'
  <2>1. CASE UNCHANGED vars
    BY <2>1 DEF vars, source, buckets, target, BackupHolds, Typed, DumpsAreRecent,
       CopiesAreUploaded, Uploaded, RestoreIsOrdered, ReportedRestoreIsWhole
  <2> QED
    BY <2>1, SourceStep, BucketStep, TargetStep DEF Next
<1> QED
  BY <1>1, BackupInit, PTL DEF Spec

(***************************************************************************)
(* Types, and that nothing is in Tokyo that was not uploaded.              *)
(***************************************************************************)
THEOREM BackupTypeCorrect == Spec => []TypeOK
<1>1. BackupHolds => TypeOK
  <2> SUFFICES ASSUME BackupHolds PROVE TypeOK
    OBVIOUS
  <2>1. job.at \in {"idle", "stamped", "dumped", "sealed"}
    BY DEF BackupHolds, Typed, Jobs
  <2> QED
    BY <2>1 DEF BackupHolds, Typed, CopiesAreUploaded, RestoreIsOrdered, NoRestore, TypeOK
<1> QED
  BY <1>1, BackupIsSound, PTL

(***************************************************************************)
(* upload-and-await-crr.sh: what it has reported is in Tokyo, whatever the *)
(* replication does and whichever call or poll fails; and the copy holds   *)
(* every change before the time of its manifest, unless it is damaged:     *)
(* then no restore takes anything from it.                                 *)
(***************************************************************************)
THEOREM ReportedIsInTokyo == Spec => []ReportedIsWholeOrRefused
<1>1. BackupHolds => ReportedIsWholeOrRefused
  <2> SUFFICES ASSUME BackupHolds, NEW key \in reported
               PROVE  /\ key \in tokyo /\ backups[key].dump >= backups[key].started
                      /\ key \in damaged => \A table \in Tables : database[table] # key
    BY DEF ReportedIsWholeOrRefused
  <2>1. key \in tokyo /\ key \in DOMAIN backups /\ key # None
    BY CopiesAreBackups DEF BackupHolds, CopiesAreUploaded
  <2>2. backups[key] \in Files
    BY <2>1 DEF BackupHolds, Typed
  <2>3. backups[key].dump >= backups[key].started
    BY <2>1, <2>2 DEF BackupHolds, DumpsAreRecent, Files
  <2>4. \A table \in Tables : database[table] # key \/ key \notin damaged
    BY <2>1 DEF BackupHolds, RestoreIsOrdered
  <2> QED
    BY <2>1, <2>3, <2>4
<1> QED
  BY <1>1, BackupIsSound, PTL

(***************************************************************************)
(* restore-encrypted-backup.sh: its report names the one sound backup from *)
(* which every table was restored, for every number of tables and however  *)
(* many restores have failed in the same database.                         *)
(***************************************************************************)
THEOREM RestoresAreWhole == Spec => []ReportedRestoreIsWhole
<1>1. BackupHolds => ReportedRestoreIsWhole
  BY DEF BackupHolds, RestoreIsOrdered
<1> QED
  BY <1>1, BackupIsSound, PTL
-----------------------------------------------------------------------------
(***************************************************************************)
(* The drill.  Whose databases are open for writing at which step.         *)
(***************************************************************************)
BeforeIsolation == {"snapshot", "declared", "disaster"}

OneUp ==
  /\ drills \in Nat /\ primary \in 0 .. drills /\ recovery \in 0 .. drills
  /\ pc \in BeforeIsolation \cup RestoreSteps \cup {"idle", "isolated"}
  /\ pc \in RestoreSteps \cup {"isolated"} => primary = NoDrill
  /\ OnePrimary

\* A drill that exits may leave its clusters, and opens none.
LEMMA EndOpensNone ==
  ASSUME OneUp, End
  PROVE  OneUp'
<1>1. /\ pc' = "idle" /\ UNCHANGED drills
      /\ primary' \in {NoDrill, primary} /\ recovery' \in {NoDrill, recovery}
  BY DEF End, Cleanup, Without
<1>2. OnePrimary'
  BY <1>1 DEF OneUp, OnePrimary, RestoreSteps
<1> QED
  BY <1>1, <1>2 DEF OneUp, RestoreSteps, NoDrill

LEMMA OneUpNext ==
  ASSUME OneUp, [DrillNext]_drillVars
  PROVE  OneUp'
<1> USE DEF OneUp, OnePrimary, BeforeIsolation, RestoreSteps, NoDrill
<1>1. CASE SetClock \/ UNCHANGED drillVars
  BY <1>1 DEF SetClock, drillVars
<1>2. CASE Fail \/ PublishLatest
  BY <1>2, EndOpensNone DEF Fail, PublishLatest
<1>3. CASE Start
  BY <1>3 DEF Start
<1>4. CASE Declare \/ DeclareEpoch
  BY <1>4 DEF Declare, DeclareEpoch, Note
<1>5. CASE Isolate
  BY <1>5 DEF Isolate, Note
<1>6. CASE StartRestore
  BY <1>6 DEF StartRestore, Note
<1>7. CASE Restore \/ Accept \/ AcceptEpoch \/ Switch
  BY <1>7 DEF Restore, Accept, AcceptEpoch, Switch, Note
<1>8. CASE SealEvidence \/ PublishArtifact \/ PublishEvidence
  BY <1>8 DEF SealEvidence, PublishArtifact, PublishEvidence
<1> QED
  BY <1>1, <1>2, <1>3, <1>4, <1>5, <1>6, <1>7, <1>8 DEF DrillNext

(***************************************************************************)
(* The recovery database is opened, for the restore, only after the        *)
(* immediate stop of the primary that it is restored from, and a drill     *)
(* restores into a database of its own: for every number of drills, which  *)
(* ever commands of them fail and whichever clusters they leave.           *)
(***************************************************************************)
THEOREM DrillHasOnePrimary == DrillSpec => []OnePrimary
<1>1. DrillInit => OneUp
  BY DEF DrillInit, OneUp, OnePrimary, RestoreSteps, NoDrill
<1>2. OneUp => OnePrimary
  BY DEF OneUp
<1> QED
  BY <1>1, <1>2, OneUpNext, PTL DEF DrillSpec
-----------------------------------------------------------------------------
(***************************************************************************)
(* The evidence.  Times are numbers, and what was sealed once has passed   *)
(* validate of seal-failover-evidence.py.                                  *)
(***************************************************************************)
Times == DOMAIN NoTimes

Ordered(candidate) ==
  LET t == candidate.timeline
  IN /\ t["snapshot"] <= t["isolated"] /\ t["isolated"] <= t["restoreStarted"]
     /\ t["restoreCompleted"] <= t["accepted"] /\ t["accepted"] <= t["switched"]
     /\ candidate.rpo <= MaxRpo

\* A file, or none, that tells of an acceptance only in order.
Tells(file) ==
  file = <<>> \/ \E e : file = <<e>> /\ (e.status = "accepted" => Ordered(e.hash))
Keeps(file) == file = <<>> \/ \E c : file = <<c>> /\ Ordered(c)

SealedIsOrdered ==
  /\ now \in Int /\ noted \in [Times -> Int]
  /\ Keeps(sealed.artifact) /\ Tells(sealed.evidence)
  /\ Keeps(published.artifact) /\ Tells(published.evidence) /\ Tells(published.latest)
  /\ DOMAIN published = {"artifact", "evidence", "latest"}

LEMMA StepsHaveTimes ==
  /\ {"snapshot", "declared", "disaster", "isolated", "restoreStarted", "restoreCompleted",
      "accepted", "success", "switched"} \subseteq Times
  /\ NoTimes \in [Times -> Int]
BY DEF Times, NoTimes, Timeline, ToSet

\* The timeline is ascending when each step is not before the one before it.
LEMMA AscendingTimeline ==
  ASSUME NEW t \in [Times -> Int], InOrder(t)
  PROVE  /\ t["snapshot"] <= t["isolated"] /\ t["isolated"] <= t["restoreStarted"]
         /\ t["restoreCompleted"] <= t["accepted"] /\ t["accepted"] <= t["switched"]
<1> DEFINE times == [i \in DOMAIN Timeline |-> t[Timeline[i]]]
<1>1. /\ DOMAIN Timeline = 1 .. 6
      /\ times[1] = t["declared"] /\ times[2] = t["isolated"] /\ times[3] = t["restoreStarted"]
      /\ times[4] = t["restoreCompleted"] /\ times[5] = t["accepted"] /\ times[6] = t["switched"]
  BY DEF Timeline
<1>2. times \in [1 .. 6 -> Int] /\ Len(times) = 6
  <2>1. \A i \in 1 .. 6 : times[i] \in Int
    BY <1>1, StepsHaveTimes
  <2> QED
    BY <1>1, <2>1
<1>3. \A i \in 2 .. 6 : times[i - 1] <= times[i]
  BY <1>2 DEF InOrder, Ascending
<1>4. times[1] <= times[2] /\ times[2] <= times[3] /\ times[4] <= times[5] /\ times[5] <= times[6]
  BY <1>3
<1>5. t["snapshot"] <= t["declared"]
  BY DEF InOrder
<1> HIDE DEF times
<1> QED
  BY <1>1, <1>4, <1>5, StepsHaveTimes

LEMMA SealOrders ==
  ASSUME MaxRpo \in Nat, SealedIsOrdered, SealEvidence
  PROVE  Keeps(sealed'.artifact) /\ Tells(sealed'.evidence)
<1>1. PICK commander \in Subjects, lead \in Subjects :
        sealed' \in {SealedBy(Candidate(commander, lead)), Unsealed}
  BY DEF SealEvidence
<1> DEFINE c == Candidate(commander, lead)
<1>2. CASE sealed' = SealedBy(c) /\ Validate(c)
  <2>1. c.timeline = noted /\ noted \in [Times -> Int]
    BY DEF Candidate, SealedIsOrdered
  <2>2. InOrder(noted) /\ c.rpo <= MaxRpo
    BY <1>2, <2>1 DEF Validate
  <2>3. Ordered(c)
    BY <2>1, <2>2, AscendingTimeline DEF Ordered
  <2>4. /\ sealed'.artifact = <<c>>
        /\ sealed'.evidence = <<[status |-> "accepted", hash |-> c]>>
    BY <1>2 DEF SealedBy
  <2> HIDE DEF c
  <2>5. Keeps(sealed'.artifact)
    BY <2>3, <2>4 DEF Keeps
  <2>6. Tells(sealed'.evidence)
    BY <2>3, <2>4 DEF Tells
  <2> QED
    BY <2>5, <2>6
<1>3. CASE sealed' = Unsealed \/ (sealed' = SealedBy(c) /\ ~Validate(c))
  BY <1>3 DEF SealedBy, Unsealed, Keeps, Tells
<1> QED
  BY <1>1, <1>2, <1>3

\* A drill that exits forgets its files, and its summary is its evidence or a
\* rejection.
LEMMA EndForgets ==
  ASSUME SealedIsOrdered, End, published' \in {published, [published EXCEPT !.latest = Summary]}
  PROVE  SealedIsOrdered'
<1>1. UNCHANGED now /\ noted' = NoTimes /\ sealed' = Unsealed
  BY DEF End
<1>2. Tells(Summary)
  BY DEF Summary, SealedIsOrdered, Tells
<1>3. /\ DOMAIN published' = {"artifact", "evidence", "latest"}
      /\ published'.artifact = published.artifact /\ published'.evidence = published.evidence
      /\ published'.latest \in {published.latest, Summary}
  BY DEF SealedIsOrdered
<1>4. Keeps(sealed'.artifact) /\ Tells(sealed'.evidence)
  BY <1>1 DEF Unsealed, Keeps, Tells
<1> QED
  BY <1>1, <1>2, <1>3, <1>4, StepsHaveTimes DEF SealedIsOrdered, Keeps, Tells, Ordered

LEMMA SealedIsOrderedNext ==
  ASSUME MaxRpo \in Nat, SealedIsOrdered, [DrillNext]_drillVars
  PROVE  SealedIsOrdered'
<1> USE DEF SealedIsOrdered, Keeps, Tells, Ordered
<1>1. CASE SetClock \/ UNCHANGED drillVars
  BY <1>1 DEF SetClock, drillVars
<1>2. CASE Start
  <2>1. noted' \in [Times -> Int] /\ UNCHANGED <<now, sealed, published>>
    BY <1>2, StepsHaveTimes DEF Start
  <2> QED
    BY <2>1
<1>3. ASSUME NEW from, NEW step, Note(from, step)
      PROVE  SealedIsOrdered'
  BY <1>3 DEF Note
<1>4. CASE SealEvidence
  <2>1. UNCHANGED <<now, noted, published>>
    BY <1>4 DEF SealEvidence
  <2> QED
    BY <1>4, <2>1, SealOrders
<1>5. CASE PublishArtifact \/ PublishEvidence
  <2>1. UNCHANGED <<now, noted, sealed>>
    BY <1>5 DEF PublishArtifact, PublishEvidence
  <2>2. /\ DOMAIN published' = {"artifact", "evidence", "latest"}
        /\ published'.artifact \in {published.artifact, sealed.artifact}
        /\ published'.evidence \in {published.evidence, sealed.evidence}
        /\ published'.latest = published.latest
    BY <1>5 DEF PublishArtifact, PublishEvidence
  <2> QED
    BY <2>1, <2>2
<1>6. CASE Fail \/ PublishLatest
  BY <1>6, EndForgets DEF Fail, PublishLatest
<1>7. DrillNext =>
        \/ SetClock \/ Fail \/ Start \/ \E from, step : Note(from, step)
        \/ SealEvidence \/ PublishArtifact \/ PublishEvidence
        \/ PublishLatest
  BY DEF DrillNext, Declare, DeclareEpoch, Isolate, StartRestore,
     Restore, Accept, AcceptEpoch, Switch
<1> QED
  BY <1>1, <1>2, <1>3, <1>4, <1>5, <1>6, <1>7

(***************************************************************************)
(* What the evidence directory calls accepted was in order and within the  *)
(* objective, for every number of drills, wherever they fail, and every    *)
(* way the clock is set during them: a file of it is only ever replaced by *)
(* one that passed the seal, or by a rejection.                            *)
(***************************************************************************)
THEOREM EvidenceIsOrdered ==
  ASSUME MaxRpo \in Nat
  PROVE  DrillSpec => []PublishedIsOrdered
<1>1. DrillInit => SealedIsOrdered
  BY StepsHaveTimes DEF DrillInit, Unsealed, Nothing, SealedIsOrdered, Keeps, Tells
<1>2. SealedIsOrdered /\ [DrillNext]_drillVars => SealedIsOrdered'
  BY SealedIsOrderedNext
<1>3. SealedIsOrdered => PublishedIsOrdered
  <2> SUFFICES ASSUME SealedIsOrdered, NEW c \in Told
               PROVE  Ordered(c)
    BY DEF PublishedIsOrdered, Ordered
  <2>1. CASE c \in ToSet(published.artifact)
    BY <2>1 DEF ToSet, SealedIsOrdered, Keeps
  <2>2. CASE \E e \in ToSet(published.evidence \o published.latest) :
               e.status = "accepted" /\ c = e.hash
    <3>1. PICK e \in ToSet(published.evidence \o published.latest) :
            e.status = "accepted" /\ c = e.hash
      BY <2>2
    <3>2. e \in ToSet(published.evidence) \/ e \in ToSet(published.latest)
      BY <3>1 DEF ToSet, SealedIsOrdered, Tells
    <3> QED
      BY <3>1, <3>2 DEF ToSet, SealedIsOrdered, Tells
  <2> QED
    BY <2>1, <2>2 DEF Told
<1> QED
  BY <1>1, <1>2, <1>3, PTL DEF DrillSpec
=============================================================================
