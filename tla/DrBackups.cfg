\* Two backups, an upload repeated, and restores that fail.
SPECIFICATION FairSpec
CHECK_DEADLOCK FALSE
CONSTANTS
  Tables = {1, 2}
  MaxWaits = 1
  MaxCommits = 2
  MaxBackups = 2
  MaxUploads = 3
INVARIANTS
  ReportedIsWholeOrRefused
  ReportedRestoreIsWhole
PROPERTY
  UploadEnds
