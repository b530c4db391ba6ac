\* Two findings in Phase C: reviews, corrections and records in any order.
SPECIFICATION LifecycleSpec
CHECK_DEADLOCK FALSE
CONSTANTS
  Severity <- TwoSeverities
  Phase = "C"
  MaxIterations = 1
  Organizers = {"organizer"}
  Outsiders = {"codex"}
  MaxBranchHead = 3
  MaxMoves = 5
  MaxDay = 2
INVARIANTS
  VerifiedWasFixed
  CorrectionsAreBounded
  LedgerIsLinked
