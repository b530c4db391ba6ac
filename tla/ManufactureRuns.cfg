\* Two orders in two versions, two pushes; the order may expire while its run waits.
SPECIFICATION Spec
CHECK_DEADLOCK FALSE
CONSTANTS
  Ids = {1, 2}
  Versions = {1, 2}
  Risks = {"normal"}
  Files <- MCFiles
  Scope <- MCScope
  Prohibited <- MCProhibited
  NoOrder = NoOrder
  MaxCommits = 3
  MaxNow = 1
INVARIANTS
  PublishedIsInScope
  HonestWorkIsWhole
PROPERTIES
  StartsAreCurrent
