\* Two chains over two heads; jobs fail anywhere, and main moves.
SPECIFICATION Spec
CHECK_DEADLOCK FALSE
CONSTANTS
  Checks = {build}
  Chains = {c1, c2}
  Kinds = {"clean", "findings", "blocking", "inconsistent", "other-commit"}
  ReviewsFail = TRUE
  JobsFail = TRUE
  MaxLevels = 5
  MaxHead = 2
  MaxTip = 2
SYMMETRY ChainSymmetry
INVARIANTS
  RecordsAreGated
PROPERTIES
  AcceptanceIsEarned
