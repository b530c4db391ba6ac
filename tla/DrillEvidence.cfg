\* Two drills, a clock that is set, a failure between any two steps and clusters
\* that are left.
SPECIFICATION DrillSpec
CHECK_DEADLOCK FALSE
CONSTANTS
  Subjects = {commander, lead}
  MaxRpo = 0
  MaxNow = 2
  MaxDrills = 2
INVARIANTS
  OnePrimary
  PublishedIsOrdered
