\* A full queue and the first denial of a window.
SPECIFICATION Spec
CONSTANTS
  Null = Null
  Requests = {r1, r2, r3}
  Sources = {s1}
  Instants <- OneInstant
  Minute = 1
  QueueCapacity = 1
  WindowsBeforeTrim = 2
  MaxRestarts = 0
SYMMETRY Symmetry
INVARIANTS
  WindowKeepsItsFirst
CHECK_DEADLOCK FALSE
