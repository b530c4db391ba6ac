\* Every set-up, two heads with a review or one with two.
SPECIFICATION Spec
CHECK_DEADLOCK FALSE
CONSTANTS
  People = {"org", "alice"}
  Organizers = {"org"}
  Contents <- FourContents
  Planes <- FivePlanes
  MaxHead = 2
  MaxEvents = 3
INVARIANTS
  GreenIsSigned
