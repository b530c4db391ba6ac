\* Windows that open, are trimmed and are met again after a restart.
SPECIFICATION FairSpec
CONSTANTS
  Null = Null
  Requests = {r1, r2, r3}
  Sources = {s1}
  Instants <- ThreeInstants
  Minute = 1
  QueueCapacity = 1
  WindowsBeforeTrim = 2
  MaxRestarts = 1
INVARIANTS
  OneRowPerWindow
  OnePassPerWindow
  EveryDenialIsCounted
PROPERTIES
  EveryEnvelopeIsHandled
CHECK_DEADLOCK FALSE
