\* Every request is answered, as the abstract specifications say.
SPECIFICATION FairSpec
CONSTANTS
  t1 = t1
  t2 = t2
  owner = owner
  reviewer = reviewer
  q1 = q1
  q2 = q2
  text1 = text1
  text2 = text2
  k1 = k1
  k2 = k2
  Null = Null
  Tenants = {t1, t2}
  Subjects = {owner, reviewer}
  QuestionIds = {q1}
  Contents = {text1, text2}
  Keys = {k1}
  Instants <- OneInstant
  Requests = {r1, r2, r3, r4}
  RetentionTime = 1
  Commands <- WaitingCommands
  MaxInFlight = 3
  MaxFailures = 0
PROPERTIES
  EveryRequestIsAnswered
  LedgerSpec
  ContractSpec
CHECK_DEADLOCK FALSE
