\* Two questions and six requests, across the expiry of a key.
SPECIFICATION Spec
CONSTANTS
  t1 = t1
  t2 = t2
  owner = owner
  reviewer = reviewer
  q1 = q1
  q2 = q2
  text1 = text1
  text2 = text2
  k1 = k1
  k2 = k2
  Null = Null
  Tenants = {t1, t2}
  Subjects = {owner, reviewer}
  QuestionIds = {q1, q2}
  Contents = {text1, text2}
  Keys = {k1}
  Instants <- TwoInstants
  Requests = {r1, r2, r3, r4, r5, r6}
  RetentionTime = 1
  Commands <- InMemoryCommands
SYMMETRY Symmetry
INVARIANTS
  EveryVersionIsAudited
PROPERTIES
  ContractSpec
CHECK_DEADLOCK FALSE
