\* Four requests from the life of a question, two at a time, across the
\* expiry of the stored answer, with another tenant and one lost answer.
SPECIFICATION Spec
CONSTANTS
  t1 = t1
  t2 = t2
  owner = owner
  reviewer = reviewer
  q1 = q1
  q2 = q2
  text1 = text1
  text2 = text2
  k1 = k1
  k2 = k2
  Null = Null
  Tenants = {t1, t2}
  Subjects = {owner, reviewer}
  QuestionIds = {q1}
  Contents = {text1, text2}
  Keys = {k1}
  Instants <- TwoInstants
  Requests = {r1, r2, r3, r4}
  RetentionTime = 1
  Commands <- StoreCommands
  MaxInFlight = 2
  MaxFailures = 1
SYMMETRY Symmetry
INVARIANTS
  TypeOK
  DecisionIsCurrent
  LawfulHistory
  NoLostUpdate
  TablesAgree
  PublicIsReviewed
  AnswersAreTrue
  StoredAnswersAreCommitted
  ApprovedOnce
  TenantIsolation
PROPERTIES
  RetryIsNotRefused
CHECK_DEADLOCK FALSE
