SPECIFICATION FairSpec
CONSTANTS
  r1 = r1  r2 = r2  r3 = r3  p = p  q = q  shared = shared
  b1 = b1  b2 = b2  None = None
  Requests = {r1, r2, r3}
  Replicas = {p, q}
  At <- TwoReplicas
  Body <- Bodies
  StoreAt <- SharedPlace
  LockAt <- Own
  Waits = TRUE
  MaxErrors = 1
  MaxExpiries = 1
  MaxLockErrors = 1
  MaxCrashes = 1
INVARIANTS OneExecution AnswerIsForBody AnswerIsDurable
PROPERTIES EveryoneAnswered
CHECK_DEADLOCK FALSE
