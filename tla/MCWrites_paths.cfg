SPECIFICATION FairSpec
CONSTANTS
  r1 = r1  r2 = r2  t1 = t1  t2 = t2  None = None  Keep = Keep
  Requests = {r1, r2}
  Children = {1, 2, 3}
  Parents = {11, 12}
  Tenants = {t1, t2}
  Asks <- Menu
  Configs <- Systems
  InitRow <- Found
  PageSize = 1
  Retries = 2
  MaxFaults = 1
INVARIANTS IInv RollupExact HistoryExact AnswerIsTrue NoWaitCycle
PROPERTIES NoLostUpdate ScopeHeld LockRespected NoChildLeftBehind EveryRequestEnds
CHECK_DEADLOCK FALSE
