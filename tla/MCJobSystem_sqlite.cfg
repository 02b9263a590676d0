SPECIFICATION Spec
CONSTANTS
  a = a  b = b  c = c  d = d  p = p  q = q
  s1 = s1  s2 = s2  s3 = s3  K = K  NoKey = NoKey  NoJob = NoJob
  Jobs = {a, b}
  Procs = {p, q}
  Slots = {s1, s2, s3}
  DLQIds = {}
  MaxRetry <- TwoTries
  Handled <- AllHandled
  Undecodable <- NoneUndecodable
  HandlesDLQ = {}
  IsPG = FALSE
  MaxUnhandled = 1
  MaxCrashes = 1
  MaxLost = 1
  MaxStale = 0
  GroupOf <- GroupOfJobs
  Rank <- RankOfJobs
  ProcOf <- ProcOfSlots
INVARIANTS IInv HandlersExclusive RunBudget
PROPERTIES FinishedStays ImplementsLifecycle
