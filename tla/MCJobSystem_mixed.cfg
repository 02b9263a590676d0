SPECIFICATION FairSpec
CONSTANTS
  a = a  b = b  c = c  d = d  p = p  q = q
  s1 = s1  s2 = s2  s3 = s3  K = K  NoKey = NoKey  NoJob = NoJob
  Jobs = {c, d}
  Procs = {p, q}
  Slots = {s1, s3}
  DLQIds = {d}
  MaxRetry <- TwoTries
  Handled <- LessAbleQ
  Undecodable <- BlindQ
  HandlesDLQ = {p, q}
  IsPG = FALSE
  MaxUnhandled = 2
  MaxCrashes = 1
  MaxLost = 1
  MaxStale = 0
  GroupOf <- GroupOfJobs
  Rank <- RankOfJobs
  ProcOf <- ProcOfSlots
INVARIANTS SuccessIsKept HandlerDeathIsRouted
PROPERTIES HandedOnBeforeDeath EventuallyFinished
