SPECIFICATION FairSpec
CONSTANTS
  a = a  b = b  P = P  Q = Q  s1 = s1  s2 = s2  s3 = s3
  m1 = m1  m2 = m2  NoJob = NoJob  NoMsg = NoMsg
  Jobs = {a, b}
  Msgs = {m1, m2}
  Procs = {P, Q}
  Slots = {s1, s2, s3}
  WithBackoff = {b}
  MaxUnhandled = 1
  MaxFaults = 1
  MaxStale = 1
  ProcOf <- MCProcOf
  Handled <- LessAbleQ
  MaxRetry <- TwoTries
INVARIANTS NoneForgotten
PROPERTIES ImplementsLifecycle EventuallySettled
CHECK_DEADLOCK FALSE
