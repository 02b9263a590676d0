SPECIFICATION FairSpec
CONSTANTS
  s = s  w = w
  Clients = {s, w}
  SSE = {s}
  SendBuffer = 1
  ResumeBuffer = 2
  Interests <- OneOrOther
  MaxConnections = 1
  MaxEvents <- Bursts
  MaxRestarts = 1
INVARIANTS NoSilentGap CapHolds NoneLeftOpen
PROPERTIES ShutdownEnds
CHECK_DEADLOCK FALSE
