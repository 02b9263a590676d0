SPECIFICATION FairSpec
CONSTANTS
  a = a  b = b  c = c  r1 = r1  r2 = r2  K = K  NoKey = NoKey  None = None
  Events = {a, b}
  Relayers = {r1, r2}
  KeyOf <- KeyOfEvents
  Created <- CreatedAt
  Poison = {b}
  OrderedByKey = TRUE
  MaxAttempts = 2
  BatchSize = 2
  HasDLQ = TRUE
  MaxFails = 3
  MaxLost = 1
  MaxHalts = 1
  MaxLapses = 1
INVARIANTS NothingDropped
PROPERTIES EventuallyResolved
CHECK_DEADLOCK FALSE
