SPECIFICATION Spec
CONSTANTS
  a = a  b = b  c = c  r1 = r1  r2 = r2  K = K  NoKey = NoKey  None = None
  Events = {a, b, c}
  Relayers = {r1, r2}
  KeyOf <- KeyOfEvents
  Created <- CreatedAt
  Poison = {}
  OrderedByKey = TRUE
  MaxAttempts = 2
  BatchSize = 2
  HasDLQ = TRUE
  MaxFails = 3
  MaxLost = 1
  MaxHalts = 1
  MaxLapses = 0
INVARIANTS OneRelayerPerRow HeldStaysClaimable
PROPERTIES OrderKept ImplementsFeed
CHECK_DEADLOCK FALSE
