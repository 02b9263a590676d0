SPECIFICATION Spec
CONSTANTS
  x = x  y = y  z = z  r1 = r1  r2 = r2  k0 = k0  k1 = k1  n1 = n1  n2 = n2
  None = None
  Rows = {x, y, z}
  Present = {x, y}
  Lists = {y}
  Nullable = {z}
  Requests = {r1, r2}
  Keys = {k0, k1, n1, n2}
  Key <- KeyOf
  Had <- HadKeys
  Asks <- Menu
  MaxFaults = 1
INVARIANTS NoDangling NoOrphans
CHECK_DEADLOCK FALSE
