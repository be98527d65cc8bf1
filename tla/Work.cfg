SPECIFICATION AnySpec
CONSTANTS
  d1 = d1
  d2 = d2
  d3 = d3
  e1 = e1
  e2 = e2
  e3 = e3
  r1 = r1
  r2 = r2
  r3 = r3
  r4 = r4
  Execs = {e3}
  Runtimes = {r3, r4}
  Drivers = {d3}
  Home <- OwnHomes
  Capacity = 1
  MaxFence = 2
  MaxRev = 3
  Oversized = {}
SYMMETRY Symmetry
INVARIANTS
  SettlementSafe
PROPERTIES
  OneResultEach
  InstancesSafe
CHECK_DEADLOCK FALSE
