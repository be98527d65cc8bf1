SPECIFICATION AnySpec
CONSTANTS
  ab = ab
  ax = ax
  bc = bc
  bx = bx
  cd = cd
  d1 = d1
  d2 = d2
  e1 = e1
  e2 = e2
  ha = ha
  hb = hb
  hc = hc
  hx = hx
  k1 = k1
  k2 = k2
  o1 = o1
  o2 = o2
  s1 = s1
  s2 = s2
  w1 = w1
  MaxAttempts = 2
  LeaseTicks = 1
  Delays = {0, 1}
  Results = {r1}
  Pumps = {p1, p2}
  Consumers = {c1, c2}
  MaxOrders = 1
  MaxRevision = 3
  None = None
SYMMETRY Symmetry
INVARIANTS
  StoredBeforeAcked
  DeliveredWasHandled
  NoticesSafe
PROPERTIES
  DeliveredForever
  CallsSafe
CHECK_DEADLOCK FALSE
