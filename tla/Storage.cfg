SPECIFICATION AnySpec
CONSTANTS
  Runs = {r1, r2}
  Operators = {u1, u2}
  Edges <- OneEdge
  MaxWrites = 4
  MaxRevision = 5
  MaxCrashes = 1
  d1 = d1
  d2 = d2
  kst = kst
  n1 = n1
  n2 = n2
  o1 = o1
  o2 = o2
  r1 = r1
  r2 = r2
  state = state
  u1 = u1
  u2 = u2
  va = va
  vb = vb
  vc = vc
  wait = wait
  wst = wst
SYMMETRY Symmetry
PROPERTIES
  HandoffSafe
  RetentionSafe
  DisposalSafe
CHECK_DEADLOCK FALSE
