SPECIFICATION AnySpec
CONSTANTS
  c1 = c1
  c2 = c2
  ca = ca
  client = client
  d1 = d1
  host = host
  kst = kst
  n1 = n1
  o1 = o1
  r1 = r1
  r2 = r2
  u1 = u1
  u2 = u2
  w1 = w1
  wst = wst
  Runs = {r1}
  Commands = {c1}
  Owners = {client, host}
  Host = host
  RunOf <- OneRun
  Good = {c1}
  Limit = 1
  Notified = {}
  MaxClaims = 1
INVARIANTS
  RecoverySafe
PROPERTIES
  OperationsEnd
CHECK_DEADLOCK FALSE
