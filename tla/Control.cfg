SPECIFICATION AnySpec
CONSTANTS
  c1 = c1
  c2 = c2
  c3 = c3
  client = client
  e1 = e1
  e2 = e2
  e3 = e3
  host = host
  o1 = o1
  o2 = o2
  o3 = o3
  r1 = r1
  Ops = {o1, o2}
  Cancels = {c3}
  MaxLease = 2
  Started = "adopted"
SYMMETRY Symmetry
INVARIANTS
  GatesAgree
PROPERTIES
  InstancesAgree
CHECK_DEADLOCK FALSE
