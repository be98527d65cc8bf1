SPECIFICATION AnySpec
CONSTANTS
  None = None
  b1 = b1
  b2 = b2
  ca = ca
  cb = cb
  e1 = e1
  n3 = n3
  s3 = s3
  v3 = v3
  p1 = p1
  p2 = p2
  w1 = w1
  w2 = w2
  Leases = {l1, l2}
  Duration = 1
  MaxWall = 4
  MaxMark = 2
SYMMETRY Symmetry
INVARIANTS
  NeverRevived
  SupervisorsSafe
  EpisodesSafe
PROPERTIES
  CountsDown
  AdmittedInTime
  HostSafe
CHECK_DEADLOCK FALSE
