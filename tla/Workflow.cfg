SPECIFICATION AnySpec
CONSTANTS
  f1 = f1
  f2 = f2
  s1 = s1
  ta = ta
  tb = tb
  wt = wt
  Tasks = {ta, tb}
  Waits = {wt}
  Decisions <- AnyDecision
  Subscriptions = {s1}
  ReusesIds = TRUE
  Flushers = {f1, f2}
  Broken = {}
  Limit = 2
  MaxRetries = 2
  MaxSent = 3
  MaxUnderway = 2
  MaxAttempts = 2
  MaxFailures = 1
  MaxTrouble = 1
  MaxRevision = 3
  None = None
SYMMETRY Symmetry
INVARIANTS
  WorkInOrder
  CommandsHold
PROPERTIES
  NeverRegresses
CHECK_DEADLOCK FALSE
