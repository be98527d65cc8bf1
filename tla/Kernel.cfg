SPECIFICATION AnySpec
CONSTANTS
  e1 = e1
  f1 = f1
  f2 = f2
  f3 = f3
  w1 = w1
  w2 = w2
  Executions = {e1}
  Effects = {f3}
  OwnerOf <- OwnerSame
  Workers = {w1, w2}
  Isolation = "thread"
  MaxAttempts = 2
  LeaseTicks = 1
  RetryDelay = 0
  MaxOrders = 1
  MaxRevision = 3
  None = None
SYMMETRY Symmetry
INVARIANTS
  UnfinishedIsOwned
  RecoveryPointerSound
  OutboxMatchesRow
  NoForgottenEffect
  AtMostOncePerDecision
  InstancesSound
PROPERTIES
  TerminalForever
  CancellationSticks
  KeepsPromise
  KeepsView
CHECK_DEADLOCK FALSE
