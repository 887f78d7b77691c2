SPECIFICATION MCSpec
CONSTANTS
  w1 = w1
  w2 = w2
  c1 = c1
  c2 = c2
  MaxAttempts = 2
  AttemptTimeout = 1
  TotalTimeout = 3
  InitialBackoff = 1
  MaximumBackoff = 2
  MaximumJitter = 1
  LastGeneration = 2
  Capacity = 1
  Horizon = 8
  Waiters = {w1, w2}
  Closers = {c1, c2}
  MayDrop = TRUE
  Notifications = FALSE
  IdMax = 3
  EpochMax = 2
SYMMETRY Symmetry
INVARIANTS RecoveryServesWaits RetryIsBounded CloseIsFinal SubtreeDown
PROPERTIES RefusedForGood
CHECK_DEADLOCK FALSE
