SPECIFICATION MCSpec
CONSTANTS
  a1 = a1
  op1 = op1
  op2 = op2
  op3 = op3
  AsyncIds = {a1}
  MaxOperations = 2
  MaxPayloadBytes = 0
  InitialMessageId = 0
  MessageIdMax = 1
  InitialCredits = 1
  CreditMax = 3
  GrantMax = 1
  Payloads = {0}
  Charges = {1}
  Grants = {1}
  Targets = {1}
  Ops = {op1, op2}
  Shape <- ShapeDeadlines
  Cancellable = {}
  Answers = {"Final"}
  Endings = {}
  w1 = w1
  w2 = w2
  c1 = c1
  MaxAttempts = 2
  AttemptTimeout = 1
  TotalTimeout = 3
  InitialBackoff = 1
  MaximumBackoff = 2
  MaximumJitter = 1
  LastGeneration = 1
  Capacity = 2
  Horizon = 8
  Waiters = {w1, w2}
  Closers = {c1}
  MayDrop = FALSE
  Notifications = TRUE
PROPERTIES DeadlineAnswers TombstonesEnd WaitEnds RecoveryEnds
CHECK_DEADLOCK FALSE
