SPECIFICATION OwnerSpec
CONSTANTS
  a1 = a1
  op1 = op1
  op2 = op2
  op3 = op3
  AsyncIds = {a1}
  MaxOperations = 3
  MaxPayloadBytes = 0
  InitialMessageId = 0
  MessageIdMax = 2
  InitialCredits = 2
  CreditMax = 3
  GrantMax = 1
  Payloads = {0}
  Charges = {1}
  Grants = {1}
  Targets = {1}
  Ops = {op1, op2}
  Shape <- ShapeCompound
  Cancellable = {op2}
  Answers = {a1, "Final", "RecoveryHint"}
  Endings = {"Network"}
INVARIANTS NothingStranded
PROPERTIES ReplyStands
CHECK_DEADLOCK FALSE
