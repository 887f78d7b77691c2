SPECIFICATION Spec
CONSTANTS
  a1 = a1
  a2 = a2
  AsyncIds <- MCAsyncIds
  MaxOperations = 2
  MaxPayloadBytes = 1
  InitialMessageId = 0
  MessageIdMax = 1
  InitialCredits = 2
  CreditMax = 2
  GrantMax = 1
  Payloads = {1}
  Charges = {1}
  Grants = {1}
  Targets = {2}
SYMMETRY Symmetry
INVARIANTS OwnershipBalanced CreditsBacked AsyncIndexExact
PROPERTIES OutcomeStands
CHECK_DEADLOCK FALSE
