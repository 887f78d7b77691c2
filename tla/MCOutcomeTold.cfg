SPECIFICATION OperationSpec
CONSTANTS
  MaxMembers = 1
  Lengths = {1}
  MaxCredits = 1
  MaxCharge = 1
INVARIANTS OutcomeTold
CHECK_DEADLOCK FALSE
