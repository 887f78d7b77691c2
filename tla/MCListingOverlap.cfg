SPECIFICATION ScanSpec
CONSTANTS
  Listings = {"l1", "l2"}
  Entries = 2
  PageMax = 1
  Capacity = 1
  MaxFailures = 0
INVARIANT IterationIsExclusive
CHECK_DEADLOCK FALSE
