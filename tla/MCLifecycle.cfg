SPECIFICATION MCSpec
CONSTANTS
  a = a
  b = b
  Callers = {a, b}
  Calls <- MCCalls
  Impatient = {a}
  MaxAttempts = 1
  Slots = 2
  MaxExpiries = 1
  MaxLosses = 1
  u1 = u1
  u2 = u2
  Users = {u1, u2}
  MaxReopens = 1
  MaxShares = 3
  d1 = d1
  d2 = d2
  Drivers = {d1, d2}
  MaxTries = 2
  Listings = {"l1", "l2"}
  Entries = 3
  PageMax = 2
  Capacity = 1
  MaxFailures = 1
  Changes = 4
  WatchRoom = 2
  Length = 5
  ChunkSize = 2
  Concurrency = 2
  ReadMax = 2
  WriteMax = 3
  Jobs = {"j1", "j2", "j3"}
  Keys = {"k1", "k2"}
  Payloads = {0, 1, 2, 3, 4}
  Overhead = 1
  MinBatch = 2
  MinOffload = 4
  Lanes = 2
  Permits = 1
  MaxMembers = 2
  Lengths = {0, 1, 65536, 65537}
  MaxCredits = 3
  MaxCharge = 2
  ClientUsers = {"u1", "u2"}
  ClientClosers = {"c1", "c2"}
  SecurityCalls = {"s1"}
  FileOpener = "o"
  FileClosers = {"f1", "f2"}
  ShareClosers = {"c1", "c2"}
INVARIANTS RecoveredShareBelongs AcceptedOnOwnSession PublishedHandle ClosedForGood ReadyKeysAgree ExchangesProtected
  ListingIsExact NoSilentGap CopyInWindow WorkAccounted ReportsTrue CloseReachesAll HandlesReturned
PROPERTIES ImplementsCell
CHECK_DEADLOCK FALSE
