SPECIFICATION MCSpec
CONSTANTS
  a = a
  Callers = {a}
  Calls <- MCCalls
  Impatient = {a}
  MaxAttempts = 1
  Slots = 2
  MaxExpiries = 1
  MaxLosses = 1
  u1 = u1
  u2 = u2
  Users = {u1, u2}
  MaxReopens = 1
  MaxShares = 2
  Listings = {"l1", "l2"}
  Entries = 2
  PageMax = 2
  Capacity = 1
  MaxFailures = 1
  Changes = 3
  WatchRoom = 2
  Length = 3
  ChunkSize = 2
  Concurrency = 2
  ReadMax = 2
  WriteMax = 3
  Jobs = {"j1", "j2", "j3"}
  Keys = {"k1"}
  Payloads = {1, 2, 3, 4}
  Overhead = 1
  MinBatch = 2
  MinOffload = 4
  Lanes = 2
  Permits = 1
  MaxMembers = 1
  Lengths = {1}
  MaxCredits = 1
  MaxCharge = 1
PROPERTIES RecoveriesEnd StreamsEnd WorkEnds
CHECK_DEADLOCK FALSE
