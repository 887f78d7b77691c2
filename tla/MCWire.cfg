SPECIFICATION MCSpec
CONSTANTS
  Counts = {0, 1, 3, 40000, 70000}
  Members = {64, 68, 88, 89}
  Payloads = {0, 3, 8}
  MaxMembers = 3
  Responses = {64, 80, 72}
  NextCommands = {0, 8, 64, 72, 152}
  ItemSizes = {1, 4, 6}
  Plans <- MCPlans
  HeaderSize = 2
  LengthRange = 8
  MaxFrameSize = 7
  MaxSlices = 4
  MaxGenerations = 2
  Configs <- MCConfigs
  MaxCallId = 5
  NameLengths = {3, 4}
  MaxListed = 2
INVARIANTS LayoutsAgree ChainsHold FramesInOrder TermsHold RepliesReadBack
CHECK_DEADLOCK FALSE
