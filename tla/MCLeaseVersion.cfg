SPECIFICATION CodecSpec
CONSTANTS
  Counts = {1}
INVARIANT LeaseVersionKept
CHECK_DEADLOCK FALSE
