\* Both sides close the channel with the only number, and it is used again.
SPECIFICATION Spec
CONSTANTS
  Objects = {c1, c2}
  None = None
  MaxNumber = 1
  ChannelMax = {1}
  MaxCalls = 0
  ServerRaises = TRUE
  ServerCloses = FALSE
  MayFail = FALSE
CHECK_DEADLOCK FALSE
INVARIANT NoCrossTalk
