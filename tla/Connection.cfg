SPECIFICATION PatientSpec
CONSTANTS
  Objects = {c1, c2, c3}
  None = None
  MaxNumber = 2
  ChannelMax = {2}
  MaxCalls = 1
  ServerRaises = TRUE
  ServerCloses = TRUE
  MayFail = TRUE
CHECK_DEADLOCK FALSE
INVARIANTS TypeOK NoSurprise NoCrossTalk NothingLeftBehind
PROPERTIES CloseCompletes
