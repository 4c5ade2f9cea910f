SPECIFICATION FairSpec
CONSTANTS
  Throttled = TRUE
  Individual = TRUE
  Windows = {1, 2}
  MaxMessages = 3
  Flushes = {}
  PublishClosed = FALSE
  ServerRaises = TRUE
  ConnMayClose = FALSE
  ConnMayFail = TRUE
CHECK_DEADLOCK FALSE
INVARIANTS Truthful CloseAfterConfirms
PROPERTIES ThrottleBound ReportedOnce EveryMessageReported CloseIsAnswered
