SPECIFICATION Spec
CONSTANTS
  Throttled = TRUE
  Individual = FALSE
  Windows = {0, 1, 2}
  MaxMessages = 3
  Flushes = {0, 1}
  PublishClosed = TRUE
  ServerRaises = TRUE
  ConnMayClose = TRUE
  ConnMayFail = TRUE
CHECK_DEADLOCK FALSE
INVARIANTS TagAgreement OpenIsInFlight
