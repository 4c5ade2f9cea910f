SPECIFICATION FairSpec
CONSTANTS
  Requests = {"QueueDeclare", "BasicNack"}
  MaxCalls = 2
  MayExceed = {}
  ServerRaises = FALSE
  ConnMayClose = FALSE
  ConnMayFail = FALSE
  FailInCallback = FALSE
CHECK_DEADLOCK FALSE
PROPERTIES EveryCallSettles
