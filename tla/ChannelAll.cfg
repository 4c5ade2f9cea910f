SPECIFICATION Spec
CONSTANTS
  Requests <- AllRequests
  MaxCalls = 2
  MayExceed = {"QueueDeclare", "BasicPublish"}
  ServerRaises = TRUE
  ConnMayClose = TRUE
  ConnMayFail = TRUE
  FailInCallback = TRUE
CHECK_DEADLOCK FALSE
INVARIANTS Settling
