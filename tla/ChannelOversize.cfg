SPECIFICATION Spec
CONSTANTS
  Requests = {"QueueDeclare"}
  MaxCalls = 3
  MayExceed = {"QueueDeclare"}
  ServerRaises = FALSE
  ConnMayClose = FALSE
  ConnMayFail = FALSE
  FailInCallback = FALSE
CHECK_DEADLOCK FALSE
INVARIANTS AnswersMatch
