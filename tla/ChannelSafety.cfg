SPECIFICATION FairSpec
CONSTANTS
  Requests = {"QueueDeclare", "BasicPublish", "BasicAck", "ChannelClose"}
  MaxCalls = 4
  MayExceed = {}
  ServerRaises = TRUE
  ConnMayClose = TRUE
  ConnMayFail = TRUE
  FailInCallback = FALSE
CHECK_DEADLOCK FALSE
INVARIANTS TypeOK OneAtATime AnswersMatch InOrder NothingAfterClose ClosedIsSettled
PROPERTIES ResolvedOnce EveryCallSettles ShutdownCompletes
