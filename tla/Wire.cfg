SPECIFICATION Spec
CONSTANTS
    Setups <- AllSetups
INVARIANTS BufferIsTail WantsMore ExpectedFits NoFalseAlarm FramesInOrder
PROPERTIES EveryFrameProcessed
CHECK_DEADLOCK FALSE
