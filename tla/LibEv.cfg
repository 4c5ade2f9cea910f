\* Times are half seconds: heartbeats of none, one, two and three seconds.
SPECIFICATION Spec
CONSTANTS
    Timeouts = {0, 1, 2, 3}
    Connect = 5
    Lag = 1
    MaxTime = 24
    None = None
INVARIANTS SilenceIsNoticed WeAreHeard RefsBalanced
CHECK_DEADLOCK FALSE
