\* Plain and secure connections, seven bytes in chunks of one or three.
SPECIFICATION FairSpec
CONSTANTS
    Secures = {TRUE, FALSE}
    Sizes = {1, 3}
    MaxBytes = 7
    MayForce = TRUE
INVARIANTS TypeOK CleanEnd
PROPERTIES InOrderOnce EverythingLeaves EndIsReported
CHECK_DEADLOCK FALSE
