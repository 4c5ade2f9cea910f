\* Two tags, one of them possibly used again, bodies of none and three bytes in frames of at most two.
SPECIFICATION Spec
CONSTANTS
    Tags = {t1, t2}
    Sizes = {0, 3}
    MaxPayload = 2
    MaxMessages = 2
    MaxCalls = 3
    Width = 8
    None = None
INVARIANTS TypeOK Intact RightReceiver
CHECK_DEADLOCK FALSE
