SPECIFICATION Spec
CONSTANTS
    Turns = {0, 1}
    ChanCap = 1
    MaxFrames = 1
    Upstream = {"text", "turn_ended"}
    RetryCount = 1
    RetryDelayed = TRUE
    ParentEnds = FALSE
INVARIANT CollectedTurnIsComplete
CHECK_DEADLOCK FALSE
