SPECIFICATION Spec
CONSTANTS
    Turns = {0, 1}
    ChanCap = 1
    MaxFrames = 2
    Upstream = {"text", "turn_ended", "end_transient"}
    RetryCount = 1
    RetryDelayed = TRUE
    ParentEnds = TRUE
PROPERTIES
    StreamCloses
    ReadersEnd
    ImplementsPromise
    Answered
CHECK_DEADLOCK FALSE
