SPECIFICATION Spec
CONSTANTS
    Turns = {0, 1}
    ChanCap = 1
    MaxFrames = 2
    Upstream = {"text", "thinking", "tokens", "turn_ended", "bad_usage", "tool_call", "bad_tool_call", "request", "ignored", "cut_gzip", "bad_gzip", "end", "end_transient", "end_final"}
    RetryCount = 1
    RetryDelayed = TRUE
    ParentEnds = FALSE
INVARIANTS
    TypeOK
    TerminalIsLast
    ToolCallEndsTurn
    FinishedTurnIsReleased
    FailoverBoundary
    LateErrorsFollowOutput
    DeliveredInOrder
    SuccessIsComplete
    OneLiveTurn
    RetriesAreJustified
CHECK_DEADLOCK FALSE
