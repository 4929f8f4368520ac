SPECIFICATION Spec
CONSTANTS
    Formats = {"claude"}
    ToolLists <- MCToolLists
    CallIDs <- MCCallIDs
    ForeignCalls <- MCForeignCalls
    MaxItems = 5
    MaxSpeeches = 7
    MaxRequestItems = 5
    MaxMessageParts = 3
INVARIANT ClaudeToolsAreRemembered
CHECK_DEADLOCK FALSE
