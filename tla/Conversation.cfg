SPECIFICATION Spec
CONSTANTS
    Formats = {"openai-chat", "openai-response", "claude"}
    ToolLists <- MCToolLists
    CallIDs <- MCCallIDs
    ForeignCalls <- MCForeignCalls
    MaxItems = 5
    MaxSpeeches = 7
    MaxRequestItems = 5
    MaxMessageParts = 3
INVARIANTS
    TypeOK
    HistoryIsFaithful
    ResultsFollowCalls
    NewestInstructionIsTold
    CallsNameOneTool
CHECK_DEADLOCK FALSE
