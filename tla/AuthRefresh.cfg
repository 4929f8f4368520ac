SPECIFICATION Spec
CONSTANTS
    Calls = {c1, c2}
    Lead = 2
    MinDelay = 1
    Lifetimes = {1, 3, 4}
    MaxTime = 4
    MaxTokens = 3
    MaxEdits = 1
INVARIANTS
    TypeOK
    ScheduledRefreshIsDue
    ExpiryIsTheTokens
    RecordSurvives
CHECK_DEADLOCK FALSE
