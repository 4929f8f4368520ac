SPECIFICATION Spec
CONSTANTS
    TokenDeltas <- MCTokenDeltas
    TurnEndings <- MCTurnEndings
    MaxEvents = 4
INVARIANTS
    TypeOK
    ResponsesLifecycle
    
    UsageIsFinal
CHECK_DEADLOCK FALSE
