SPECIFICATION Spec
CONSTANTS
    IDs <- MCIDs
    Requested <- MCRequested
    Efforts = {"high", "low"}
    Preferred = {"high", "max"}
    NoEffort = "unset"
    Lower <- MCLower
    Rank <- MCRank
    MaxVariants = 3
INVARIANTS
    TypeOK
    SlugsKeepTheDefault
    ListedModelsAreServed
    EffortIsHonoured
CHECK_DEADLOCK FALSE
