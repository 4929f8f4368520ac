SPECIFICATION Spec
CONSTANTS
    m1 = m1
    m2 = m2
    Models <- MCModels
    Catalogs <- MCCatalogs
    Policies <- MCPolicies
    Calls = {c1, c2}
    Accounts = {a1}
    TTLs = {0, 2}
    MaxTime = 3
INVARIANTS
    TypeOK
    TTLInForce
CHECK_DEADLOCK FALSE
