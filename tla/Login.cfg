SPECIFICATION Spec
CONSTANTS
    a1 = a1
    a2 = a2
    Accounts <- MCAccounts
    Subject <- MCNames
    Email <- MCEmails
    Labels = {"none", "work"}
    NoClaim = "none"
    NoAccount = NoAccount
    Logins = {l1, l2}
    Polls = {p1, p2}
    Lifetime = 2
    MaxTime = 2
INVARIANTS
    TypeOK
    LoginsEndForGood
    OneFilePerAccount
PROPERTY SeparateAuthFiles
CHECK_DEADLOCK FALSE
