SPECIFICATION Spec
CONSTANTS
    Codes = {"resource_exhausted", "unauthenticated", "unavailable"}
    Details <- MCDetails
    MaxDetails = 2
    Fallbacks = {401, 408, 429, 502}
INVARIANTS
    TypeOK
    RefusalWins
    QuotaOnlyWhenGenuine
CHECK_DEADLOCK FALSE
