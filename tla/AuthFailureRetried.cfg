SPECIFICATION Spec
CONSTANTS
    Codes = {"unauthenticated", "permission_denied"}
    Details <- MCDetails
    MaxDetails = 1
    Fallbacks = {502}
INVARIANT AuthFailuresAreNotRetried
CHECK_DEADLOCK FALSE
