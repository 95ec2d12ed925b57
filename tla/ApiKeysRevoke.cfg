\* One owner revokes a key.
CONSTANTS
    Keys = {k1, k2}
    Requests = {r1}
SPECIFICATION Spec
CHECK_DEADLOCK FALSE
INVARIANT RevokedKeysRejected
