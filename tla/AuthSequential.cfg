\* One request at a time, every command succeeds, distinct timestamps.
CONSTANTS
    Users = {u1, u2}
    Devices = {unknown, d1, d2}
    UnknownDevice = unknown
    Requests = {r1}
    MaxSessions = 2
    MayFail = FALSE
    SameMs = FALSE
    MaxToken = 3
    MaxTime = 3
SPECIFICATION Spec
INVARIANT OneTimeUse
INVARIANT AtMostMaxSessions
INVARIANT TokensAreTracked
