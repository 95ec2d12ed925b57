\* Two requests side by side, failures and clock ties.
CONSTANTS
    Users = {u1}
    Devices = {unknown, d1}
    UnknownDevice = unknown
    Requests = {r1, r2}
    MaxSessions = 1
    MayFail = TRUE
    SameMs = TRUE
    MaxToken = 2
    MaxTime = 2
SYMMETRY RequestSymmetry
SPECIFICATION Spec
INVARIANT TypeOK
INVARIANT TokensUnderTheirKey
PROPERTY DeadTokensStayDead
PROPERTY DisabledStaysOut
