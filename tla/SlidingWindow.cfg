\* Requests with and without credentials share the window of their address;
\* one of them may fail anywhere.
CONSTANTS
    Requests = {r1, r2, r3}
    Routes = {"v1", "open"}
    UserLimit = 1
    IpLimit = 2
    Window = 3
    MaxDelay = 1
    MaxTime = 4
    SlowPipeline = FALSE
    Failing = {r3}
SYMMETRY RequestSymmetry
SPECIFICATION Spec
CHECK_DEADLOCK FALSE
INVARIANT TypeOK
INVARIANT AtMostLimitPerWindow
