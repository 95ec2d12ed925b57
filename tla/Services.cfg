\* Each component with the bounds that make its cases happen.
CONSTANTS
    u1 = u1
    Null = Null
    Samples <- MCSamples
    Windows = {1}
    Limits = {1, 2}
    MaxLimit = 2
    MaxCountries = 1
    MaxRows = 2
    MaxMinute = 1

    Rule0 <- MCRule0
    NewRules <- MCNewRules
    MaxEdits = 1
    Checks = {c1, c2}
    Stats <- MCStats
    SlackUrl = FALSE
    Debounce = 1
    HistoryCap = 2
    MaxTime = 1

    Window = 2
    MaxEvents = 2
    MaxClock = 4
    MaxRequests = 2
    MaxCalls = 4

    Uploads = {f1}
    UploadCalls = {k1, k2}
    PartCount = 2
    MaxSends = 3
    MaxUploadFaults = 1

    Fetches = {q1, q2}
    GwTtl = 1
    EdgeTtl = 2
    KeyQuery = ""
    PurgeTargets = {"bucket/key"}

    ProxyCalls = {p1, p2}
    Proxied = {"auth", "notifications"}
    Unknown = {"nope"}
    InitialBreakers = {"auth"}
    Checked <- MCChecked
    VolumeThreshold = 2
    MaxFires = 3

    Queries <- MCQueries
    FileTypes = {"image/svg+xml"}
    Gets = {g1, g2}
    Ttls = {1}
    MaxTtl = 1
    MemTtl = 2
    DefaultAge = 2
SYMMETRY ServicesSymmetry
SPECIFICATION Spec
CHECK_DEADLOCK FALSE
INVARIANT ServicesTypeOK
INVARIANT ReportsReconcile
INVARIANT DebounceHolds
INVARIANT NoRuleSkipped
INVARIANT SuccessMeansSent
INVARIANT MetricsCountOnce
INVARIANT FeedFollowsHooks
INVARIANT UploadsStayWhole
INVARIANT BoundedStaleness
INVARIANT HealthyMeansUp
INVARIANT AnswersAreTrue
