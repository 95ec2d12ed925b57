\* Each page with the bounds that make its cases happen.
CONSTANTS
    Tabs = {t1, t2}
    Users = {"ann"}
    ApiCalls = {c1, c2}
    MaxSessions = 2
    MaxTokens = 2

    Buckets = {"a", "b"}
    Files = {"f"}
    PageCalls = {w1}
    PageSize = 1
    MaxVersions = 1
    MaxMade = 2

    KeyCalls = {w1, w2}
    MaxKeys = 2
    MaxRevokes = 2

    PurgeCalls = {w1, w2}
    MaxPurges = 2
    PurgeCap = 1

    Rule0 <- MCPageRules
    NewRules <- MCFormRules
    FormRules <- MCFormRules
    AlertCalls = {w1}
    MaxEdits = 1
    Checks = {k1}
    Stats <- MCPageStats
    SlackUrl = FALSE
    Debounce = 1
    HistoryCap = 1
    MaxTime = 1

    Fields = {"ttl", "size"}
    Default = 1
    Top = 1
    Texts <- MCTexts

    Panels = {"summary", "rateData", "cacheRatioSeries"}
    MaxRounds = 3
SPECIFICATION DashboardSpec
CHECK_DEADLOCK FALSE
INVARIANT DashboardTypeOK
INVARIANT PagesStayTrue
INVARIANT DialogKeepsItsBucket
INVARIANT ConfigInRange
PROPERTY RefusedOnlyIfSpoilt
PROPERTY SignedOutStaysOut
PROPERTY ShownOnce
PROPERTY EditsSurvivePolls
