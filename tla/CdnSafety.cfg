\* Two regions with a node each, two requests, one purge at a time.
CONSTANTS
    Nodes = {n1, n2}
    Regions = {n1, n2}
    RegionOf <- OneNodeEach
    Buckets = {b1}
    Keys = {k1}
    Requests = {r1, r2}
    Purgers = {p1}
    MaxVersion = 1
    HistoryLimit = 1
    MaxInbox = 1
SYMMETRY RequestSymmetry
SPECIFICATION Spec
INVARIANT TypeOK
PROPERTY StaleNeverReturns
