\* One region with two nodes, two requests, nobody purges.
CONSTANTS
    Nodes = {n1, n2}
    Regions = {g1}
    RegionOf <- OneRegion
    Buckets = {b1}
    Keys = {k1}
    Requests = {r1, r2}
    Purgers = {}
    MaxVersion = 3
    HistoryLimit = 1
    MaxInbox = 1
SPECIFICATION FairSpec
PROPERTY Convergence
