\* One request after the other, failing anywhere.
CONSTANTS
    Requests = {r1}
    Names = {b1, b2}
    Keys = {k1, k2}
    MaxBucket = 2
    MaxPut = 4
    MayFail = TRUE
SPECIFICATION Spec
INVARIANT TypeOK
INVARIANT LatestIsNewest
INVARIANT RowsHaveBuckets
