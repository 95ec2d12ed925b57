\* One request after the other; a token and a half fit into the bucket.
CONSTANTS
    Requests = {r1}
    Capacity = 3
    Cost = 2
    BucketTtl = 5
    MaxTime = 14
    MayFail = TRUE
SPECIFICATION Spec
INVARIANT BurstBound
