CONSTANTS
    c1 = c1
    c2 = c2
    c3 = c3
    k1 = k1
    u1 = u1
    Users <- MCNoUsers
    Callers <- MCCallers
    Keys <- MCKeys
    KeyOf <- MCKeyOf
    BucketOf <- MCBucketOf
    NBuckets = 1
    MaxFctxs = 2
    MaxQueries = 2
    NSCount = 1
    RestartLimit = 2
    CanShutdown = TRUE

SPECIFICATION Spec
SYMMETRY MCCallerSymmetry
CHECK_DEADLOCK FALSE

INVARIANT TypeOK
INVARIANT EventAccounting
INVARIANT ShutdownAccounting
PROPERTY FetchServiceRefined
