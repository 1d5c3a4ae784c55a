CONSTANTS
    c1 = c1
    c2 = c2
    c3 = c3
    k1 = k1
    u1 = u1
    Users <- MCNoUsers
    Callers <- MCCaller
    Keys <- MCKeys
    KeyOf <- MCKeyOf1
    BucketOf <- MCBucketOf
    NBuckets = 1
    MaxFctxs = 1
    MaxQueries = 2
    NSCount = 1
    RestartLimit = 1
    CanShutdown = FALSE

SPECIFICATION Spec
CHECK_DEADLOCK FALSE

INVARIANT NoUseAfterFree
