\* One forwarder (policy first) ahead of two NS names with overlapping
\* addresses; the code's failsafe lowered to 3 restarts (see README).
SPECIFICATION Spec
CONSTANTS
    Names <- MCNames
    Addrs <- MCAddrs
    AddrsOf <- MCAddrsOf
    Forwarders <- MCForwarders
    FwdPolicy = "first"
    NSInit <- MCNSInit
    ZoneCuts <- MCZoneCuts
    KnownInit <- MCKnownInit
    SrttInit <- MCSrttInit
    RttSamples <- MCRttSamples
    RestartLimit = 3
INVARIANTS
    TypeOK
    PicksDistinct
    RetryIntervalAsSpecified
    SortsAsSpecified
\* A fetch that is done and owed no ADB event has nothing left to do.
CHECK_DEADLOCK FALSE
