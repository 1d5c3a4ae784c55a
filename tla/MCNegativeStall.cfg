\* A negative answer whose authority section holds SOA and NXT owners.
CONSTANTS
    QName <- WWW
    QType = "A"
    Domain0 <- ORG
    Cache0 <- MCCache0
    SecRootSets <- MCSecRootSets
    Replies <- MCStallReplies
    MaxLabels = 3
    MaxResponses = 2

SPECIFICATION Spec
CHECK_DEADLOCK FALSE

INVARIANT ResponseSettles
