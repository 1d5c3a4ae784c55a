\* A referral from the org servers to evil.org, then an answer.
CONSTANTS
    QName <- WWW
    QType = "A"
    Domain0 <- ORG
    Cache0 <- MCCache0
    SecRootSets <- MCSecRootSets
    Replies <- MCSidewaysReplies
    MaxLabels = 3
    MaxResponses = 3

SPECIFICATION Spec
CHECK_DEADLOCK FALSE

INVARIANT AnswerInsistHolds
