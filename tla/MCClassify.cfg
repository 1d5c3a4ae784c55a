\* Every response kind, four responses per fetch, either net.x or isc.org secure.
CONSTANTS
    QName <- WWW
    QType = "A"
    Domain0 <- ORG
    Cache0 <- MCCache0
    SecRootSets <- MCSecRootSets
    Replies <- MCReplies
    MaxLabels = 3
    MaxResponses = 4

SPECIFICATION Spec
CHECK_DEADLOCK FALSE

INVARIANT TypeOK
INVARIANT InBailiwick
INVARIANT AnswerCached
PROPERTY ReferralDescends
