\* Owner, one caller and both bucket tasks running concurrently.  Deadlock
\* is checked: every thread can always start another operation, so a state
\* without a step is threads blocked on each other.
SPECIFICATION Spec
CONSTANTS
    o = o
    c1 = c1
    t0 = t0
    t1 = t1
    NoOne = NoOne
    Owner = o
    Buckets <- MCBuckets
    Callers <- MCCallers
    Tasks <- MCTasks
    TaskBucket <- MCTaskBucket
INVARIANT
    NoWaitCycle
