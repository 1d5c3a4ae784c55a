---------------------------- MODULE MCLockOrder -----------------------------
(***************************************************************************)
(* Two buckets with their tasks, the owner and one caller thread.          *)
(***************************************************************************)
EXTENDS LockOrder

CONSTANTS o, c1, t0, t1

MCBuckets == {0, 1}
MCCallers == {c1}
MCTasks == {t0, t1}
MCTaskBucket == [t \in MCTasks |-> IF t = t0 THEN 0 ELSE 1]
=============================================================================
