------------------------------ MODULE LockOrder ------------------------------
(***************************************************************************)
(* The mutexes of lib/dns/resolver.c and the order each function takes     *)
(* them in: the resolver lock res->lock and one lock per bucket.  Every    *)
(* thread runs one API call or task handler at a time; an operation is    *)
(* the sequence of LOCK and UNLOCK calls along one path through its code,  *)
(* and the thread may take any of them next.  Everything the functions do  *)
(* between the calls is left out: only who holds what, and who waits.      *)
(***************************************************************************)
EXTENDS Naturals, Sequences, SequencesExt, Graphs

CONSTANTS
    Buckets,     \* bucket numbers 0 .. nbuckets-1
    Owner,       \* the thread that owns the resolver (shutdown, detach...)
    Callers,     \* threads calling createfetch, cancelfetch, destroyfetch
    Tasks,       \* the bucket tasks, one per bucket
    TaskBucket,  \* TaskBucket[t]: the bucket task t serves
    NoOne        \* owner of a free lock

ASSUME /\ TaskBucket \in [Tasks -> Buckets]
       /\ NoOne \notin {Owner} \cup Callers \cup Tasks

Threads == {Owner} \cup Callers \cup Tasks

ResLock == <<"res", 0>>
BucketLock(b) == <<"bucket", b>>
Locks == {ResLock} \cup {BucketLock(b) : b \in Buckets}

Lk(l) == <<"lock", l>>
Ul(l) == <<"unlock", l>>
Bracket(l) == <<Lk(l), Ul(l)>>

VARIABLES
    holder,  \* holder[l]: the thread holding mutex l, or NoOne
    prog     \* prog[t]: the LOCK/UNLOCK calls left in t's current operation

vars == <<holder, prog>>

(***************************************************************************)
(* The operations, as their paths of LOCK and UNLOCK calls.                *)
(***************************************************************************)

\* empty_bucket: activebuckets-- and send_shutdown_events under res->lock.
EmptyBucket == Bracket(ResLock)

\* dns_resolver_shutdown: under res->lock, the first call locks every
\* bucket in turn to shut its fctxs down; a repeated call does nothing.
Shutdown ==
    { <<Lk(ResLock)>>
        \o FlattenSeq([i \in 1..Cardinality(Buckets) |->
                          Bracket(BucketLock(SetToSortSeq(Buckets, <)[i]))])
        \o <<Ul(ResLock)>>,
      Bracket(ResLock) }

\* dns_resolver_attach, dns_resolver_whenshutdown, dns_resolver_detach.
OwnerOps == Shutdown \cup {Bracket(ResLock)}

\* Mutation of DestroyFetch: empty_bucket is called before the bucket lock
\* is released.
DestroyFetchEmptyUnderLock(b) ==
    { Bracket(BucketLock(b)),
      <<Lk(BucketLock(b))>> \o EmptyBucket \o <<Ul(BucketLock(b))>> }

\* dns_resolver_destroyfetch: under the bucket lock drop the reference and
\* destroy or shut down the fctx; empty_bucket after the unlock when
\* fctx_destroy reported the exiting bucket empty.
DestroyFetch(b) ==
    { Bracket(BucketLock(b)), Bracket(BucketLock(b)) \o EmptyBucket }

\* dns_resolver_createfetch and dns_resolver_cancelfetch: the bucket lock
\* around the whole call, every error path leaving through "unlock".
CallerOps ==
    UNION {{Bracket(BucketLock(b))} \cup DestroyFetch(b) : b \in Buckets}

\* On the bucket task: fctx_start, fctx_doshutdown and fctx_finddone (the
\* bucket lock, then empty_bucket after the unlock when the bucket
\* emptied), fctx_done, cache_message and ncache_message (the bucket lock
\* only).
TaskOps(b) == { Bracket(BucketLock(b)), Bracket(BucketLock(b)) \o EmptyBucket }

Ops(t) ==
    CASE t = Owner     -> OwnerOps
      [] t \in Callers -> CallerOps
      [] t \in Tasks   -> TaskOps(TaskBucket[t])

(***************************************************************************)
(* The specification.                                                      *)
(***************************************************************************)
Init == /\ holder = [l \in Locks |-> NoOne]
        /\ prog = [t \in Threads |-> <<>>]

\* An idle thread starts one of its operations.
Begin(t) ==
    /\ prog[t] = <<>>
    /\ \E p \in Ops(t) : prog' = [prog EXCEPT ![t] = p]
    /\ UNCHANGED holder

\* A thread makes its next call: LOCK blocks while another thread holds
\* the mutex, UNLOCK releases it.
Step(t) ==
    LET ins == Head(prog[t]) IN
    /\ prog[t] # <<>>
    /\ IF ins[1] = "lock"
       THEN /\ holder[ins[2]] = NoOne
            /\ holder' = [holder EXCEPT ![ins[2]] = t]
       ELSE holder' = [holder EXCEPT ![ins[2]] = NoOne]
    /\ prog' = [prog EXCEPT ![t] = Tail(@)]

Next == \E t \in Threads : Begin(t) \/ Step(t)

Spec == Init /\ [][Next]_vars

(***************************************************************************)
(* Properties.                                                             *)
(***************************************************************************)

\* t is blocked in LOCK on a mutex u holds.
WaitsFor(t, u) ==
    /\ prog[t] # <<>> /\ Head(prog[t])[1] = "lock"
    /\ holder[Head(prog[t])[2]] = u /\ u # t

\* No set of threads waits on each other in a circle: whatever mix of
\* shutdown, fetch calls and bucket-task handlers runs at once, the
\* resolver-then-bucket order of dns_resolver_shutdown never meets a
\* bucket-then-resolver order elsewhere.
NoWaitCycle ==
    ~HasCycle([node |-> Threads,
               edge |-> {<<t, u>> \in Threads \X Threads : WaitsFor(t, u)}])
=============================================================================
