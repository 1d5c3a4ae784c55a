------------------------------ MODULE Resolver ------------------------------
(***************************************************************************)
(* The fetch-context machine of lib/dns/resolver.c: callers creating,      *)
(* joining, cancelling and destroying fetches under the bucket lock; the   *)
(* bucket task running fctx_start, fctx_doshutdown, fctx_timeout,          *)
(* fctx_finddone, resquery_response, resquery_senddone and                 *)
(* resquery_connected; and dns_resolver_shutdown quiescing the buckets.    *)
(*                                                                         *)
(* Each handler is one atomic step: the bucket task runs an event to       *)
(* completion, and the caller-side API runs under the bucket lock.  The    *)
(* events a task has queued for different sources (timer, ADB, socket,     *)
(* dispatcher) arrive with independent latencies, so the model lets the    *)
(* task pick any pending one.  DNS data is abstracted away: an address is  *)
(* a count, a response is the outcome resquery_response derives from it.  *)
(***************************************************************************)
EXTENDS Naturals, FiniteSets, FiniteSetsExt

CONSTANTS
    Callers,      \* caller tasks; each issues one dns_resolver_createfetch
    Keys,         \* (name, type, options) tuples compared by fctx_match
    KeyOf,        \* KeyOf[c]: the question caller c asks
    NBuckets,     \* res->nbuckets (the ntasks argument of create)
    BucketOf,     \* dns_name_hash(name) % nbuckets, per key
    MaxFctxs,     \* bound: fetch contexts allocated in a behaviour
    MaxQueries,   \* bound: resquery_t records allocated in a behaviour
    NSCount,      \* NS records in the zone cut's nameservers rdataset
    RestartLimit, \* the "restarts > 10" failsafe of fctx_getaddresses
    CanShutdown,  \* the resolver's owner may call dns_resolver_shutdown
    Users         \* holders of a dns_resolver_attach reference besides the owner

ASSUME KeyOf \in [Callers -> Keys]
ASSUME NBuckets \in Nat \ {0} /\ BucketOf \in [Keys -> 0..NBuckets-1]
ASSUME {MaxFctxs, MaxQueries, NSCount} \subseteq Nat \ {0}
ASSUME RestartLimit \in Nat /\ CanShutdown \in BOOLEAN

FctxIds   == 1..MaxFctxs      \* fctxs are appended to the bucket list in id order
QueryIds  == 1..MaxQueries
BucketIds == 0..NBuckets-1

Results == {"SUCCESS", "CANCELED", "TIMEDOUT", "SERVFAIL", "FAILURE",
            "NOMEMORY", "SHUTTINGDOWN"}

VARIABLES
    res,       \* dns_resolver_t: frozen, references, exiting, activebuckets,
               \* whenshutdown; who holds a reference; freed by destroy
    bexiting,  \* fctxbucket_t.exiting, per bucket
    fctx,      \* fetchctx_t, per slot; st = "free" before creation
    query,     \* resquery_t, per slot; st = "free" before creation
    fetch,     \* the caller's dns_fetch_t and the fetchevent it receives
    failed     \* "none", or the INSIST/REQUIRE that aborted the process

vars == <<res, bexiting, fctx, query, fetch, failed>>

(***************************************************************************)
(* Records.                                                                *)
(***************************************************************************)
FctxStates == {"free", "init", "active", "done", "gone"}

\* fetchctx_t: st is fetchstate (plus "gone" once fctx_destroy freed it);
\* ctl is the control_event queued on the bucket task (start or shutdown);
\* addrWait and shuttingDown are FCTX_ATTR_ADDRWAIT and _SHUTTINGDOWN;
\* finds counts fctx->finds, untried its unmarked addrinfos; timer is the
\* one-shot timer: "idle" armed with interval and expiry, "life" with the
\* expiry only (fctx_stopidletimer); staleTick is an idle tick that fired
\* before fctx_starttimer or fctx_stopidletimer reset the timer, which they
\* do without purging it (only fctx_stoptimer purges).  haveAnswer is FCTX_ATTR_HAVEANSWER
\* and answered the waiters whose event cache_name filled in; caching
\* marks the bucket task between cache_message and the fctx_done of the
\* same resquery_response, when the bucket lock is free again.
FctxRec == [st: FctxStates, key: Keys, wantShutdown: BOOLEAN,
            refs: 0..Cardinality(Callers), events: SUBSET Callers,
            ctl: {"none", "start", "shutdown"},
            addrWait: BOOLEAN, shuttingDown: BOOLEAN, haveAnswer: BOOLEAN,
            answered: SUBSET Callers, caching: BOOLEAN,
            pending: Nat, restarts: 0..RestartLimit+1,
            timer: {"off", "idle", "life"}, staleTick: BOOLEAN,
            finds: 0..NSCount,
            untried: 0..NSCount]

\* resquery_t: linked is membership of fctx->queries, resp a registered
\* dispatcher entry, senddone / connev a socket event still to arrive.
QueryRec == [st: {"free", "live", "gone"}, fctx: FctxIds, linked: BOOLEAN,
             connecting: BOOLEAN, canceled: BOOLEAN, tcp: BOOLEAN,
             noedns: BOOLEAN, resp: BOOLEAN, senddone: BOOLEAN,
             connev: BOOLEAN]

\* dns_fetch_t of a caller: "refused" when createfetch returned an error,
\* "joined" while its fetchevent is on fctx->events, "got" once the event
\* was sent to the caller's task, "done" after dns_resolver_destroyfetch.
\* cancelled records that the caller called dns_resolver_cancelfetch.
FetchRec == [st: {"idle", "refused", "joined", "got", "done"},
             fctx: 0..MaxFctxs, cancelled: BOOLEAN,
             result: Results \cup {"none"}, n: 0..2]

FreeFctx == [st |-> "free", key |-> CHOOSE k \in Keys : TRUE,
             wantShutdown |-> FALSE, refs |-> 0, events |-> {}, ctl |-> "none",
             addrWait |-> FALSE, shuttingDown |-> FALSE, haveAnswer |-> FALSE,
             answered |-> {}, caching |-> FALSE, pending |-> 0,
             restarts |-> 0, timer |-> "off", staleTick |-> FALSE,
             finds |-> 0, untried |-> 0]

FreeQuery == [st |-> "free", fctx |-> 1, linked |-> FALSE,
              connecting |-> FALSE, canceled |-> FALSE, tcp |-> FALSE,
              noedns |-> FALSE, resp |-> FALSE, senddone |-> FALSE,
              connev |-> FALSE]

Live(f) == fctx[f].st \in {"init", "active", "done"}

InBucket(b) == {f \in FctxIds : Live(f) /\ BucketOf[fctx[f].key] = b}

\* An INSIST or REQUIRE fails: the process aborts and nothing else moves.
Abort(label) == /\ failed' = label
                /\ UNCHANGED <<res, bexiting, fctx, query, fetch>>

(***************************************************************************)
(* Helpers shared by the handlers.                                         *)
(***************************************************************************)

\* fctx_cancelquery: mark CANCELED, drop the dispatcher entry, unlink; the
\* query is freed at once unless a TCP connect is still in progress, in
\* which case resquery_connected frees it.  A senddone event already
\* queued for it is not withdrawn.
CancelQuery(qr) ==
    [qr EXCEPT !.canceled = TRUE, !.linked = FALSE, !.resp = FALSE,
               !.st = IF qr.connecting THEN "live" ELSE "gone"]

\* fctx_cancelqueries: cancel every query on fctx->queries.
CancelQueries(qt, f) ==
    [q \in QueryIds |->
        IF qt[q].st = "live" /\ qt[q].linked /\ qt[q].fctx = f
        THEN CancelQuery(qt[q]) ELSE qt[q]]

\* isc_task_sendanddetach of a fetchevent to each waiting caller.
Deliver(ft, evs, result) ==
    [c \in Callers |->
        IF c \in evs
        THEN [ft[c] EXCEPT !.st = "got", !.result = result, !.n = @ + 1]
        ELSE ft[c]]

\* fctx_sendevents: with HAVEANSWER set an event keeps the result it
\* holds: the answer cache_name put in it, or fctx_join's SERVFAIL default.
SendEvents(ft, fr, result) ==
    IF fr.haveAnswer
    THEN Deliver(Deliver(ft, fr.events \cap fr.answered, "SUCCESS"),
                 fr.events \ fr.answered, "SERVFAIL")
    ELSE Deliver(ft, fr.events, result)

\* fctx_stopeverything (finds and forwaddrs cleaned, timer stopped; the
\* queries are cancelled by CancelQueries), then state = done and
\* fctx_sendevents, which empties fctx->events.
DoneRec(fr) ==
    [fr EXCEPT !.st = "done", !.events = {}, !.finds = 0, !.untried = 0,
               !.timer = "off", !.staleTick = FALSE]

\* fctx_done(fctx, result).
Done(f, fr, qt, result) ==
    /\ fctx' = [fctx EXCEPT ![f] = DoneRec(fr)]
    /\ query' = CancelQueries(qt, f)
    /\ fetch' = SendEvents(fetch, fr, result)

\* isc_timer_reset without purge: the fctx as it may be after the reset,
\* an idle tick of the timer as it was being possibly queued already.
Rearm(fr, timer) ==
    {[fr EXCEPT !.timer = timer, !.staleTick = @ \/ queued] :
        queued \in IF fr.timer = "idle" THEN BOOLEAN ELSE {FALSE}}

\* fctx_query: arm the timer (fctx_setretryinterval, fctx_starttimer),
\* allocate a resquery_t, then either open a TCP socket and connect, or
\* resquery_send over the shared UDP dispatcher.  Allocation, socket and
\* send failures stop the timer and the caller calls fctx_done.  When the
\* bound on queries is reached only the allocation failure remains.
Query(f, fr, qt, tcp, noedns) ==
    LET free == {q \in QueryIds : qt[q].st = "free"}
    IN  \/ /\ free # {}
           /\ query' = [qt EXCEPT ![Min(free)] =
                 [st |-> "live", fctx |-> f, linked |-> TRUE,
                  connecting |-> tcp, canceled |-> FALSE, tcp |-> tcp,
                  noedns |-> noedns, resp |-> ~tcp, senddone |-> ~tcp,
                  connev |-> tcp]]
           /\ \E fr1 \in Rearm(fr, "idle") : fctx' = [fctx EXCEPT ![f] = fr1]
           /\ UNCHANGED fetch
        \/ Done(f, [fr EXCEPT !.timer = "off", !.staleTick = FALSE], qt, "FAILURE")

\* Mutation of NewRound: the "restarts > 10" failsafe is missing.
NewRoundNoCap(f, fr, qt) ==
    LET fr1 == [fr EXCEPT !.restarts = @ + 1, !.finds = 0, !.untried = 0]
    IN  \E found \in 0..NSCount, waits \in 0..NSCount :
           /\ found + waits <= NSCount
           /\ LET fr2 == [fr1 EXCEPT !.pending = @ + waits,
                                     !.finds = found, !.untried = found]
              IN  \/ /\ found > 0
                     /\ Query(f, [fr2 EXCEPT !.untried = @ - 1], qt,
                              FALSE, FALSE)
                  \/ /\ found = 0 /\ fr2.pending > 0
                     /\ fctx' = [fctx EXCEPT ![f] =
                                   [fr2 EXCEPT !.addrWait = TRUE]]
                     /\ query' = qt
                     /\ UNCHANGED fetch
                  \/ Done(f, fr2, qt, "FAILURE")

\* fctx_getaddresses after the caller's fctx_cancelqueries,
\* fctx_cleanupfinds and fctx_cleanupforwaddrs.  Each NS name's
\* dns_adb_createfind either has addresses now (a find is appended), or
\* promises an ADB event (pending++), or neither (the find is dropped).
\* A createfind error returns at once, with the events already promised.
\* Then fctx_try takes the first address with fctx_nextaddress and sends.
NewRound(f, fr, qt) ==
    LET fr1 == [fr EXCEPT !.restarts = @ + 1, !.finds = 0, !.untried = 0]
    IN  IF fr1.restarts > RestartLimit
        THEN Done(f, fr1, qt, "SERVFAIL")
        ELSE \E found \in 0..NSCount, waits \in 0..NSCount :
               /\ found + waits <= NSCount
               /\ LET fr2 == [fr1 EXCEPT !.pending = @ + waits,
                                         !.finds = found, !.untried = found]
                  IN  \/ /\ found > 0
                         /\ Query(f, [fr2 EXCEPT !.untried = @ - 1], qt,
                                  FALSE, FALSE)
                      \/ /\ found = 0 /\ fr2.pending > 0
                         /\ fctx' = [fctx EXCEPT ![f] =
                                       [fr2 EXCEPT !.addrWait = TRUE]]
                         /\ query' = qt
                         /\ UNCHANGED fetch
                      \/ /\ found = 0 /\ fr2.pending = 0
                         /\ Done(f, fr2, qt, "FAILURE")
                      \/ Done(f, fr2, qt, "FAILURE")   \* createfind error

\* fctx_try: REQUIRE(!ADDRWAIT); send to the next unmarked address, or,
\* when every address is marked, cancel the queries, clean up and start a
\* new round of fctx_getaddresses.
Try(f, fr, qt) ==
    IF fr.addrWait
    THEN Abort("fctx_try: REQUIRE(!ADDRWAIT)")
    ELSE /\ UNCHANGED failed
         /\ IF fr.untried > 0
            THEN Query(f, [fr EXCEPT !.untried = @ - 1], qt, FALSE, FALSE)
            ELSE NewRound(f, fr, CancelQueries(qt, f))

\* empty_bucket: one fewer active bucket; at zero, send_shutdown_events.
EmptyBucket(r) ==
    LET n == r.activebuckets - 1
    IN  [r EXCEPT !.activebuckets = n,
                  !.listener = IF n = 0 /\ @ = "waiting" THEN "notified" ELSE @]

\* Mutation of Destroy: empty_bucket without the list being empty.
DestroyAnyEmpties(f, fr, qt, ft) ==
    /\ fctx' = [fctx EXCEPT ![f] = [fr EXCEPT !.st = "gone"]]
    /\ res' = IF bexiting[BucketOf[fr.key]] THEN EmptyBucket(res) ELSE res
    /\ query' = qt /\ fetch' = ft
    /\ UNCHANGED <<bexiting, failed>>

\* fctx_destroy, with its REQUIREs, and the empty_bucket its callers run
\* when it reports the exiting bucket's list empty.  The handler that
\* destroys has already updated the queries to qt and the fetches to ft.
Destroy(f, fr, qt, ft) ==
    LET b == BucketOf[fr.key]
        ok == /\ fr.st \in {"done", "init"}
              /\ fr.events = {} /\ fr.finds = 0
              /\ fr.pending = 0 /\ fr.refs = 0
              /\ ~\E q \in QueryIds : qt[q].st = "live" /\ qt[q].linked
                                       /\ qt[q].fctx = f
    IN  IF ok
        THEN /\ fctx' = [fctx EXCEPT ![f] = [fr EXCEPT !.st = "gone"]]
             /\ res' = IF bexiting[b] /\ InBucket(b) = {f}
                       THEN EmptyBucket(res) ELSE res
             /\ query' = qt /\ fetch' = ft
             /\ UNCHANGED <<bexiting, failed>>
        ELSE Abort("fctx_destroy: REQUIRE")

\* fctx_shutdown: set want_shutdown once; post the control event unless
\* the start event is still outstanding.
FctxShutdown(fr) ==
    IF fr.wantShutdown THEN fr
    ELSE [fr EXCEPT !.wantShutdown = TRUE,
                    !.ctl = IF fr.st # "init" THEN "shutdown" ELSE @]

\* The bucket task is not in the middle of a resquery_response.
TaskFree(b) == \A g \in InBucket(b) : ~fctx[g].caching

\* A handler may run on the task of fctx f's bucket.
OnTask(f) == /\ failed = "none" /\ Live(f)
             /\ TaskFree(BucketOf[fctx[f].key])

(***************************************************************************)
(* The caller-side API, run under the bucket lock.                         *)
(***************************************************************************)

\* Mutation of CreateFetch: the bucket's exiting flag is not checked.
CreateFetchIgnoreExiting(c) ==
    LET b     == BucketOf[KeyOf[c]]
        match == {f \in InBucket(b) : fctx[f].key = KeyOf[c]}
        free  == {f \in FctxIds : fctx[f].st = "free"}
        Refuse(r) == /\ fetch' = [fetch EXCEPT ![c].st = "refused",
                                               ![c].result = r]
                     /\ UNCHANGED <<fctx, query, res, bexiting, failed>>
    IN  /\ failed = "none" /\ fetch[c].st = "idle"
        /\ res.frozen /\ ~res.freed
        /\ IF match # {} /\ fctx[Min(match)].st # "done"
           THEN \/ LET f == Min(match) IN
                   /\ fctx' = [fctx EXCEPT ![f].refs = @ + 1,
                                           ![f].events = @ \cup {c}]
                   /\ fetch' = [fetch EXCEPT ![c].st = "joined",
                                             ![c].fctx = f]
                   /\ UNCHANGED <<query, res, bexiting, failed>>
                \/ Refuse("NOMEMORY")
           ELSE \/ /\ free # {}
                   /\ LET f == Min(free) IN
                      /\ fctx' = [fctx EXCEPT ![f] =
                                    [FreeFctx EXCEPT !.st = "init",
                                     !.key = KeyOf[c], !.refs = 1,
                                     !.events = {c}, !.ctl = "start"]]
                      /\ fetch' = [fetch EXCEPT ![c].st = "joined",
                                                ![c].fctx = f]
                      /\ UNCHANGED <<query, res, bexiting, failed>>
                \/ Refuse("NOMEMORY")

\* dns_resolver_createfetch: refuse when the bucket is exiting; otherwise
\* take the FIRST fctx of the bucket list that fctx_match accepts, and if
\* there is none or it is done, fctx_create a new one and send it its
\* start event; then fctx_join.  An allocation failure in fctx_create or
\* fctx_join refuses the call (a fctx created for it is destroyed again).
CreateFetch(c) ==
    LET b     == BucketOf[KeyOf[c]]
        match == {f \in InBucket(b) : fctx[f].key = KeyOf[c]}
        free  == {f \in FctxIds : fctx[f].st = "free"}
        Refuse(r) == /\ fetch' = [fetch EXCEPT ![c].st = "refused",
                                               ![c].result = r]
                     /\ UNCHANGED <<fctx, query, res, bexiting, failed>>
    IN  /\ failed = "none" /\ fetch[c].st = "idle"
        /\ res.frozen /\ ~res.freed
        /\ IF bexiting[b] THEN Refuse("SHUTTINGDOWN")
           ELSE IF match # {} /\ fctx[Min(match)].st # "done"
           THEN \/ LET f == Min(match) IN
                   /\ fctx' = [fctx EXCEPT ![f].refs = @ + 1,
                                           ![f].events = @ \cup {c}]
                   /\ fetch' = [fetch EXCEPT ![c].st = "joined",
                                             ![c].fctx = f]
                   /\ UNCHANGED <<query, res, bexiting, failed>>
                \/ Refuse("NOMEMORY")
           ELSE \/ /\ free # {}
                   /\ LET f == Min(free) IN
                      /\ fctx' = [fctx EXCEPT ![f] =
                                    [FreeFctx EXCEPT !.st = "init",
                                     !.key = KeyOf[c], !.refs = 1,
                                     !.events = {c}, !.ctl = "start"]]
                      /\ fetch' = [fetch EXCEPT ![c].st = "joined",
                                                ![c].fctx = f]
                      /\ UNCHANGED <<query, res, bexiting, failed>>
                \/ Refuse("NOMEMORY")

\* Mutation of CancelFetch: the event is sent but left on fctx->events.
CancelFetchNoUnlink(c) ==
    LET f == fetch[c].fctx IN
    /\ failed = "none" /\ fetch[c].st = "joined"
    /\ fctx[f].st # "done" /\ c \in fctx[f].events
    /\ fetch' = [Deliver(fetch, {c}, "CANCELED") EXCEPT ![c].cancelled = TRUE]
    /\ UNCHANGED <<fctx, query, res, bexiting, failed>>

\* dns_resolver_cancelfetch: unless the fctx is done, unlink the caller's
\* event and send it with CANCELED.
CancelFetch(c) ==
    LET f == fetch[c].fctx IN
    /\ failed = "none" /\ fetch[c].st = "joined"
    /\ fctx[f].st # "done" /\ c \in fctx[f].events
    /\ fctx' = [fctx EXCEPT ![f].events = @ \ {c}]
    /\ fetch' = [Deliver(fetch, {c}, "CANCELED") EXCEPT ![c].cancelled = TRUE]
    /\ UNCHANGED <<query, res, bexiting, failed>>

\* Mutation of DestroyFetch: fctx_shutdown on every destroyfetch, not only
\* when the last reference goes.
DestroyFetchShutdownAlways(c) ==
    LET f  == fetch[c].fctx
        fr == [fctx[f] EXCEPT !.refs = @ - 1]
        ft == [fetch EXCEPT ![c].st = "done"]
    IN  /\ failed = "none" /\ fetch[c].st = "got"
        /\ IF fr.refs = 0 /\ fr.pending = 0 /\ fr.shuttingDown
           THEN Destroy(f, fr, query, ft)
           ELSE /\ fctx' = [fctx EXCEPT ![f] = FctxShutdown(fr)]
                /\ fetch' = ft
                /\ UNCHANGED <<query, res, bexiting, failed>>

\* dns_resolver_destroyfetch, by a caller that has its event: drop the
\* reference; the last one destroys a fctx that is already shut down and
\* quiescent, and otherwise calls fctx_shutdown.
DestroyFetch(c) ==
    LET f  == fetch[c].fctx
        fr == [fctx[f] EXCEPT !.refs = @ - 1]
        ft == [fetch EXCEPT ![c].st = "done"]
    IN  /\ failed = "none" /\ fetch[c].st = "got"
        /\ IF fr.refs = 0 /\ fr.pending = 0 /\ fr.shuttingDown
           THEN Destroy(f, fr, query, ft)
           ELSE /\ fctx' = [fctx EXCEPT ![f] =
                              IF fr.refs = 0 THEN FctxShutdown(fr) ELSE fr]
                /\ fetch' = ft
                /\ UNCHANGED <<query, res, bexiting, failed>>

\* dns_resolver_shutdown: fctx_shutdown every fctx, mark every bucket
\* exiting, count the empty ones out of activebuckets, and at zero send
\* the whenshutdown events.
ResolverShutdown ==
    LET empty == {b \in BucketIds : InBucket(b) = {}}
        n     == res.activebuckets - Cardinality(empty)
    IN  /\ failed = "none" /\ CanShutdown /\ res.owner /\ ~res.exiting
        /\ fctx' = [f \in FctxIds |->
                      IF Live(f) THEN FctxShutdown(fctx[f]) ELSE fctx[f]]
        /\ bexiting' = [b \in BucketIds |-> TRUE]
        /\ res' = [res EXCEPT !.exiting = TRUE, !.activebuckets = n,
                     !.listener = IF n = 0 /\ @ = "waiting"
                                  THEN "notified" ELSE @]
        /\ UNCHANGED <<query, fetch, failed>>

\* dns_resolver_whenshutdown: send the event now if the resolver has shut
\* down, otherwise queue it on res->whenshutdown.
WhenShutdown ==
    /\ failed = "none" /\ res.owner /\ res.listener = "none"
    /\ res' = [res EXCEPT !.listener =
                 IF res.exiting /\ res.activebuckets = 0
                 THEN "notified" ELSE "waiting"]
    /\ UNCHANGED <<bexiting, fctx, query, fetch, failed>>

\* dns_resolver_freeze, by the owner once configuration is done.
Freeze ==
    /\ failed = "none" /\ res.owner /\ ~res.frozen
    /\ res' = [res EXCEPT !.frozen = TRUE]
    /\ UNCHANGED <<bexiting, fctx, query, fetch, failed>>

\* dns_resolver_attach by user u, from a reference someone holds:
\* REQUIRE(!exiting), then one more reference.
Attach(u) ==
    /\ failed = "none" /\ res.users[u] = "none" /\ res.refs > 0
    /\ IF res.exiting
       THEN Abort("dns_resolver_attach: REQUIRE(!exiting)")
       ELSE /\ res' = [res EXCEPT !.refs = @ + 1, !.users[u] = "held"]
            /\ UNCHANGED <<bexiting, fctx, query, fetch, failed>>

\* destroy: REQUIRE(references == 0), INSIST that every bucket's fctx list
\* is empty, then the buckets, their tasks and the resolver are freed.
DestroyRes(r) ==
    IF \E b \in BucketIds : InBucket(b) # {}
    THEN Abort("destroy: INSIST(bucket fctxs empty)")
    ELSE /\ res' = [r EXCEPT !.freed = TRUE]
         /\ UNCHANGED <<bexiting, fctx, query, fetch, failed>>

\* dns_resolver_detach: one reference less; the last one INSISTs that the
\* resolver is exiting with no active bucket, and destroys it after the
\* unlock.  The owner detaches once its whenshutdown event has come.
Detach(h) ==
    LET r == [res EXCEPT !.refs = @ - 1,
                         !.owner = IF h = "owner" THEN FALSE ELSE @,
                         !.users = IF h = "owner" THEN @ ELSE [@ EXCEPT ![h] = "done"]]
    IN  /\ failed = "none"
        /\ IF h = "owner" THEN res.owner /\ res.listener = "notified"
           ELSE res.users[h] = "held"
        /\ IF r.refs > 0
           THEN res' = r /\ UNCHANGED <<bexiting, fctx, query, fetch, failed>>
           ELSE IF res.exiting /\ res.activebuckets = 0
           THEN DestroyRes(r)
           ELSE Abort("dns_resolver_detach: INSIST(exiting, no active bucket)")

(***************************************************************************)
(* The bucket task's event handlers.                                       *)
(***************************************************************************)

\* fctx_start: INSIST(events empty) and destroy a fctx whose shutdown was
\* requested before it started; otherwise become active, turn the
\* control event into the doshutdown event and fctx_try.
Start(f) ==
    LET fr == [fctx[f] EXCEPT !.ctl = "none"] IN
    /\ OnTask(f) /\ fctx[f].ctl = "start"
    /\ UNCHANGED bexiting
    /\ IF fr.wantShutdown
       THEN IF fr.events # {}
            THEN Abort("fctx_start: INSIST(events empty)")
            ELSE Destroy(f, fr, query, fetch)
       ELSE /\ Try(f, [fr EXCEPT !.st = "active"], query)
            /\ UNCHANGED res

\* fctx_doshutdown: set SHUTTINGDOWN; unless done, stop everything, become
\* done and send CANCELED to the waiters; destroy when unreferenced and
\* no ADB event is pending.  ADDRWAIT is left as it is.
DoShutdown(f) ==
    LET fr0 == [fctx[f] EXCEPT !.ctl = "none", !.shuttingDown = TRUE]
        fr  == IF fr0.st # "done" THEN DoneRec(fr0) ELSE fr0
        qt  == IF fr0.st # "done" THEN CancelQueries(query, f) ELSE query
        ft  == IF fr0.st # "done" THEN SendEvents(fetch, fr0, "CANCELED")
               ELSE fetch
    IN  /\ OnTask(f) /\ fctx[f].ctl = "shutdown"
        /\ IF fr.refs = 0 /\ fr.pending = 0
           THEN Destroy(f, fr, qt, ft)
           ELSE /\ fctx' = [fctx EXCEPT ![f] = fr]
                /\ query' = qt /\ fetch' = ft
                /\ UNCHANGED <<res, bexiting, failed>>

\* fctx_timeout: the one-shot timer fires once, on the idle interval or on
\* the absolute expiry, or a stale idle tick queued before a reset arrives
\* and leaves the timer as it is.  Expiry ends the fetch with TIMEDOUT; an
\* idle tick clears ADDRWAIT and calls fctx_try again.
Timeout(f, kind) ==
    LET fr == IF kind = "stale" THEN [fctx[f] EXCEPT !.staleTick = FALSE]
              ELSE [fctx[f] EXCEPT !.timer = "off"] IN
    /\ OnTask(f)
    /\ CASE kind = "life"  -> fctx[f].timer # "off"
         [] kind = "idle"  -> fctx[f].timer = "idle"
         [] kind = "stale" -> fctx[f].staleTick
    /\ UNCHANGED <<res, bexiting>>
    /\ IF kind = "life"
       THEN Done(f, fr, query, "TIMEDOUT") /\ UNCHANGED failed
       ELSE Try(f, [fr EXCEPT !.addrWait = FALSE], query)

\* fctx_finddone: an ADB find event (MOREADDRESSES when more, otherwise
\* NOMOREADDRESSES).  With ADDRWAIT set it is cleared, and MOREADDRESSES
\* retries while the last NOMOREADDRESSES fails the fetch; a NOMORE that
\* is not the last one does neither.  Without ADDRWAIT a shut-down,
\* unreferenced fctx is destroyed when its last event arrives.
FindDone(f, more) ==
    LET fr == [fctx[f] EXCEPT !.pending = @ - 1] IN
    /\ OnTask(f) /\ fctx[f].pending > 0
    /\ IF fr.addrWait
       THEN LET fr1 == [fr EXCEPT !.addrWait = FALSE] IN
            /\ UNCHANGED <<res, bexiting>>
            /\ IF more THEN Try(f, fr1, query)
               ELSE IF fr1.pending = 0
               THEN Done(f, fr1, query, "FAILURE") /\ UNCHANGED failed
               ELSE /\ fctx' = [fctx EXCEPT ![f] = fr1]
                    /\ UNCHANGED <<query, fetch, failed>>
       ELSE IF fr.shuttingDown /\ fr.pending = 0 /\ fr.refs = 0
       THEN Destroy(f, fr, query, fetch)
       ELSE /\ fctx' = [fctx EXCEPT ![f] = fr]
            /\ UNCHANGED <<res, bexiting, query, fetch, failed>>

\* The outcomes resquery_response derives from a reply, named for the
\* branch they take after the query is cancelled at label done:
\*   answer     - answer_response or noanswer_response cached the answer
\*                (HAVEANSWER); the fetch ends with SUCCESS;
\*   nohave     - ISC_R_SUCCESS without HAVEANSWER: cancel the queries and
\*                keep only the lifetime timer (waiting for a validator),
\*                or fctx_done if fctx_stopidletimer fails;
\*   delegation - DNS_R_DELEGATION: get_nameservers and keep_trying;
\*   lame       - keep_trying: a broken server, FORMERR, a bad question;
\*   noedns     - FORMERR or UNEXPECTEDEND with EDNS0: resend without it;
\*   tcp        - TC set on a UDP reply: resend over TCP;
\*   fatal      - any other error, including cache_message's, is final.
TimerEvents == {"idle", "stale", "life"}

Outcomes == {"answer", "nohave", "delegation", "lame", "noedns", "tcp",
             "fatal"}

\* resquery_response for a query with a registered dispatcher entry.  The
\* reply is not guaranteed to come (no fairness).  The "answer" outcome
\* stops after cache_message, with the bucket lock released.
Response(q, outcome) ==
    LET qr == query[q]
        f  == qr.fctx
        fr == fctx[f]
        qt == [query EXCEPT ![q] = CancelQuery(qr)]
    IN  /\ OnTask(f) /\ qr.st = "live" /\ qr.resp
        /\ UNCHANGED <<res, bexiting>>
        /\ CASE outcome = "answer" ->
                /\ fctx' = [fctx EXCEPT ![f].haveAnswer = TRUE,
                                        ![f].answered = fr.events,
                                        ![f].caching = TRUE]
                /\ query' = qt
                /\ UNCHANGED <<fetch, failed>>
             [] outcome = "nohave" ->
                /\ UNCHANGED failed
                /\ \/ /\ \E fr1 \in Rearm(fr, "life") : fctx' = [fctx EXCEPT ![f] = fr1]
                      /\ query' = CancelQueries(qt, f)
                      /\ UNCHANGED fetch
                   \/ Done(f, fr, CancelQueries(qt, f), "FAILURE")
             [] outcome = "delegation" ->
                \/ Done(f, fr, qt, "SERVFAIL") /\ UNCHANGED failed
                \/ Try(f, [fr EXCEPT !.finds = 0, !.untried = 0],
                       CancelQueries(qt, f))
             [] outcome = "lame" -> Try(f, fr, qt)
             [] outcome = "noedns" ->
                /\ ~qr.noedns
                /\ Query(f, fr, qt, qr.tcp, TRUE) /\ UNCHANGED failed
             [] outcome = "tcp" ->
                /\ ~qr.tcp
                /\ Query(f, fr, qt, TRUE, qr.noedns) /\ UNCHANGED failed
             [] outcome = "fatal" ->
                Done(f, fr, qt, "FAILURE") /\ UNCHANGED failed

\* The rest of the "answer" outcome: ncache_message, then fctx_done, whose
\* fctx_sendevents keeps each event's own result since HAVEANSWER is set.
AnswerDone(f) ==
    /\ failed = "none" /\ Live(f) /\ fctx[f].caching
    /\ Done(f, [fctx[f] EXCEPT !.caching = FALSE], query, "SUCCESS")
    /\ UNCHANGED <<res, bexiting, failed>>

\* resquery_senddone: a failed send cancels the query.  The event names
\* the resquery_t; if the query was cancelled meanwhile it has been freed
\* (the XXXRTH note: the senddone is not waited for), and fctx_cancelquery
\* on it is a use after free.
SendDone(q, ok) ==
    LET qr == query[q] IN
    /\ failed = "none" /\ qr.senddone
    /\ TaskFree(BucketOf[fctx[qr.fctx].key])
    /\ UNCHANGED <<res, bexiting, fctx, fetch>>
    /\ IF ok
       THEN query' = [query EXCEPT ![q].senddone = FALSE] /\ UNCHANGED failed
       ELSE IF qr.st = "gone"
       THEN Abort("resquery_senddone: freed query")
       ELSE /\ query' = [query EXCEPT ![q] =
                           CancelQuery([qr EXCEPT !.senddone = FALSE])]
            /\ UNCHANGED failed

\* Mutation of Connected: a cancelled connecting query is not destroyed.
ConnectedNoDestroy(q, ok) ==
    LET qr == query[q] IN
    /\ failed = "none" /\ qr.connev
    /\ TaskFree(BucketOf[fctx[qr.fctx].key])
    /\ query' = [query EXCEPT ![q].connecting = FALSE, ![q].connev = FALSE,
                             ![q].resp = ~qr.canceled /\ ok,
                             ![q].senddone = ~qr.canceled /\ ok]
    /\ UNCHANGED <<res, bexiting, fctx, fetch, failed>>

\* resquery_connected: clear CONNECTING; a cancelled query is destroyed,
\* which reads query->fctx->res and so needs the fctx still allocated;
\* otherwise send on success (resquery_send may fail) or cancel on error.
Connected(q, ok) ==
    LET qr  == query[q]
        qr1 == [qr EXCEPT !.connecting = FALSE, !.connev = FALSE]
    IN  /\ failed = "none" /\ qr.connev
        /\ TaskFree(BucketOf[fctx[qr.fctx].key])
        /\ UNCHANGED <<res, bexiting, fctx, fetch>>
        /\ IF qr.canceled
           THEN IF fctx[qr.fctx].st = "gone"
                THEN Abort("resquery_destroy: freed fctx")
                ELSE /\ query' = [query EXCEPT ![q] = [qr1 EXCEPT !.st = "gone"]]
                     /\ UNCHANGED failed
           ELSE /\ \/ ok /\ query' = [query EXCEPT ![q] =
                           [qr1 EXCEPT !.resp = TRUE, !.senddone = TRUE]]
                   \/ query' = [query EXCEPT ![q] = CancelQuery(qr1)]
                /\ UNCHANGED failed

(***************************************************************************)
(* The specification.                                                      *)
(***************************************************************************)

\* A frozen resolver just out of dns_resolver_create: every bucket active
\* and empty, no fetches, no shutdown listener.
Init ==
    /\ res = [frozen |-> FALSE, refs |-> 1, owner |-> TRUE,
              users |-> [u \in Users |-> "none"], freed |-> FALSE,
              exiting |-> FALSE, activebuckets |-> NBuckets,
              listener |-> "none"]
    /\ bexiting = [b \in BucketIds |-> FALSE]
    /\ fctx = [f \in FctxIds |-> FreeFctx]
    /\ query = [q \in QueryIds |-> FreeQuery]
    /\ fetch = [c \in Callers |-> [st |-> "idle", fctx |-> 0, cancelled |-> FALSE,
                                   result |-> "none", n |-> 0]]
    /\ failed = "none"

Next ==
    \/ \E c \in Callers : CreateFetch(c) \/ CancelFetch(c) \/ DestroyFetch(c)
    \/ ResolverShutdown \/ WhenShutdown \/ Freeze
    \/ \E h \in Users : Attach(h)
    \/ \E h \in Users \cup {"owner"} : Detach(h)
    \/ \E f \in FctxIds :
          \/ Start(f) \/ DoShutdown(f) \/ AnswerDone(f)
          \/ \E k \in TimerEvents : Timeout(f, k)
          \/ \E more \in BOOLEAN : FindDone(f, more)
    \/ \E q \in QueryIds :
          \/ \E o \in Outcomes : Response(q, o)
          \/ \E ok \in BOOLEAN : SendDone(q, ok) \/ Connected(q, ok)

\* The bucket task runs every event posted to it, the timer manager fires
\* an armed timer, the ADB sends every find event it promised and the
\* socket manager completes every send and connect.  A reply from the
\* network may never come.  A caller that received its fetchevent calls
\* dns_resolver_destroyfetch, as the API requires; nothing obliges it to
\* create, cancel or shut down.
Fairness ==
    /\ \A f \in FctxIds :
          /\ WF_vars(Start(f)) /\ WF_vars(DoShutdown(f))
          /\ WF_vars(AnswerDone(f))
          /\ WF_vars(\E k \in TimerEvents : Timeout(f, k))
          /\ WF_vars(\E more \in BOOLEAN : FindDone(f, more))
    /\ \A q \in QueryIds :
          WF_vars(\E ok \in BOOLEAN : SendDone(q, ok) \/ Connected(q, ok))
    /\ \A c \in Callers : WF_vars(DestroyFetch(c))

Spec == Init /\ [][Next]_vars /\ Fairness

(***************************************************************************)
(* Properties.                                                             *)
(***************************************************************************)

TypeOK ==
    /\ res \in [frozen: BOOLEAN, refs: 0..Cardinality(Users) + 1,
                owner: BOOLEAN, users: [Users -> {"none", "held", "done"}],
                freed: BOOLEAN, exiting: BOOLEAN, activebuckets: 0..NBuckets,
                listener: {"none", "waiting", "notified"}]
    /\ bexiting \in [BucketIds -> BOOLEAN]
    /\ fctx \in [FctxIds -> FctxRec]
    /\ query \in [QueryIds -> QueryRec]
    /\ fetch \in [Callers -> FetchRec]
    /\ failed \in STRING

\* The callers holding a reference to fctx f: joined and not yet destroyed.
Holders(f) == {c \in Callers : fetch[c].fctx = f /\ fetch[c].st \in {"joined", "got"}}

\* Spec 8.1 and 7 ("each waiter observes exactly one result"), about
\* fctx_join, fctx_sendevents, cancelfetch, doshutdown and destroyfetch
\* together: every caller gets at most one fetchevent; a caller waiting
\* for it is on the events list of its fctx; that list holds only waiting
\* callers; and the reference count of a fctx counts its holders.
EventAccounting ==
    /\ \A c \in Callers :
          /\ fetch[c].n <= 1
          /\ fetch[c].st = "joined" =>
                /\ fctx[fetch[c].fctx].st \in {"init", "active"}
                /\ c \in fctx[fetch[c].fctx].events
    /\ \A f \in FctxIds : Live(f) =>
          /\ \A c \in fctx[f].events : fetch[c].st = "joined"
                                       /\ fetch[c].fctx = f
          /\ fctx[f].refs = Cardinality(Holders(f))

\* Spec 4.1 (shutdown and empty_bucket): once dns_resolver_shutdown ran,
\* activebuckets counts exactly the buckets that still hold a fctx, and a
\* whenshutdown listener is told only when no fctx is left.  The count is
\* kept by shutdown, every fctx_destroy caller and empty_bucket together.
ShutdownAccounting ==
    /\ ~res.exiting => res.activebuckets = NBuckets
    /\ res.exiting =>
          res.activebuckets = Cardinality({b \in BucketIds : InBucket(b) # {}})
    /\ res.listener = "notified" =>
          res.exiting /\ \A f \in FctxIds : ~Live(f)

\* dns_resolver_detach's INSIST and destroy's INSIST hold: with the owner
\* detaching only once its whenshutdown event came and the users detaching
\* whenever they like, the last reference finds the resolver exiting with
\* no active bucket and every bucket's fctx list empty, whatever createfetch
\* calls and bucket-task handlers ran after the notification.
LastDetachSafe ==
    failed \notin {"dns_resolver_detach: INSIST(exiting, no active bucket)",
                   "destroy: INSIST(bucket fctxs empty)"}

\* Every resquery_t that fctx_query allocates is eventually freed: by
\* fctx_cancelquery, or by resquery_connected once a cancelled TCP connect
\* completes.  A process that aborted frees nothing.
QueryReleased ==
    \A q \in QueryIds :
        query[q].st = "live" ~> (query[q].st = "gone" \/ failed # "none")

\* Spec 8.1 and 7 ("each waiter observes exactly one result"): a caller
\* joined to a fctx eventually receives its fetchevent, whatever the
\* network does, since the lifetime timer bounds every fetch.
WaiterAnswered ==
    \A c \in Callers :
        fetch[c].st = "joined" ~> (fetch[c].st = "got" \/ failed # "none")

\* Spec 4.1: when activebuckets reaches zero the whenshutdown listeners are
\* told.  Once dns_resolver_shutdown ran and every caller destroyed its
\* fetch, every fctx must eventually be destroyed.
ShutdownCompletes ==
    res.exiting ~> (res.activebuckets = 0 \/ failed # "none")

\* fctx_start's INSIST(ISC_LIST_EMPTY(fctx->events)): a fctx whose shutdown
\* was requested before its start event ran has no waiters.
StartInsistHolds == failed # "fctx_start: INSIST(events empty)"

\* resquery_senddone and resquery_connected only touch memory that is
\* still allocated: the query a senddone names, the fctx a cancelled
\* connecting query points to.
NoUseAfterFree ==
    failed \notin {"resquery_senddone: freed query",
                   "resquery_destroy: freed fctx"}

\* Spec 8 scenario 6 (duplicate coalescing): the waiters of one fctx that
\* were not cancelled all receive the same result from fctx_sendevents.
CoalescedResultsAgree ==
    \A c, d \in Callers :
        (/\ fetch[c].st \in {"got", "done"} /\ fetch[d].st \in {"got", "done"}
         /\ fetch[c].fctx = fetch[d].fctx
         /\ "CANCELED" \notin {fetch[c].result, fetch[d].result})
        => fetch[c].result = fetch[d].result

\* Spec 8.2: after dns_resolver_shutdown no fetchevent is delivered with
\* SUCCESS; the waiters still pending observe CANCELED.
NoSuccessAfterShutdown ==
    [][\A c \in Callers :
         (res.exiting /\ fetch[c].st = "joined" /\ fetch'[c].st = "got")
         => fetch'[c].result # "SUCCESS"]_vars

\* Spec 4.1: createfetch joins a matching fctx that is not done, so at most
\* one fctx per question is ever in state init or active.
OneActiveFctxPerKey ==
    \A f, g \in FctxIds :
        (f # g /\ fctx[f].st \in {"init", "active"}
               /\ fctx[g].st \in {"init", "active"})
        => fctx[f].key # fctx[g].key
\* The refinement mapping to the fetch API's contract: a caller's fetch
\* phase is its dns_fetch_t state, its result the one its fetchevent
\* carried, and the resolver's exiting flag and whenshutdown listener are
\* its own.
Phase == [idle |-> "idle", refused |-> "refused", joined |-> "waiting",
          got |-> "answered", done |-> "released"]

\* A waiter's fetch is given up once fctx_shutdown marked its fctx.
Orphaned == {c \in Callers : fetch[c].st = "joined" /\ fctx[fetch[c].fctx].wantShutdown}

Service == INSTANCE FetchService WITH
    Question <- KeyOf,
    asked    <- {c \in Callers : fetch[c].cancelled},
    caller   <- [c \in Callers |-> Phase[fetch[c].st]],
    result   <- [c \in Callers |-> fetch[c].result],
    exiting  <- res.exiting,
    listener <- res.listener,
    orphaned <- Orphaned

\* The fetch machine implements FetchService (spec 4.1, 5 and 7): every
\* step of createfetch, cancelfetch, destroyfetch, the bucket task's
\* handlers and shutdown is a step of the contract or invisible to callers:
\* one result per waiter and kept; CANCELED to a waiter only from its own
\* cancelfetch, from the resolver's shutdown, or because it joined a fctx
\* that the last destroyfetch of another caller had already shut down;
\* SHUTTINGDOWN refusals only after shutdown; and the listener told only
\* once no caller waits.
FetchServiceRefined == Service!Spec
=============================================================================
