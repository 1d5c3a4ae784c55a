# TLA+ models of the BIND 9 iterative resolver (lib/dns/resolver.c)

This directory holds TLA+ specifications of the 1999 iterative resolver in
`src/lib/dns/resolver.c`, the TLC configurations that check them, and
`PROJECT.json`. That file lists the components, the runs, the mutants, the
map from every definition to the source lines it models, the findings, and
the hazards of the code.

## The system

`resolver.c` answers DNS questions for its callers by asking remote servers.
Its parts, and how they interact:

- **Buckets.** The fetch contexts are partitioned by `hash(name) % nbuckets`.
  Each bucket has a lock, a task and a list of fetch contexts.
  - Callers run the API (`createfetch`, `cancelfetch`, `destroyfetch`) under
    the bucket lock.
  - All I/O callbacks of a fetch context run on the bucket's task, one event
    at a time.
- **Fetch context (`fctx`).** There is one per question. Its state is
  `init`, then `active`, then `done`.
  - It holds the callers' `fetchevent`s (one per waiter) and a reference
    count (one per `dns_fetch_t`).
  - Its attributes include ADDRWAIT, SHUTTINGDOWN and HAVEANSWER.
  - It has a counter of ADB events still owed (`pending`), a list of finds,
    a list of outstanding queries, and one one-shot timer.
  - One `control_event` is reused: first it is the start event, then the
    doshutdown event.
- **Address acquisition.** `fctx_getaddresses` asks the ADB for every NS
  name. Each name either yields addresses now, or promises a find event
  (`pending++`), or neither.
  - `fctx_try` sends to the next address, or starts a new round.
  - `fctx_finddone` handles the ADB's find events.
- **Queries (`resquery_t`).** `fctx_query` arms the timer and sends the query.
  - Over UDP it uses the shared dispatcher.
  - Over TCP it uses a private socket, with a connect first.
  - `resquery_senddone` and `resquery_connected` handle the socket events.
  - `fctx_cancelquery` frees a query at once, unless a connect is still
    pending.
- **Replies.** `resquery_response` parses and classifies a reply. It then
  does one of these:
  - keeps trying (lame server, delegation);
  - resends (without EDNS0, or over TCP);
  - waits with only the lifetime timer (success without HAVEANSWER);
  - calls `fctx_done`.
- **Shutdown.** `dns_resolver_shutdown` calls `fctx_shutdown` on every fctx
  and marks the buckets exiting.
  - Each `fctx_destroy` of the last fctx of an exiting bucket calls
    `empty_bucket`.
  - When `activebuckets` reaches 0 the `whenshutdown` listeners are told.
- **Outside this repository:** the task manager, the timer manager, the
  socket manager, the ADB, the dispatcher, the cache database and the view.
  Their behaviour enters the models only as the events they deliver.
- **Also in `src/` and not part of the resolver:**
  - the t_api test driver glued to the end of `resolver.c` (lines 3981-4711);
  - `src/bin/tests/adb_test.c`;
  - `src/bin/tools/named-journalprint.c`;
  - a type declaration in `src/unnamed/part_000`.

## Modules

### `Resolver.tla`: the fetch-context machine

Each API call and each task handler is one atomic action. The bucket lock
makes an API call atomic. The task runs one event at a time to completion.

The two places where `resquery_response` releases the bucket lock are a
separate step. After `cache_message` returns, the lock is free until
`fctx_done` takes it. So the "answer" outcome sets `caching`, and
`AnswerDone` finishes it later. While a fctx is `caching`, the bucket's
other task handlers are disabled (`TaskFree`), but callers may run.

State:

| variable | code |
|---|---|
| `res` | `dns_resolver_t`: `frozen`, `references` (`refs`), which holders have a reference (the creator `owner` and each user in `users`), `freed` once `destroy` ran, `exiting`, `activebuckets`, and the `whenshutdown` listener (`none`, `waiting` or `notified`) |
| `bexiting` | `fctxbucket_t.exiting` |
| `fctx[f]` | `fetchctx_t` |
| `query[q]` | `resquery_t` |
| `fetch[c]` | the caller's `dns_fetch_t` and the `fetchevent` it receives |
| `failed` | the INSIST/REQUIRE that aborted the process, or a use of freed memory |

Details of `fctx[f]`:
- State, plus `gone` once freed.
- `wantShutdown`, `refs`, and `events` (the waiting callers).
- `ctl`: the queued control event.
- The attributes.
- `pending`, `restarts`, `timer` (`off`, `idle` or `life`), and `finds` and
  `untried` as counts.
- `staleTick`: an idle tick already queued for the task when the timer
  was reset. `fctx_starttimer` and `fctx_stopidletimer` reset without
  purging (`Rearm`), so the tick survives and `fctx_timeout` later handles
  it as an idle timeout. Only `fctx_stoptimer` purges (in `DoneRec`).

Details of `query[q]`:
- `live` or `gone` (freed).
- Linked on `fctx->queries`, CONNECTING, CANCELED, TCP, NOEDNS0.
- A registered dispatcher entry (`resp`).
- A senddone or connect event still to come.

Fetch contexts and queries occupy slots `1..MaxFctxs` and `1..MaxQueries`.
A slot is never reused. Slot order therefore equals the order of the
bucket list. That order matters to `createfetch`, which takes the first
match.

Actions, one per function:

| action | function |
|---|---|
| `CreateFetch` | `dns_resolver_createfetch` |
| `CancelFetch` | `dns_resolver_cancelfetch` |
| `DestroyFetch` | `dns_resolver_destroyfetch` |
| `ResolverShutdown` | `dns_resolver_shutdown` |
| `WhenShutdown` | `dns_resolver_whenshutdown` |
| `Freeze` | `dns_resolver_freeze` |
| `Attach` | `dns_resolver_attach` |
| `Detach` | `dns_resolver_detach`, plus `destroy` (`DestroyRes`) at the last reference |
| `Start` | `fctx_start` |
| `DoShutdown` | `fctx_doshutdown` |
| `Timeout` | `fctx_timeout`: the lifetime tick, the idle tick, or a stale idle tick (`TimerEvents`) |
| `FindDone` | `fctx_finddone` |
| `Response` and `AnswerDone` | `resquery_response` |
| `SendDone` | `resquery_senddone` |
| `Connected` | `resquery_connected` |

The functions they call are helpers. Each action includes everything its
handler does:

| helper | function |
|---|---|
| `Try` | `fctx_try` |
| `NewRound` | `fctx_getaddresses` |
| `Query` | `fctx_query` and `resquery_send` |
| `Done` and `DoneRec` | `fctx_done` and `fctx_stopeverything` |
| `SendEvents` | `fctx_sendevents` |
| `Destroy` | `fctx_destroy`, plus `empty_bucket` |
| `FctxShutdown` | `fctx_shutdown` |
| `CancelQuery` and `CancelQueries` | `fctx_cancelquery` and `fctx_cancelqueries` |

Abstractions:
- A question is a model value.
- An address is a count.
- A reply is the outcome `resquery_response` derives from it (`Outcomes`).
- Every allocation, socket, send, view or ADB failure is a nondeterministic
  branch that takes the code's error path.

The resolver object. `dns_resolver_create` leaves one reference, held by
the creator (`owner`). Callers reach the resolver through a view that
froze it, so `CreateFetch` needs `frozen` and not `freed`. The owner calls
`dns_resolver_shutdown` and `whenshutdown`, and detaches once its event
came; the model's `Users` attach and detach at any time. The last
`Detach` runs `destroy`. The checks of both functions are aborts of the
model: `attach` after shutdown, a last detach that finds the resolver not
exiting or with an active bucket, and `destroy` finding a fctx left.

A failed INSIST or REQUIRE, or an operation on freed memory, sets `failed`
and stops the process: nothing is enabled afterwards. In this code a use of
freed memory is undefined behaviour, and an abort is the outcome the
assertions make likely.

### `MCResolver.tla`: instantiation for TLC

This module declares the callers `c1`, `c2`, `c3`, the question `k1` and
the resolver user `u1` as model values. `MCCallerSymmetry` permutes the
callers, which are interchangeable since they all ask `k1`; core_safety
uses it. It defines `KeyOf` and `BucketOf` for one, two or three
callers. Every caller asks the same question in one bucket, because sharing
a question is what makes callers interact.

### `AddressSelection.tla`: choosing the server to query

This module models one fetch context's server choice at the level of the
lists the code keeps, where `Resolver` counts addresses:
- `fctx.forwaddrs` and `fctx.finds` are sequences. A position `<<i, j>>` is
  the j-th addrinfo of find i; find 0 stands for the forwarder list.
- `fctx.cursor` is `fctx->find`, and `fctx.marked` holds the positions with
  `DNS_FETCHOPT_MARK` set.
- `adb` is the ADB: the SRTT per address, and the names whose addresses it
  already holds.

The code helpers are operators:
- `SortAdbFind` and `SortFinds` are `sort_adbfind` and `sort_finds`. Both
  are the code's selection sorts, which take the first least element.
- `Scan` and `NextAddress` are the loop of `fctx_nextaddress`. It starts
  after the current find and stops on reaching it again.
- `SetRetryInterval` is `fctx_setretryinterval`.
- `Penalised` is the RTT penalty that `fctx_cancelquery` applies to
  unanswered queries.
- `GetAddresses` and `Outcome` are `fctx_getaddresses`: the failsafe,
  forwarders, policy `only`, the createfind outcome per NS name, and the
  WAIT, FAILURE and SUCCESS results.
- `Try` is `fctx_try`.

The actions are the handlers that call `fctx_try`: `Start`, `Timeout`,
`FindDone` and `Response`. `Response` covers the replies that matter here:
an answer, a fatal error, no answer, a lame server, a delegation to a new
zone cut, and a resend. It also lets the ADB learn a new SRTT.

The history variables only record what the properties need:
- `picks`: the positions handed out this round;
- `sent`: the restarts, SRTT and interval of the last query;
- `skipped`: the unmarked addresses left when `fctx_nextaddress` last
  returned NULL.

`MCAddressSelection.tla` gives two NS names with overlapping address
lists (`<<2, 1>>` and `<<3, 2>>`), a forwarder at address 3, SRTTs 0.4 s
and 1.2 s, and learned SRTTs of 0.3 s and 16 s. The 16 s SRTT drives the
interval to its 30 s clamp.

### `LockOrder.tla`: the resolver and bucket mutexes

Each thread runs one operation at a time, as the sequence of `LOCK` and
`UNLOCK` calls along one path through the code:
- the owner runs `dns_resolver_shutdown` (`res->lock`, then every bucket
  lock in turn), `attach`, `whenshutdown` and `detach`;
- the callers run `createfetch` and `cancelfetch` (the bucket lock) and
  `destroyfetch`, with `empty_bucket` after the unlock;
- each bucket task runs the handlers that lock the bucket (`fctx_start`,
  `fctx_doshutdown`, `fctx_finddone`, `fctx_done`, `cache_message` and
  `ncache_message`), with `empty_bucket` where the code calls it.

`Step` blocks on a held mutex. `MCLockOrder.tla` uses two buckets with
their tasks, the owner and one caller.

### `FetchService.tla` and the refinement: what a caller is promised

`FetchService` is the contract of the fetch API, with no fctx, bucket,
query or timer in it. A caller's fetch is `idle`, `refused`, `waiting`,
`answered` or `released`:
- `createfetch` is refused with SHUTTINGDOWN once the resolver is exiting.
  Otherwise the caller waits, or the call fails with NOMEMORY.
- A waiter receives exactly one result and keeps it until `destroyfetch`.
- CANCELED comes from the caller's own `cancelfetch` (the contract keeps
  the set `asked` of callers that called it), from the resolver's
  shutdown, or to a waiter whose fetch was given up (`orphaned`). Spec
  4.2 says the last `destroyfetch` shuts the fctx down and `doshutdown`
  fans CANCELED to the waiters still on it; a caller that joined in
  between is such a waiter. The contract lets a waiter join a given-up
  fetch only when another caller of the same question has released its
  fetch, and a resolver shutdown gives up every waiter's fetch.
- A `whenshutdown` listener is told only when the resolver is exiting and
  no caller waits.

`Resolver.tla` instantiates it as `Service`, with this refinement mapping:
- `Phase` maps each caller's `fetch[c].st` to a phase of the contract;
- `result` is the result its fetchevent carried;
- `exiting` and `listener` are the resolver's own;
- `Question` is `KeyOf`;
- `asked` is the set of callers whose `fetch[c].cancelled` is set. This
  field of the caller's record says that the caller called
  `dns_resolver_cancelfetch`; it is set by `CancelFetch` and read by
  nothing else;
- `orphaned` (`Orphaned`) is the set of joined callers whose fctx has
  `want_shutdown` set.

`FetchServiceRefined == Service!Spec` is a PROPERTY of core_safety, so it
is checked on every behaviour that run reaches. The contract states no
agreement between waiters and no liveness. So two waiters that get
different results (join_while_caching), an abort, or a caller never
answered (finddone_stall) do not break it.

### `Classify.tla`: classifying a reply and caching it

This module models what `resquery_response` does with one reply that
parsed, for one fetch of `(QName, QType)`. The fetch receives up to
`MaxResponses` replies from `Replies`.

Data:
- A name is its sequence of labels from the root, so
  `dns_name_issubdomain` is `IsPrefix`.
- A message is a record of rcode, AA, whether `same_question` accepted
  it, and three sections.
- A section is a sequence of owner names. Each name has a sequence of
  rdatasets `[type, covers, target]`.
- The TTLs, the rdata other than NS, CNAME and DNAME targets, and the
  wire format are left out.

The marking walk is a record `w`, with one entry per rdataset position.
It holds:
- the CACHE and ANSWER marks, the trust, EXTERNAL and CHAINING;
- answer_response's locals (`qname`, `chaining`, `done`, `have_answer`,
  `want_chaining`);
- the return value;
- what the walk does to `fctx->domain`, WANTCACHE and WANTNCACHE.

| definition | code |
|---|---|
| `MarkRelated`, `CheckRelated`, `AdditionalData` | `mark_related`, `check_related`, the `additionaldata` calls |
| `DnameTarget` | `dname_target` |
| `QNameSet`, `OtherSet`, `Found`, `AnswerSets`, `AnswerNames` | `answer_response`'s loop over qname and CNAME, its DNAME loop, and the `if (found)` block |
| `AnswerAuthority`, `CacheSets` | `answer_response`'s authority section |
| `AnswerResponse` | `answer_response`'s checks after the loops |
| `InDomainFirst`, `NoanswerResponse` | `noanswer_response` |
| `Classification` | the rcode check, `same_question` and the dispatch in `resquery_response` |
| `CacheName`, `ChainResult`, `Visit`, `CacheMessage` | `cache_name` and `cache_message` |
| `NcacheMessage` | `ncache_message` |
| `FindZoneCut` | the `dns_view_findzonecut` step after a referral |
| `Finish` | `fctx_done` with `fctx_sendevents`' result |
| `Response` | `resquery_response` from the caching to label `done` |
| `LifetimeExpired`, `StaleIdleTick` | `fctx_timeout`'s two branches, after `fctx_stopidletimer` |

The cache and the view are collaborators from outside the repository:
- every cache add succeeds;
- a zone cut is the deepest cached NS at or above a name, else the root;
- `secroots` fixes which names the view treats as secure. Data under a
  secure root makes `cache_name` return NOTIMPLEMENTED, because this
  build has no validator.

`MCClassify.tla` gives:
- names under `org` (`isc.org`, `www.isc.org`, `evil.org`) and under
  `net`, a cache holding only the NS of `org`, and `MaxLabels = 3`;
- nineteen replies, each one a case of the code:
  - referrals: down, sideways, up, and with out-of-zone glue;
  - answers, with and without extra names;
  - CNAME chains: inside the zone, outside it, with an NXDOMAIN tail,
    into a DNAME, and too long;
  - a DNAME;
  - a SIG only;
  - NXDOMAIN, including NXDOMAIN with an answer;
  - NODATA with one authority name and with two;
  - SERVFAIL;
  - a mismatched question.

## Runs

Runs marked **pass** must pass. Runs marked **violation** demonstrate a
disagreement between the code and what the spec, a comment or an assertion
says. Every violation run checks exactly one property.

| run | cfg | expect | checks |
|---|---|---|---|
| core_safety | `MCResolver.cfg` | pass | `TypeOK`, `EventAccounting`, `ShutdownAccounting`, `FetchServiceRefined` |
| queries_released | `MCResolverLive.cfg` | pass | `LastDetachSafe`, `QueryReleased` |
| start_race | `MCStartRace.cfg` | violation | `StartInsistHolds` |
| use_after_free | `MCUseAfterFree.cfg` | violation | `NoUseAfterFree` |
| join_while_caching | `MCJoinWhileCaching.cfg` | violation | `CoalescedResultsAgree` |
| finddone_stall | `MCFindDoneStall.cfg` | violation | `WaiterAnswered` |
| zombie_fctx | `MCZombieFctx.cfg` | violation | `ShutdownCompletes` |
| address_selection | `MCAddressSelection.cfg` | pass | `TypeOK`, `PicksDistinct`, `RetryIntervalAsSpecified`, `SortsAsSpecified` |
| lock_order | `MCLockOrder.cfg` | pass | `NoWaitCycle` (and deadlock) |
| classify | `MCClassify.cfg` | pass | `TypeOK`, `InBailiwick`, `AnswerCached`, `ReferralDescends` |
| sideways_referral | `MCSidewaysReferral.cfg` | violation | `AnswerInsistHolds` |
| negative_stall | `MCNegativeStall.cfg` | violation | `ResponseSettles` |

What the passing runs check:
- **`EventAccounting`** (spec 8.1 and 7) relates every caller to its fctx:
  - every caller gets at most one event;
  - a waiting caller is on its fctx's event list;
  - that list holds only waiting callers;
  - `references` equals the number of callers holding the fetch.
- **`ShutdownAccounting`** says that after shutdown, `activebuckets` counts
  exactly the buckets that still hold a fctx, and that a listener is told
  only when no fctx is left.
- **`LastDetachSafe`** says that the last `dns_resolver_detach`, whether
  the owner's (after its whenshutdown event) or a user's (at any time),
  passes detach's INSIST (exiting, no active bucket) and destroy's INSIST
  (every bucket's fctx list empty). Breaking it takes a fctx created after
  the notification, for instance a `createfetch` that ignores the bucket's
  exiting flag (the mutant `CreateFetchIgnoreExiting`).
- **`QueryReleased`** says that every `resquery_t` is eventually freed. This
  includes a cancelled TCP connect, which only `resquery_connected` frees.
- **`PicksDistinct`** says that within one round, `fctx_nextaddress` never
  hands out the same addrinfo twice. Breaking it takes the cursor moving
  from the forwarders to the finds, timer ticks, replies and new zone
  cuts. The marks must survive all of them.
- **`RetryIntervalAsSpecified`** (spec 8.4 and line 90) says that every
  interval `fctx_query` arms equals the spec's formula and lies in
  `[2, 30]` seconds, for each restart count and SRTT the fetch reaches.
  This includes penalised SRTTs and the 16 s SRTT that hits the clamp.
- **`SortsAsSpecified`** says that both selection sorts are stable
  ascending sorts by SRTT, for the SRTTs the run produces.
- **`NoWaitCycle`** says that no set of threads waits on each other in a
  circle, checked with `HasCycle` of the Graphs module on the wait-for
  graph. The TLC deadlock check is on, because every idle thread can
  always start another operation. The run shows that the code is
  deadlock-free even though `dns_resolver_shutdown` takes the locks in the
  order res then bucket. The spec (its section on locks) says the resolver
  lock is never held while calling into a bucket, and that the bucket
  comes before the resolver. The code does the reverse in
  `dns_resolver_shutdown`, and is safe only because `empty_bucket` is
  always called after the bucket lock is released.

- **`FetchServiceRefined`**: every step of the fetch machine is a step of
  the `FetchService` contract, or invisible to callers. This covers
  createfetch, cancelfetch, destroyfetch, the task handlers, the timer and
  shutdown. Breaking it takes a second result for a waiter, a
  createfetch accepted after shutdown, a listener told too early, or a
  CANCELED to a waiter that did not cancel, with no resolver shutdown,
  while its fetch is still held by another caller. The run reaches the
  spurious CANCELED of a caller that joined a fctx whose last
  `destroyfetch` had already shut it down, and the contract accepts it
  only through `orphaned`: with that case removed from `Answer`, the run
  fails on that trace.
- **`InBailiwick`**: everything `cache_name` writes lies at or below the
  domain of the servers that sent it. It depends on the EXTERNAL marks of
  `answer_response` and `check_related`, and on `noanswer_response` only
  looking inside the domain. A reply cached after a stale idle tick or a
  referral must keep it too.
- **`ReferralDescends`** (spec 8.7): `fctx->domain` only moves down the
  tree. It ties the NS owner `noanswer_response` follows to the zone cut
  `findzonecut` then finds.
- **`AnswerCached`**: the result the waiters receive is backed by the
  cache:
  - SUCCESS by data at QName;
  - CNAME and DNAME by the chain's record;
  - NCACHENXDOMAIN and NCACHENXRRSET by the negative entry.

  Getting it right needs several things to agree: the ANSWER marks, the
  chained result of `cache_name`, the NOTIMPLEMENTED of data under a
  secure root, `ncache_message`'s "only when there is no answer yet", and
  `fctx_sendevents` keeping the event's result. The run reaches replies
  that mix answers with NXDOMAIN, stale WANTCACHE flags left by a failed
  reply, and restarts by a stale idle tick.

What the violation runs show (details in `PROJECT.json` under "findings"):
- **start_race.** Caller A creates a fetch, then cancels and destroys it
  before `fctx_start` runs. Caller B then joins the same fctx, which is still
  `init` with `want_shutdown` set. `fctx_start`'s INSIST fails.
- **use_after_free.** A failed senddone arrives for a UDP query that was
  already cancelled and freed, and `resquery_senddone` cancels it again. For
  example, the fetch timed out, or shutdown cancelled the socket's sends.
- **join_while_caching.** A caller joins between `cache_message` and
  `fctx_done`. It receives `fctx_join`'s SERVFAIL default, while the other
  waiter of the same fctx receives SUCCESS.
- **finddone_stall.** A fetch is waiting on two ADB finds. A
  NOMOREADDRESSES for the first clears ADDRWAIT, and the MOREADDRESSES for
  the second is then ignored. No query was sent, so no timer is armed, and
  the waiter never gets an answer.
- **zombie_fctx.** `fctx_doshutdown` leaves ADDRWAIT set on a fctx that is
  waiting for the ADB. The late find event fails the already-done fctx
  again, and the destroy branch is skipped. The fctx leaks, and
  `whenshutdown` never fires.
- **sideways_referral.** The `org` servers refer the fetch to `evil.org`.
  `noanswer_response` checks the NS owner only against `fctx->domain`
  (`org`), not against the question. So it accepts the referral, and
  `fctx->domain` becomes `evil.org`. The next reply answers `www.isc.org`
  from the `isc.org` servers. That name is outside the new domain, and
  `answer_response`'s INSIST(!external) aborts the process. On the way,
  the `evil.org` servers may also answer NXDOMAIN, and that entry is
  negatively cached for `www.isc.org`.
- **negative_stall.** A NODATA reply has both an SOA owner and an NXT
  owner in its authority section. `noanswer_response` looks only at the
  first authority name, and returns SUCCESS at the second without
  classifying anything. `resquery_response` then has nothing to cache and
  no HAVEANSWER. It cancels the queries and stops the idle timer, so the
  fetch waits for the lifetime timer and ends TIMEDOUT. `answer_response`
  has the same early return when names remain after the chain was
  followed (`AnswerPlus`).

Three divergences found in the first sitting still have their property in
the modules, but no run now. The number of runs is limited, and the
classification runs took their places:
- `NoSuccessAfterShutdown` (Resolver): a reply handled before the posted
  doshutdown still delivers SUCCESS, against spec 8.2.
- `OneActiveFctxPerKey` (Resolver): `createfetch` stops at the first
  matching fctx. When that one is done, it creates a second active fctx
  for the same question, against spec 4.1.
- `RoundExhaustive` (AddressSelection): `fctx_nextaddress` wraps around
  to the current find and returns NULL without looking at the rest of it.

Two more divergences are reached by the classify run, and no property of a
run forbids them:
- An answer that starts with a DNAME always ends FORMERR, because
  `have_answer` is set only in the loop over qname (spec 8.6).
- A CNAME whose target is NXDOMAIN sets both WANTCACHE and WANTNCACHE. The
  chain and a negative entry for the original name are then cached
  together (spec 8.8).

Every property of a passing run has a mutant in `PROJECT.json`, a plausible
bug that the run must catch:

| mutant | property that catches it |
|---|---|
| `NewRoundNoCap`: the restart failsafe dropped | `TypeOK` |
| `CancelFetchNoUnlink`: the cancelled event left on the list | `EventAccounting` |
| `DestroyAnyEmpties`: `empty_bucket` without checking that the list is empty | `ShutdownAccounting` |
| `ConnectedNoDestroy`: a cancelled connect not freed | `QueryReleased` |
| `CleanupKeepCursor`: `fctx_cleanupfinds` leaves `fctx->find` set | `TypeOK` |
| `FirstUnmarkedNoMark`: the MARK test dropped in `fctx_nextaddress` | `PicksDistinct` |
| `SetRetryIntervalNoClamp`: the 30 s clamp dropped | `RetryIntervalAsSpecified` |
| `FirstLeastLast`: the sort takes the last least element (`<=`) | `SortsAsSpecified` |
| `DestroyFetchEmptyUnderLock`: `empty_bucket` before the bucket unlock | `NoWaitCycle` |
| `DestroyFetchShutdownAlways`: `destroyfetch` calls `fctx_shutdown` without waiting for the last reference | `FetchServiceRefined` |
| `CreateFetchIgnoreExiting`: `createfetch` does not check the bucket's exiting flag | `LastDetachSafe` |
| `MarkRelatedNoExternal`: `mark_related` never sets EXTERNAL | `InBailiwick` |
| `MarkRelatedNoTrust`: `mark_related` leaves the trust unset | `TypeOK` |
| `InDomainFirstAny`: `noanswer_response` takes the first authority name without the subdomain check | `ReferralDescends` and `InBailiwick` |
| `ChainResultNone`: `cache_name` returns SUCCESS for a chained answer | `AnswerCached` |

## Bounds

Common to all configurations:
- `NBuckets = 1`: all callers share a bucket, a lock and a task.
- `CanShutdown` is TRUE where shutdown matters.

**core_safety:**
- Two callers, so that they coalesce, race the start and shutdown, and join
  during caching.
- `MaxFctxs = 2`: a done fctx plus a new one for the same question.
- `MaxQueries = 2`: a first query plus a resend or a retry, including the
  TCP path.
- `NSCount = 1`.
- `RestartLimit = 2`: the failsafe is reached by a chain of ADB waits.

- No resolver user (`Users = {}`): the owner's own detach is the last.
- Symmetry over the callers.

The run explores 1.52 million distinct states in about 2 minutes, with the
refinement check. (Before the stale tick and the lifecycle were added,
`NSCount = 2` explored 14.8 million states in 10 minutes with the same
result.)

**queries_released:** one caller and `NSCount = 2`, so that both
`fctx_finddone` branches for a non-final NOMORE are covered. One user
`u1` besides the owner, so that either may make the last detach, before or
after shutdown, while a fetch is running or after it ended. About 36,000
distinct states.

**Violation runs:** the smallest bounds that contain the scenario. Two NS
names are used for finddone_stall and zombie_fctx.

`RestartLimit` stands for the constant 10 of `fctx_getaddresses`. Lowering
it makes the failsafe reachable within the query bound, and the logic
around it is unchanged.

**address_selection:**
- `RestartLimit = 3` reaches both branches of the schedule: 2 s for
  restarts 0 to 2, and `2 << (restarts - 1)` from 3.
- One forwarder under policy `first`, ahead of two NS names and two
  zone cuts.
- The run explores about 490,000 distinct states in about 2 minutes.
- With `RestartLimit = 4` and no forwarders it takes 43 seconds, and
  with 5 it takes about 3 minutes, with the same result.

**classify:**
- `MaxResponses = 4`, enough for these sequences: a referral, a reply
  that leaves WANTCACHE set, a stale idle tick, and a final reply.
- `MaxLabels = 3` makes the DNAME expansion of `CnameDnameLong` overflow
  (NOSPACE), while every other name fits.
- The two `secroots` choices put the secure root under the answer's zone
  (`isc.org`) or under the external chain (`x.net`). So NOTIMPLEMENTED
  appears both for the answer and for chained data.
- The run explores 567 distinct states in about a second. Every reply can
  follow every other, so longer sequences only repeat these cases.

**sideways_referral** needs three replies, and **negative_stall** needs
one.

**lock_order:**
- Two buckets, so that shutdown holds one bucket while another is busy.
- One caller and both bucket tasks next to the owner.
- More threads of a kind add no lock order that one thread of the kind
  does not already have.

## Fairness

`Fairness` in `Resolver.tla` gives weak fairness to the following, because
the code relies on each of these events eventually arriving:
- every task handler of a fctx (`Start`, `DoShutdown`, `AnswerDone`);
- an armed timer firing (`Timeout`);
- the ADB delivering each find event it promised (`FindDone`);
- the socket manager completing every send and connect (`SendDone`,
  `Connected`);
- a caller that received its event calling `destroyfetch`. The API
  requires this: it is how the caller releases its reference.

`AddressSelection` gives weak fairness to `Start`, the timer and each
name's find events, for the same reasons. It checks no liveness property.
A fetch need not terminate there, because the finddone stall of
`Resolver` can also be reached in this module.

`Classify` has no fairness and checks only safety: its replies are up to
the network.

These have no fairness:
- replies, which the network may lose;
- the callers' `createfetch`, `cancelfetch` and `shutdown` calls;
- `freeze`, `attach` and `detach`, which the resolver's users make when
  they like.

## Not modelled

1. **Forwarders in `Resolver`.** Forwarders are modelled only in
   `AddressSelection`. `Resolver` counts addresses and does not tell
   forwarders apart.
2. **Composition of `Classify` with `Resolver`.** `Resolver`'s `Response`
   takes the reply's outcome from `Outcomes`. `Classify` computes the
   outcome from the message for one fetch, but without callers, queries
   or a shutdown. Joining them would multiply `Resolver`'s 2.3 million
   states by the reply sequences.
3. **Time.** The models have no clock. A timer tick is an event that may
   come whenever the timer is armed, and a stale tick is one that was
   queued before a reset without purge.
4. **The `adb_test.c` client list.** It is a test program, with a list
   filled by `lookup()` and drained by a callback, both under one mutex,
   outside the library. Every run this project can afford checks the
   library itself.

The t_api driver, `named-journalprint.c` and the X25 type declaration have
no concurrent or stateful behaviour to check. Message rendering and
parsing are wire-format data. They enter `Resolver` as outcomes and
`Classify` as records.
