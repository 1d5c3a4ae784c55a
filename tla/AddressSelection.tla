-------------------------- MODULE AddressSelection --------------------------
(***************************************************************************)
(* How one fetch context of lib/dns/resolver.c chooses the servers it      *)
(* queries: fctx_getaddresses builds the forwarder addrinfo list and one   *)
(* ADB find per NS name, both sort_adbfind and sort_finds order them by    *)
(* SRTT, fctx_nextaddress walks them with the fctx->find cursor and the    *)
(* MARK flag, fctx_try starts a new round when nothing is left, and        *)
(* fctx_query arms the idle timer with fctx_setretryinterval.  The         *)
(* handlers that call fctx_try (fctx_start, fctx_timeout, fctx_finddone,   *)
(* resquery_response) are steps; the fetch-context lifecycle, buckets and  *)
(* callers are the business of module Resolver.                            *)
(*                                                                         *)
(* Names and addresses are small integers so that the lists can be kept   *)
(* in the order the code keeps them.  A position <<i, j>> is the j-th      *)
(* addrinfo of find i; find 0 stands for fctx->forwaddrs.                  *)
(***************************************************************************)
EXTENDS Naturals, Sequences, SequencesExt, FiniteSetsExt, Functions

CONSTANTS
    Names,        \* NS names a zone cut can list
    Addrs,        \* server addresses
    AddrsOf,      \* AddrsOf[n]: the addresses the ADB holds for name n
    Forwarders,   \* res->forwarders, in configuration order
    FwdPolicy,    \* res->fwdpolicy: "none", "first" or "only"
    NSInit,       \* the NS names of the zone cut fctx_create starts from
    ZoneCuts,     \* NS name sets dns_view_findzonecut may return
    KnownInit,    \* names whose addresses the ADB already holds
    SrttInit,     \* the ADB's smoothed RTT per address, microseconds
    RttSamples,   \* SRTTs the ADB may hold after a measured reply
    RestartLimit  \* the "restarts > 10" failsafe of fctx_getaddresses

ASSUME /\ Names \subseteq Nat /\ Addrs \subseteq Nat \ {0}
       /\ AddrsOf \in [Names -> Seq(Addrs)]
       /\ Forwarders \in Seq(Addrs)
       /\ FwdPolicy \in {"none", "first", "only"}
       /\ NSInit \in ZoneCuts /\ ZoneCuts \subseteq SUBSET Names
       /\ KnownInit \subseteq Names
       /\ SrttInit \in [Addrs -> Nat] /\ RttSamples \subseteq Nat
       /\ RestartLimit \in Nat

VARIABLES
    fctx,    \* the fetchctx_t fields this module is about
    adb,     \* the ADB: SRTT per address, names whose addresses it holds
    picks,   \* history: the positions fctx_nextaddress returned this round
    sent,    \* history: restarts, SRTT and interval of the last fctx_query
    skipped  \* history: unmarked positions when fctx_nextaddress last
             \* returned NULL

vars == <<fctx, adb, picks, sent, skipped>>

NULL == <<0, 0>>
MaxSrtt == 10000000        \* the clamp of fctx_cancelquery
NoQuery == [restarts |-> 0, srtt |-> 0, interval |-> 0]

(***************************************************************************)
(* fetchctx_t.  st: fetchstate; ns: fctx->nameservers; finds: the address *)
(* lists of fctx->finds; cursor: fctx->find as an index (0 is NULL);       *)
(* marked: addrinfos with FCTX_ADDRINFO_MARK; queries: how many queries on *)
(* fctx->queries go to each address; owed: ADB find events not yet         *)
(* delivered, per name (their sum is fctx->pending); timer: the one-shot   *)
(* timer, "idle" with interval and expiry, "life" with the expiry only.    *)
(***************************************************************************)
FctxRec == [st: {"init", "active", "done"}, result: STRING,
            ns: ZoneCuts, restarts: 0..RestartLimit + 1,
            forwaddrs: Seq(Addrs), finds: Seq(Seq(Addrs)), cursor: Nat,
            marked: SUBSET (Nat \X Nat), queries: [Addrs -> Nat],
            owed: [Names -> Nat], addrWait: BOOLEAN,
            timer: {"off", "idle", "life"}]

Pending(fr) == FoldFunctionOnSet(+, 0, fr.owed, Names)

ListOf(fr, i) == IF i = 0 THEN fr.forwaddrs ELSE fr.finds[i]

AddrAt(fr, p) == ListOf(fr, p[1])[p[2]]

Positions(fr) ==
    UNION {{<<i, j>> : j \in 1..Len(ListOf(fr, i))} : i \in 0..Len(fr.finds)}

\* Mutation of FirstUnmarked: the UNMARKED() test is missing.
FirstUnmarkedNoMark(fr, i) == IF ListOf(fr, i) = <<>> THEN 0 ELSE 1

\* The first addrinfo of list i without FCTX_ADDRINFO_MARK, 0 if none.
FirstUnmarked(fr, i) ==
    LET js == {j \in 1..Len(ListOf(fr, i)) : <<i, j>> \notin fr.marked}
    IN  IF js = {} THEN 0 ELSE Min(js)

(***************************************************************************)
(* The two lame N^2 sorts: repeatedly take the FIRST entry of least SRTT   *)
(* (a later one replaces it only when strictly smaller) and append it.     *)
(***************************************************************************)
\* Mutation of FirstLeast: "<=" for "<", so the LAST least entry wins.
FirstLeastLast(s, key) ==
    CHOOSE i \in 1..Len(s) : /\ \A j \in 1..Len(s) : key[s[i]] <= key[s[j]]
                             /\ \A j \in i+1..Len(s) : key[s[j]] > key[s[i]]

FirstLeast(s, key) ==
    CHOOSE i \in 1..Len(s) : /\ \A j \in 1..Len(s) : key[s[i]] <= key[s[j]]
                             /\ \A j \in 1..i-1 : key[s[j]] > key[s[i]]

RECURSIVE SortAdbFind(_, _)
SortAdbFind(s, srtt) ==
    IF s = <<>> THEN <<>>
    ELSE LET b == FirstLeast(s, srtt)
         IN  <<s[b]>> \o SortAdbFind(RemoveAt(s, b), srtt)

\* sort_finds compares finds by the SRTT of their first addrinfo.
RECURSIVE SortFinds(_, _)
SortFinds(fs, srtt) ==
    IF fs = <<>> THEN <<>>
    ELSE LET heads == [i \in 1..Len(fs) |-> srtt[fs[i][1]]]
             b == FirstLeast([i \in 1..Len(fs) |-> i], heads)
         IN  <<fs[b]>> \o SortFinds(RemoveAt(fs, b), srtt)

(***************************************************************************)
(* fctx_nextaddress.  The first unmarked forwarder wins and clears the     *)
(* cursor.  Otherwise the scan starts at the find after the cursor (the    *)
(* head when the cursor is NULL or the last find) and runs until it comes  *)
(* back to the cursor; a NULL cursor ends it at the end of the list.       *)
(***************************************************************************)
RECURSIVE Scan(_, _)
Scan(fr, i) ==
    IF i = fr.cursor THEN [find |-> i, pos |-> NULL]
    ELSE IF FirstUnmarked(fr, i) # 0
    THEN [find |-> i, pos |-> <<i, FirstUnmarked(fr, i)>>]
    ELSE Scan(fr, IF i < Len(fr.finds) THEN i + 1
                  ELSE IF fr.cursor # 0 THEN 1 ELSE 0)

NextAddress(fr) ==
    LET fj    == FirstUnmarked(fr, 0)
        start == IF fr.cursor = 0 THEN IF fr.finds = <<>> THEN 0 ELSE 1
                 ELSE IF fr.cursor < Len(fr.finds) THEN fr.cursor + 1 ELSE 1
        sc    == Scan(fr, start)
    IN  IF fj # 0
        THEN [fr |-> [fr EXCEPT !.marked = @ \cup {<<0, fj>>}, !.cursor = 0],
              pos |-> <<0, fj>>]
        ELSE [fr |-> [fr EXCEPT !.marked = IF sc.pos = NULL THEN @
                                           ELSE @ \cup {sc.pos},
                                !.cursor = sc.find],
              pos |-> sc.pos]

(***************************************************************************)
(* fctx_setretryinterval: 2 s for the first rounds, then                  *)
(* 2 << (restarts - 1); at least the doubled SRTT in seconds               *)
(* (rtt / 500000, unsigned division); at most 30 s.  The shift is exact    *)
(* in 32-bit unsigned arithmetic because the failsafe keeps restarts at or *)
(* below RestartLimit + 1 < 32 (ASSUME below), so no wrap is modelled.    *)
(***************************************************************************)
ASSUME RestartLimit + 1 < 32

\* Mutation of SetRetryInterval: the 30 second ceiling is missing.
SetRetryIntervalNoClamp(restarts, rtt) ==
    LET seconds == IF restarts < 3 THEN 2
                   ELSE 2 * 2^(restarts - 1)
    IN  IF seconds < rtt \div 500000 THEN rtt \div 500000 ELSE seconds

SetRetryInterval(restarts, rtt) ==
    LET seconds == IF restarts < 3 THEN 2
                   ELSE 2 * 2^(restarts - 1)
        atLeast == IF seconds < rtt \div 500000 THEN rtt \div 500000
                   ELSE seconds
    IN  IF atLeast > 30 THEN 30 ELSE atLeast

(***************************************************************************)
(* Cancelling queries and cleaning up.                                     *)
(***************************************************************************)
NoQueries == [a \in Addrs |-> 0]

\* fctx_cancelqueries(fctx, ISC_TRUE): a query cancelled without a reply
\* replaces the address's SRTT by srtt + 100000 * restarts, at most 10 s.
Penalised(fr, srtt) ==
    [a \in Addrs |-> IF fr.queries[a] > 0
                     THEN Min({srtt[a] + 100000 * fr.restarts, MaxSrtt})
                     ELSE srtt[a]]

\* fctx_cleanupfinds and fctx_cleanupforwaddrs (the addrinfos, and their
\* marks, go with the lists).
\* Mutation of Cleanup: fctx_cleanupfinds does not reset fctx->find.
CleanupKeepCursor(fr) ==
    [fr EXCEPT !.finds = <<>>, !.forwaddrs = <<>>, !.marked = {}]

Cleanup(fr) == [fr EXCEPT !.finds = <<>>, !.forwaddrs = <<>>, !.cursor = 0,
                          !.marked = {}]

\* fctx_done: fctx_stopeverything (cancel the queries without touching
\* their SRTT, clean up, stop the timer), then state done.
Done(fr, ad, result) ==
    /\ fctx' = [Cleanup(fr) EXCEPT !.queries = NoQueries, !.timer = "off",
                                   !.st = "done", !.result = result]
    /\ adb' = ad
    /\ picks' = <<>>
    /\ UNCHANGED sent

\* fctx_query to address a: fctx_setretryinterval with the address's
\* SRTT, fctx_starttimer, then allocate, attach a dispatcher and send.
\* Any failure stops the timer and the caller calls fctx_done.
Query(fr, ad, pk, a) ==
    \/ /\ fctx' = [fr EXCEPT !.queries[a] = @ + 1, !.timer = "idle"]
       /\ adb' = ad
       /\ picks' = pk
       /\ sent' = [restarts |-> fr.restarts, srtt |-> ad.srtt[a],
                   interval |-> SetRetryInterval(fr.restarts, ad.srtt[a])]
    \/ Done(fr, ad, "FAILURE")

(***************************************************************************)
(* fctx_getaddresses, on a fetch context whose lists were cleaned up.      *)
(* okF: the forwarders dns_adb_findaddrinfo returned an addrinfo for.      *)
(* oc[n]: what dns_adb_createfind did for NS name n: "find" (the ADB holds *)
(* its addresses), "wait" (an ADB event will come, pending++), "lost"      *)
(* (neither; the find is dropped) or "error" (return at once).  Names are  *)
(* visited in rdataset order.                                              *)
(***************************************************************************)
Outcome(fr, ad) ==
    {oc \in [Names -> {"find", "wait", "lost", "error"}] :
        \A n \in Names :
            /\ n \notin fr.ns => oc[n] = "lost"
            /\ n \in fr.ns /\ n \in ad.known => oc[n] \in {"find", "error"}
            /\ n \in fr.ns /\ n \notin ad.known => oc[n] # "find"}

GetAddresses(fr, ad, okF, oc) ==
    LET fwd  == [k \in 1..Cardinality(okF) |->
                    Forwarders[SetToSortSeq(okF, <)[k]]]
        nsq  == SetToSortSeq(fr.ns, <)
        errs == {i \in DOMAIN nsq : oc[nsq[i]] = "error"}
        seen == SubSeq(nsq, 1, IF errs = {} THEN Len(nsq) ELSE Min(errs) - 1)
        got  == SelectSeq(seen, LAMBDA n : oc[n] = "find")
        fr1  == [fr EXCEPT !.restarts = @ + 1, !.forwaddrs = fwd,
                   !.finds = [k \in DOMAIN got |->
                                 SortAdbFind(AddrsOf[got[k]], ad.srtt)],
                   !.owed = [n \in Names |->
                               @[n] + IF Contains(seen, n) /\ oc[n] = "wait"
                                      THEN 1 ELSE 0]]
        fr2  == [fr1 EXCEPT !.finds = <<>>, !.owed = fr.owed]
    IN  CASE fr.restarts + 1 > RestartLimit ->
                 [fr |-> [fr EXCEPT !.restarts = @ + 1], res |-> "SERVFAIL"]
          [] FwdPolicy = "only" /\ fwd = <<>> ->
                 [fr |-> fr2, res |-> IF Pending(fr2) > 0 THEN "WAIT"
                                      ELSE "FAILURE"]
          [] FwdPolicy = "only" -> [fr |-> fr2, res |-> "SUCCESS"]
          [] errs # {} -> [fr |-> fr1, res |-> "FAILURE"]
          [] fr1.finds = <<>> /\ fwd = <<>> ->
                 [fr |-> fr1, res |-> IF Pending(fr1) > 0 THEN "WAIT"
                                      ELSE "FAILURE"]
          [] OTHER -> [fr |-> [fr1 EXCEPT !.finds = SortFinds(@, ad.srtt)],
                       res |-> "SUCCESS"]

(***************************************************************************)
(* fctx_try: query the next unmarked address.  When there is none, cancel *)
(* the queries as unanswered, clean up and run fctx_getaddresses; on       *)
(* success query the first address of the new round, on DNS_R_WAIT set    *)
(* ADDRWAIT, on anything else fctx_done.  pk is the round's picks so far.  *)
(***************************************************************************)
Try(fr, ad, pk) ==
    LET nx == NextAddress(fr) IN
    IF nx.pos # NULL
    THEN /\ UNCHANGED skipped
         /\ Query(nx.fr, ad, Append(pk, nx.pos), AddrAt(nx.fr, nx.pos))
    ELSE LET ad1 == [ad EXCEPT !.srtt = Penalised(fr, @)]
             fr1 == Cleanup([fr EXCEPT !.queries = NoQueries])
         IN  /\ skipped' = {AddrAt(fr, p) : p \in Positions(fr) \ fr.marked}
             /\ \E okF \in SUBSET DOMAIN Forwarders, oc \in Outcome(fr1, ad1) :
                  LET g == GetAddresses(fr1, ad1, okF, oc)
                      nx2 == NextAddress(g.fr)
                  IN  CASE g.res = "SUCCESS" ->
                             Query(nx2.fr, ad1, <<nx2.pos>>,
                                   AddrAt(nx2.fr, nx2.pos))
                        [] g.res = "WAIT" ->
                             /\ fctx' = [g.fr EXCEPT !.addrWait = TRUE]
                             /\ adb' = ad1 /\ picks' = <<>>
                             /\ UNCHANGED sent
                        [] OTHER -> Done(g.fr, ad1, g.res)

(***************************************************************************)
(* The handlers.                                                           *)
(***************************************************************************)

\* fctx_start on a fetch nobody has shut down: become active and try.
Start ==
    /\ fctx.st = "init"
    /\ Try([fctx EXCEPT !.st = "active"], adb, picks)

\* fctx_timeout: the one-shot timer fires on the idle interval or on the
\* expiry.  Expiry ends the fetch; an idle tick clears ADDRWAIT and tries
\* again, leaving the running queries alone.
Timeout(kind) ==
    LET fr == [fctx EXCEPT !.timer = "off"] IN
    /\ fctx.timer # "off"
    /\ kind \in IF fctx.timer = "idle" THEN {"idle", "life"} ELSE {"life"}
    /\ IF kind = "life"
       THEN Done(fr, adb, "TIMEDOUT") /\ UNCHANGED skipped
       ELSE Try([fr EXCEPT !.addrWait = FALSE], adb, picks)

\* fctx_finddone for a find of name n: MOREADDRESSES (more) means the ADB
\* now holds the name's addresses.  With ADDRWAIT set it is cleared, and
\* MOREADDRESSES tries again while the last NOMOREADDRESSES fails the
\* fetch.  (The shutdown branch belongs to module Resolver.)
FindDone(n, more) ==
    LET fr == [fctx EXCEPT !.owed[n] = @ - 1]
        ad == IF more THEN [adb EXCEPT !.known = @ \cup {n}] ELSE adb
        fr1 == [fr EXCEPT !.addrWait = FALSE]
    IN  /\ fctx.owed[n] > 0
        /\ CASE fr.addrWait /\ more -> Try(fr1, ad, picks)
             [] fr.addrWait /\ Pending(fr1) = 0 ->
                    Done(fr1, ad, "FAILURE") /\ UNCHANGED skipped
             [] OTHER -> /\ fctx' = fr1 /\ adb' = ad
                         /\ UNCHANGED <<picks, sent, skipped>>

\* The outcomes of resquery_response that matter for address selection:
\*   answer/fatal - fctx_done with SUCCESS or the error;
\*   nohave       - cancel the queries as unanswered, fctx_stopidletimer;
\*   lame         - keep_trying (broken server, FORMERR, bad question);
\*   delegation   - keep_trying with get_nameservers: a new zone cut;
\*   resend       - fctx_query to the same address (no EDNS0, or TCP).
Replies == {"answer", "fatal", "nohave", "lame", "delegation", "resend"}

\* resquery_response for a query to address a.  fctx_cancelquery with the
\* finish time lets the ADB blend the measured RTT into the SRTT.
Response(a, reply) ==
    /\ fctx.queries[a] > 0
    /\ \E rtt \in RttSamples :
       LET fr == [fctx EXCEPT !.queries[a] = @ - 1]
           ad == [adb EXCEPT !.srtt[a] = rtt]
           frc == Cleanup([fr EXCEPT !.queries = NoQueries])
           adc == [ad EXCEPT !.srtt = Penalised(fr, @)]
       IN  CASE reply = "answer" -> Done(fr, ad, "SUCCESS")
                                    /\ UNCHANGED skipped
             [] reply = "fatal" -> Done(fr, ad, "FAILURE")
                                   /\ UNCHANGED skipped
             [] reply = "nohave" ->
                   /\ UNCHANGED skipped
                   /\ \/ /\ fctx' = [fr EXCEPT !.queries = NoQueries,
                                               !.timer = "life"]
                         /\ adb' = adc /\ UNCHANGED <<picks, sent>>
                      \/ Done([fr EXCEPT !.queries = NoQueries], adc,
                              "FAILURE")
             [] reply = "lame" -> Try(fr, ad, picks)
             [] reply = "delegation" ->
                   \/ \E cut \in ZoneCuts :
                         Try([frc EXCEPT !.ns = cut], adc, <<>>)
                   \/ Done(fr, ad, "SERVFAIL") /\ UNCHANGED skipped
             [] reply = "resend" ->
                   Query(fr, ad, picks, a) /\ UNCHANGED skipped

(***************************************************************************)
(* The specification.                                                      *)
(***************************************************************************)
Init ==
    /\ fctx = [st |-> "init", result |-> "none", ns |-> NSInit,
               restarts |-> 0, forwaddrs |-> <<>>, finds |-> <<>>,
               cursor |-> 0, marked |-> {}, queries |-> NoQueries,
               owed |-> [n \in Names |-> 0], addrWait |-> FALSE,
               timer |-> "off"]
    /\ adb = [srtt |-> SrttInit, known |-> KnownInit]
    /\ picks = <<>>
    /\ sent = NoQuery
    /\ skipped = {}

Next ==
    \/ Start
    \/ \E kind \in {"idle", "life"} : Timeout(kind)
    \/ \E n \in Names, more \in BOOLEAN : FindDone(n, more)
    \/ \E a \in Addrs, reply \in Replies : Response(a, reply)

\* The task runs the start event, the timer and the ADB deliver their
\* events; the servers need not answer.
Fairness ==
    /\ WF_vars(Start)
    /\ WF_vars(\E kind \in {"idle", "life"} : Timeout(kind))
    /\ \A n \in Names : WF_vars(\E more \in BOOLEAN : FindDone(n, more))

Spec == Init /\ [][Next]_vars /\ Fairness

(***************************************************************************)
(* Properties.                                                             *)
(***************************************************************************)
TypeOK ==
    /\ fctx \in FctxRec
    /\ fctx.cursor \in 0..Len(fctx.finds)
    /\ adb \in [srtt: [Addrs -> Nat], known: SUBSET Names]
    /\ picks \in Seq(Nat \X Nat)
    /\ skipped \subseteq Addrs

\* Within one round fctx_nextaddress never hands out the same addrinfo
\* twice (spec: fctx_try never returns the same addrinfo twice within one
\* restart round).  It rests on the MARK flag surviving the cursor moving
\* between forwarders and finds, across timer ticks and replies.
PicksDistinct == IsInjective(picks)

\* The idle interval fctx_query arms is the one the specification gives:
\* max(doubled SRTT in seconds, 2 s for restarts 0-2 and 2^restarts after),
\* never above 30 s, for every restart count and SRTT the fetch reaches.
SpecRetryInterval(restarts, srtt) ==
    Min({30, Max({(2 * srtt) \div 1000000,
                  IF restarts <= 2 THEN 2 ELSE 2^restarts})})

RetryIntervalAsSpecified ==
    sent # NoQuery =>
        /\ sent.interval = SpecRetryInterval(sent.restarts, sent.srtt)
        /\ sent.interval \in 2..30

\* sort_adbfind and sort_finds order by SRTT and keep the ADB's order among
\* equal SRTTs (a stable sort), for the SRTTs the fetch has produced.
StableSortBy(s, key) ==
    LET before(i, j) == key[i] < key[j] \/ (key[i] = key[j] /\ i < j)
        idx == SetToSortSeq(DOMAIN s, before)
    IN  [k \in DOMAIN s |-> s[idx[k]]]

SortsAsSpecified ==
    /\ \A n \in Names :
          SortAdbFind(AddrsOf[n], adb.srtt)
            = StableSortBy(AddrsOf[n], [i \in DOMAIN AddrsOf[n] |->
                                           adb.srtt[AddrsOf[n][i]]])
    /\ SortFinds(fctx.finds, adb.srtt)
         = StableSortBy(fctx.finds, [i \in DOMAIN fctx.finds |->
                                        adb.srtt[fctx.finds[i][1]]])

\* fctx_nextaddress returns NULL only when every address of the round is
\* marked (spec: "Returns null when everything is marked"), so a new round
\* of fctx_getaddresses never abandons an address it has not tried.
RoundExhaustive == skipped = {}
=============================================================================
