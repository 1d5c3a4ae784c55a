------------------------------ MODULE Classify ------------------------------
(***************************************************************************)
(* How resquery_response (lib/dns/resolver.c) classifies one response to a *)
(* fetch and what it then does to the cache: answer_response,              *)
(* noanswer_response and check_related mark the message's rdatasets;       *)
(* cache_message / cache_name and ncache_message write the marked data and *)
(* the negative entry; the code at label "done" then follows a referral,   *)
(* tries the next server, waits, or ends the fetch.  One fetch for         *)
(* (QName, QType) receives a series of responses drawn from Replies.       *)
(*                                                                         *)
(* A name is the sequence of its labels from the root, so that            *)
(* dns_name_issubdomain is IsPrefix.  A message is a record of rcode, AA,  *)
(* whether its question matched (same_question) and three sections; a      *)
(* section is a sequence of owner names, each with a sequence of           *)
(* rdatasets [type, covers, target].  Header errors (parse failure, TC,    *)
(* opcode, EDNS0 fallback) are the Resolver module's outcomes; here the    *)
(* rcode is NOERROR, NXDOMAIN or SERVFAIL.  The cache database and the     *)
(* view's zone-cut lookup are the external collaborators of the spec:      *)
(* every add succeeds, and a zone cut is the deepest cached NS at or above *)
(* a name.                                                                 *)
(***************************************************************************)
EXTENDS Naturals, Sequences, SequencesExt

CONSTANTS
    QName,        \* fctx->name
    QType,        \* fctx->type
    Domain0,      \* fctx->domain when the fetch starts
    Cache0,       \* the cache when the fetch starts
    SecRootSets,  \* the configurations of the view's security roots
    Replies,      \* the responses the servers may send
    MaxLabels,    \* the most labels a name can hold (ISC_R_NOSPACE beyond)
    MaxResponses  \* responses handled before the fetch's lifetime runs out

VARIABLES
    secroots,   \* res->view->secroots, fixed for the fetch
    domain,     \* fctx->domain
    attrs,      \* fctx->attributes: WANTCACHE, WANTNCACHE, HAVEANSWER
    cache,      \* positive data: [name, type, trust, zone], zone = sender's domain
    ncache,     \* negative entries: [name, covers, zone]
    event,      \* the result cache_name / ncache_message put in the fetchevent
    st,         \* "active", "waiting" (lifetime timer only), "done", "aborted"
    result,     \* the result the waiting callers receive
    responses,  \* responses handled so far
    tick        \* an idle tick queued before fctx_stopidletimer reset the timer

vars == <<secroots, domain, attrs, cache, ncache, event, st, result, responses,
         tick>>

IsSubdomain(n, d) == IsPrefix(d, n)          \* dns_name_issubdomain

RType(rs) == IF rs.type = "SIG" THEN rs.covers ELSE rs.type

SecNames == {"answer", "authority", "additional"}

NamePos(m) == UNION {{<<s, i>> : i \in DOMAIN m.sec[s]} : s \in SecNames}

SetPos(m) == UNION {{<<p[1], p[2], j>> : j \in DOMAIN m.sec[p[1]][p[2]].sets}
                      : p \in NamePos(m)}

\* The rdataset attributes and trust a classification may set.
Unmarked == [cache |-> FALSE, trust |-> "none", aflag |-> "none",
             chaining |-> FALSE, external |-> FALSE]

(***************************************************************************)
(* The walk of one classification: the marks, the name attributes CACHE   *)
(* and ANSWER (sets of name positions), the answer_response locals, and    *)
(* ret, the value returned ("none" while the walk goes on).  dom, wc and   *)
(* wn are what the walk does to fctx->domain, WANTCACHE and WANTNCACHE.    *)
(***************************************************************************)
Walk0(m) == [ret |-> "none", qname |-> QName, chaining |-> FALSE,
             done |-> FALSE, have |-> FALSE, want |-> FALSE,
             mark |-> [p \in SetPos(m) |-> Unmarked],
             named |-> {}, answer |-> {}, dom |-> domain,
             wc |-> FALSE, wn |-> FALSE]

Return(w, r) == [w EXCEPT !.ret = r]

\* Mutation of MarkRelated: out-of-domain glue is not marked EXTERNAL.
MarkRelatedNoExternal(mk, external, gluing) ==
    [mk EXCEPT !.cache = TRUE,
               !.trust = IF gluing THEN "glue" ELSE "additional"]

\* Mutation of MarkRelated: the trust is left as the parser set it.
MarkRelatedNoTrust(mk, external, gluing) ==
    [mk EXCEPT !.cache = TRUE, !.external = mk.external \/ external]

\* mark_related: CACHE, trust glue inside a referral's glue pass, else
\* additional, and EXTERNAL when the name is outside fctx->domain.
MarkRelated(mk, external, gluing) ==
    [mk EXCEPT !.cache = TRUE,
               !.trust = IF gluing THEN "glue" ELSE "additional",
               !.external = mk.external \/ external]

\* check_related for type A (dns_rdataset_additionaldata of an NS set asks
\* for the addresses of its target): the A rdatasets and their SIGs at
\* that name in the additional section.
CheckRelated(m, w, addname, gluing) ==
    LET add == m.sec["additional"]
        at  == {i \in DOMAIN add : add[i].name = addname}
    IN  IF at = {} THEN w
        ELSE LET i   == CHOOSE i \in at : TRUE
                 ext == ~IsSubdomain(addname, domain)
                 rel == {<<"additional", i, j>> :
                           j \in {j \in DOMAIN add[i].sets :
                                    RType(add[i].sets[j]) = "A"}}
                 old == w.mark
             IN  [w EXCEPT
                    !.named = IF rel = {} THEN @ ELSE @ \cup {<<"additional", i>>},
                    !.mark = [p \in DOMAIN old |->
                               IF p \in rel THEN MarkRelated(old[p], ext, gluing)
                               ELSE old[p]]]

AdditionalData(m, w, rs, gluing) ==
    IF rs.type = "NS" THEN CheckRelated(m, w, rs.target, gluing) ELSE w

\* dname_target: qname must lie strictly below the DNAME owner; the new
\* name is qname's prefix before the target, NOSPACE when too long.
DnameTarget(rs, qname, owner) ==
    IF ~IsStrictPrefix(owner, qname) THEN [res |-> "FORMERR", name |-> qname]
    ELSE LET n == rs.target \o SubSeq(qname, Len(owner) + 1, Len(qname))
         IN  IF Len(n) > MaxLabels THEN [res |-> "NOSPACE", name |-> qname]
             ELSE [res |-> "SUCCESS", name |-> n]

\* Mark the rdatasets js of name i of section s CACHE with a trust, and the
\* name CACHE.
CacheSets(w, s, i, js, trust) ==
    LET old == w.mark IN
    IF js = {} THEN w
    ELSE [w EXCEPT !.named = @ \cup {<<s, i>>},
                   !.mark = [p \in DOMAIN old |->
                               IF <<p[1], p[2]>> = <<s, i>> /\ p[3] \in js
                               THEN [old[p] EXCEPT !.cache = TRUE, !.trust = trust]
                               ELSE old[p]]]

(***************************************************************************)
(* answer_response.                                                        *)
(***************************************************************************)

\* The "if (found)" block of both answer-section loops: CACHE and trust
\* answer; before any chaining the data must not be external (INSIST), it
\* is "the" answer (name ANSWER, aflag, authanswer when AA, have_answer
\* only in the loop over qname); while chaining, external data is marked
\* EXTERNAL.  Then the related additional data, then the chain moves on.
Found(m, p, w, rs, aflag, chain, newq, ext, atQName) ==
    LET first == ~w.chaining
        mk    == w.mark[p]
        w1    == [w EXCEPT
                    !.named  = @ \cup {<<p[1], p[2]>>},
                    !.answer = IF first THEN @ \cup {<<p[1], p[2]>>} ELSE @,
                    !.mark[p] = [mk EXCEPT
                                   !.cache = TRUE,
                                   !.trust = IF first /\ m.aa THEN "authanswer"
                                             ELSE "answer",
                                   !.aflag = IF first THEN aflag ELSE mk.aflag,
                                   !.external = mk.external \/ (~first /\ ext),
                                   !.chaining = mk.chaining \/ chain],
                    !.have = @ \/ (first /\ atQName /\ aflag = "ANSWER"),
                    !.want = chain]
        w2    == AdditionalData(m, w1, rs, FALSE)
    IN  IF first /\ ext THEN Return(w, "INSIST")
        ELSE [w2 EXCEPT !.chaining = @ \/ chain,
                        !.qname = IF chain THEN newq ELSE @]

\* One rdataset of an answer name equal to the current qname: the answer,
\* its SIG, a CNAME (FORMERR when asking for SIG, KEY or NXT), a SIG CNAME.
QNameSet(m, i, j, w) ==
    LET rs  == m.sec["answer"][i].sets[j]
        p   == <<"answer", i, j>>
        ext == ~IsSubdomain(m.sec["answer"][i].name, domain)
    IN  IF rs.type = QType \/ QType = "ANY"
        THEN [Found(m, p, w, rs, "ANSWER", FALSE, w.qname, ext, TRUE)
                EXCEPT !.done = TRUE]
        ELSE IF rs.type = "SIG" /\ rs.covers = QType
        THEN Found(m, p, w, rs, "ANSWERSIG", FALSE, w.qname, ext, TRUE)
        ELSE IF rs.type = "CNAME" /\ QType \in {"SIG", "KEY", "NXT"}
        THEN Return(w, "FORMERR")
        ELSE IF rs.type = "CNAME"
        THEN Found(m, p, w, rs, "ANSWER", TRUE, rs.target, ext, TRUE)
        ELSE IF rs.type = "SIG" /\ rs.covers = "CNAME"
        THEN Found(m, p, w, rs, "ANSWERSIG", FALSE, w.qname, ext, TRUE)
        ELSE [w EXCEPT !.want = FALSE]

\* One rdataset of any other answer name: a DNAME (FORMERR when external
\* before chaining or when qname is not below it; NOSPACE stops the chain)
\* or its SIG.  Everything else is ignored.
OtherSet(m, i, j, w) ==
    LET nm  == m.sec["answer"][i].name
        rs  == m.sec["answer"][i].sets[j]
        p   == <<"answer", i, j>>
        ext == ~IsSubdomain(nm, domain)
        t   == DnameTarget(rs, w.qname, nm)
    IN  IF rs.type = "DNAME"
        THEN IF ~w.chaining /\ ext THEN Return(w, "FORMERR")
             ELSE IF t.res = "FORMERR" THEN Return(w, "FORMERR")
             ELSE Found(m, p, w, rs, "ANSWER", t.res = "SUCCESS", t.name, ext,
                        FALSE)
        ELSE IF rs.type = "SIG" /\ rs.covers = "DNAME"
        THEN Found(m, p, w, rs, "ANSWERSIG", FALSE, w.qname, ext, FALSE)
        ELSE [w EXCEPT !.want = FALSE]

RECURSIVE AnswerSets(_, _, _, _, _)
AnswerSets(m, i, j, atQName, w) ==
    IF j > Len(m.sec["answer"][i].sets) \/ w.ret # "none" THEN w
    ELSE AnswerSets(m, i, j + 1, atQName,
                    IF atQName THEN QNameSet(m, i, j, w) ELSE OtherSet(m, i, j, w))

\* "while (!done && result == ISC_R_SUCCESS)": once done is set with a
\* name left, the SUCCESS of dns_message_nextname is what the function
\* returns, before WANTCACHE.
RECURSIVE AnswerNames(_, _, _)
AnswerNames(m, i, w) ==
    LET w1 == AnswerSets(m, i, 1, m.sec["answer"][i].name = w.qname, w) IN
    IF w1.ret # "none" \/ i = Len(m.sec["answer"]) THEN w1
    ELSE IF w1.done THEN Return(w1, "SUCCESS")
    ELSE AnswerNames(m, i + 1, w1)

\* The authority section after an answer: the NS and SIG NS of the first
\* name inside fctx->domain, authauthority when AA and not chaining.
AnswerAuthority(m, w) ==
    LET a   == m.sec["authority"]
        inz == {i \in DOMAIN a : IsSubdomain(a[i].name, domain)}
        i   == Min(inz)
        ns  == {j \in DOMAIN a[i].sets : RType(a[i].sets[j]) = "NS"}
        nsj == {j \in ns : a[i].sets[j].type = "NS"}
        w1  == CacheSets(w, "authority", i, ns,
                         IF m.aa /\ ~w.chaining THEN "authauthority"
                         ELSE "additional")
    IN  IF inz = {} THEN Return(w, "SUCCESS")
        ELSE IF nsj = {} THEN Return(w1, "SUCCESS")
        ELSE Return(AdditionalData(m, w1, a[i].sets[Min(nsj)], FALSE), "SUCCESS")

(***************************************************************************)
(* noanswer_response, for a response without an answer (chained = FALSE)   *)
(* and for the tail of a CNAME/DNAME chain (chained = TRUE, qname in w).   *)
(* The authority loop returns dns_message_nextname's SUCCESS as soon as a  *)
(* second name follows the first, so only the first name is looked at.    *)
(* The NCACHE marks on SOA and NXT are left out: dns_ncache_add is the     *)
(* external collaborator that reads them.                                  *)
(***************************************************************************)
\* Mutation of InDomainFirst: any first authority name is looked at.
InDomainFirstAny(m) == Len(m.sec["authority"]) > 0

\* The authority loop looks at a name only if it is at or below
\* fctx->domain; the loop ends after the first name.
InDomainFirst(m) ==
    LET a == m.sec["authority"] IN Len(a) > 0 /\ IsSubdomain(a[1].name, domain)

NoanswerResponse(m, chained, w) ==
    LET a    == m.sec["authority"]
        neg0 == m.rcode = "NXDOMAIN" \/ (Len(m.sec["answer"]) = 0 /\ Len(a) = 0)
        in1  == InDomainFirst(m)
        ns   == IF in1 THEN {j \in DOMAIN a[1].sets : a[1].sets[j].type = "NS"}
                ELSE {}
        soa  == IF in1 THEN {j \in DOMAIN a[1].sets :
                               a[1].sets[j].type \in {"SOA", "NXT"}}
                ELSE {}
        neg  == neg0 \/ soa # {}
        wns  == CacheSets(w, "authority", 1, ns, "glue")
    IN  IF chained /\ ~IsSubdomain(w.qname, domain) THEN Return(w, "SUCCESS")
        ELSE IF Len(a) > 1 THEN Return(wns, "SUCCESS")
        ELSE IF ~neg /\ ns = {}
        THEN Return(w, IF chained THEN "SUCCESS" ELSE "FORMERR")
        ELSE IF ~neg /\ ~chained
        THEN \* a referral: glue under GLUING, then the domain moves to it
             LET wg == AdditionalData(m, wns, a[1].sets[Min(ns)], TRUE)
             IN  Return([wg EXCEPT !.dom = a[1].name, !.wc = TRUE], "DELEGATION")
        ELSE \* no NS to cache unless referring; a negative wants NCACHE
             Return([wns EXCEPT !.named = @ \ {<<"authority", 1>>}, !.wn = neg],
                    "SUCCESS")

AnswerResponse(m) ==
    LET w  == AnswerNames(m, 1, Walk0(m))
        wc == [w EXCEPT !.wc = TRUE]
    IN  IF w.ret # "none" THEN w
        ELSE IF ~w.have THEN Return(w, "FORMERR")
        ELSE IF w.want THEN NoanswerResponse(m, TRUE, wc)
        ELSE IF m.rcode # "NOERROR" THEN Return(wc, "FORMERR")
        ELSE AnswerAuthority(m, wc)

\* The classification steps of resquery_response after the header checks:
\* a bad rcode makes the server broken, a question that does not match is
\* FORMERR (same_question), then answer_response or noanswer_response.
Classification(m) ==
    IF m.rcode \notin {"NOERROR", "NXDOMAIN"} THEN Return(Walk0(m), "BROKEN")
    ELSE IF ~m.qok THEN Return(Walk0(m), "FORMERR")
    ELSE IF Len(m.sec["answer"]) > 0 THEN AnswerResponse(m)
    ELSE NoanswerResponse(m, FALSE, Walk0(m))

(***************************************************************************)
(* cache_message, cache_name and ncache_message.  c carries the cache, the *)
(* result so far, HAVEANSWER and the fetchevent's result.                  *)
(***************************************************************************)

\* Mutation of ChainResult: a chained rdataset leaves the result SUCCESS.
ChainResultNone(e, chained) == "SUCCESS"

\* The event result cache_name gives a name: CNAME or DNAME when it added
\* a rdataset marked CHAINING, else SUCCESS.
ChainResult(e, chained) ==
    IF chained = {} THEN "SUCCESS" ELSE e.sets[Max(chained)].type

\* cache_name: data under a security root that is not glue goes to the
\* validator, which this build does not have (NOTIMPLEMENTED, SIGs
\* skipped); other non-EXTERNAL CACHE rdatasets are added.  The loop does
\* not stop at an error: the last rdataset that sets result decides it.
\* A chained rdataset makes the event's result CNAME or DNAME, set with
\* HAVEANSWER when the name is an ANSWER name and all went well.
CacheName(m, w, np, c) ==
    LET e        == m.sec[np[1]][np[2]]
        mk(j)    == w.mark[<<np[1], np[2], j>>]
        secure   == \E r \in secroots : IsSubdomain(e.name, r)
        check(j) == secure /\ mk(j).trust # "glue"
        acts     == {j \in DOMAIN e.sets :
                       /\ mk(j).cache
                       /\ IF check(j) THEN e.sets[j].type # "SIG"
                          ELSE ~mk(j).external}
        added    == {j \in acts : ~check(j)}
        chained  == {j \in added : mk(j).chaining}
        res      == IF acts # {} /\ check(Max(acts)) THEN "NOTIMPLEMENTED"
                    ELSE "SUCCESS"
        eres     == ChainResult(e, chained)
        ok       == res = "SUCCESS" /\ np \in w.answer
    IN  [c EXCEPT
           !.res   = res,
           !.cache = @ \cup {[name |-> e.name, type |-> e.sets[j].type,
                              covers |-> e.sets[j].covers,
                              trust |-> mk(j).trust, zone |-> domain] : j \in added},
           !.have  = @ \/ ok,
           !.event = IF ok THEN eres ELSE @]

\* The names cache_message visits: ANSWER, AUTHORITY, ADDITIONAL in order.
Visit(m, w) ==
    SelectSeq([i \in DOMAIN m.sec["answer"] |-> <<"answer", i>>]
                \o [i \in DOMAIN m.sec["authority"] |-> <<"authority", i>>]
                \o [i \in DOMAIN m.sec["additional"] |-> <<"additional", i>>],
              LAMBDA np : np \in w.named)

\* cache_message: cache_name for every CACHE name until one fails.
RECURSIVE CacheMessage(_, _, _, _)
CacheMessage(m, w, ps, c) ==
    IF ps = <<>> \/ c.res # "SUCCESS" THEN c
    ELSE CacheMessage(m, w, Tail(ps), CacheName(m, w, Head(ps), c))

\* ncache_message: a negative entry at fctx->name covering ANY for an
\* NXDOMAIN, else the query type; it gives the event its result only if
\* nothing set HAVEANSWER before.  (need_validation is computed, unused.)
NcacheMessage(m, c) ==
    LET covers == IF m.rcode = "NXDOMAIN" THEN "ANY" ELSE QType IN
    [c EXCEPT
       !.ncache = @ \cup {[name |-> QName, covers |-> covers, zone |-> domain]},
       !.event  = IF c.have THEN @
                  ELSE IF covers = "ANY" THEN "NCACHENXDOMAIN" ELSE "NCACHENXRRSET",
       !.have   = TRUE]

\* dns_view_findzonecut with hints: the deepest name at or above d with an
\* NS set in the cache, else the root.
FindZoneCut(d, c) ==
    LET cuts == {p \in Prefixes(d) : \E e \in c : e.name = p /\ e.type = "NS"}
    IN  IF cuts = {} THEN <<>>
        ELSE CHOOSE p \in cuts : \A q \in cuts : Len(q) <= Len(p)

(***************************************************************************)
(* The specification.                                                      *)
(***************************************************************************)
Init == /\ secroots \in SecRootSets
        /\ domain = Domain0
        /\ attrs = {}
        /\ cache = Cache0
        /\ ncache = {}
        /\ event = "none"
        /\ st = "active"
        /\ result = "none"
        /\ responses = 0
        /\ tick = FALSE

Flag(b, f) == IF b THEN {f} ELSE {}

\* fctx_done: the waiters get the fetchevent's result once HAVEANSWER is
\* set (fctx_sendevents), else r.
Finish(r, have, ev) == /\ st' = "done"
                       /\ result' = IF have THEN ev ELSE r

\* resquery_response for a response m that parsed, with the code at label
\* "done": keep_trying goes to the next server (fctx_try), a referral first
\* moves fctx->domain to the zone cut findzonecut now finds below it;
\* SUCCESS without HAVEANSWER cancels the queries and stops the idle
\* timer, so only the lifetime timer is left; anything else is fctx_done.
\* WANTCACHE and WANTNCACHE stay set when an error skips cache_message.
Response(m) ==
    \E w \in {Classification(m)} :
    LET a1   == attrs \cup Flag(w.wc, "WANTCACHE") \cup Flag(w.wn, "WANTNCACHE")
        go   == w.ret \in {"SUCCESS", "DELEGATION"}
        c0   == [res |-> "SUCCESS", cache |-> cache, ncache |-> ncache,
                 have |-> "HAVEANSWER" \in attrs, event |-> event]
    IN
    \E c1 \in {IF "WANTCACHE" \in a1 THEN CacheMessage(m, w, Visit(m, w), c0) ELSE c0} :
    LET nc   == c1.res = "SUCCESS" /\ "WANTNCACHE" \in a1
        c2   == IF nc THEN NcacheMessage(m, c1) ELSE c1
        cut  == FindZoneCut(w.dom, c2.cache)
    IN  /\ st = "active" /\ responses < MaxResponses
        /\ UNCHANGED secroots
        /\ responses' = responses + 1
        /\ IF w.ret = "INSIST"
           THEN /\ st' = "aborted"
                /\ UNCHANGED <<domain, attrs, cache, ncache, event, result>>
           ELSE IF ~go
           THEN /\ attrs' = a1
                /\ UNCHANGED <<domain, cache, ncache, event, st, result>>
           ELSE /\ attrs' = (a1 \ ({"WANTCACHE"} \cup Flag(nc, "WANTNCACHE")))
                            \cup Flag(c2.have, "HAVEANSWER")
                /\ cache' = c2.cache /\ ncache' = c2.ncache /\ event' = c2.event
                /\ IF w.ret = "DELEGATION"
                   THEN IF c1.res # "SUCCESS" \/ ~IsSubdomain(cut, w.dom)
                        THEN domain' = w.dom /\ Finish("SERVFAIL", c2.have, c2.event)
                        ELSE domain' = cut /\ UNCHANGED <<st, result>>
                   ELSE /\ domain' = w.dom
                        /\ IF c1.res # "SUCCESS"
                           THEN Finish(c1.res, c2.have, c2.event)
                           ELSE IF ~c2.have
                           THEN st' = "waiting" /\ tick' \in BOOLEAN
                                /\ UNCHANGED result
                           ELSE Finish("SUCCESS", c2.have, c2.event)
        /\ st' # "waiting" => UNCHANGED tick

\* fctx_timeout for the lifetime timer: the fetch ends TIMEDOUT.
LifetimeExpired ==
    /\ st \in {"active", "waiting"}
    /\ Finish("TIMEDOUT", "HAVEANSWER" \in attrs, event)
    /\ UNCHANGED <<secroots, domain, attrs, cache, ncache, event, responses,
                   tick>>

\* fctx_stopidletimer resets the timer without purging it: an idle tick
\* that fired before the reset still reaches fctx_timeout, whose idle
\* branch calls fctx_try, and the waiting fetch sends queries again.
StaleIdleTick ==
    /\ st = "waiting" /\ tick
    /\ st' = "active" /\ tick' = FALSE
    /\ UNCHANGED <<secroots, domain, attrs, cache, ncache, event, result,
                   responses>>

Next == (\E m \in Replies : Response(m)) \/ LifetimeExpired \/ StaleIdleTick

Spec == Init /\ [][Next]_vars

(***************************************************************************)
(* Properties.                                                             *)
(***************************************************************************)
Trusts == {"glue", "additional", "answer", "authanswer", "authauthority"}

Results == {"none", "SUCCESS", "CNAME", "DNAME", "NCACHENXDOMAIN",
            "NCACHENXRRSET", "NOTIMPLEMENTED", "SERVFAIL", "TIMEDOUT"}

TypeOK ==
    /\ domain \in Seq(STRING)
    /\ attrs \subseteq {"WANTCACHE", "WANTNCACHE", "HAVEANSWER"}
    /\ \A e \in cache : e.name \in Seq(STRING) /\ e.trust \in Trusts
    /\ \A e \in ncache : e.name = QName /\ e.covers \in {"ANY", QType}
    /\ event \in Results
    /\ st \in {"active", "waiting", "done", "aborted"}
    /\ result \in Results
    /\ responses \in 0..MaxResponses
    /\ tick \in BOOLEAN

\* Everything cache_name writes lies at or below the domain of the servers
\* that sent it: answer_response caches qname data only inside
\* fctx->domain and marks chained data outside it EXTERNAL,
\* noanswer_response looks only at authority names inside it, and
\* check_related marks out-of-domain glue EXTERNAL.
InBailiwick == \A e \in cache : IsSubdomain(e.name, e.zone)

\* A referral only moves fctx->domain down the tree (spec 8.7): the NS
\* owner noanswer_response follows is at or below the current domain, and
\* the zone cut get_nameservers then finds must not lie above it.
ReferralDescends == [][IsSubdomain(domain', domain)]_domain

\* The result the waiters receive is backed by what the fetch put in the
\* cache: SUCCESS by the answer at QName, CNAME by the CNAME at QName,
\* DNAME by a DNAME above it, NCACHENXDOMAIN or NCACHENXRRSET by the
\* negative entry at QName.  It ties the ANSWER marks of answer_response,
\* the chained result of cache_name, the NOTIMPLEMENTED of the missing
\* validator and ncache_message's "only if no answer yet" together.
AnswerCached ==
    st = "done" =>
        CASE result = "SUCCESS" ->
                 \E e \in cache : e.name = QName /\ e.type \in {QType, "ANY"}
          [] result = "CNAME" ->
                 \E e \in cache : e.name = QName /\ e.type = "CNAME"
          [] result = "DNAME" ->
                 \E e \in cache : IsStrictPrefix(e.name, QName) /\ e.type = "DNAME"
          [] result = "NCACHENXDOMAIN" ->
                 \E e \in ncache : e.covers = "ANY"
          [] result = "NCACHENXRRSET" ->
                 \E e \in ncache : e.covers = QType
          [] OTHER -> TRUE

\* answer_response's INSIST(!external) holds: data for the question is
\* never found outside fctx->domain before a chain began.  A referral to
\* a sibling zone of the question, which noanswer_response accepts because
\* it checks the NS owner only against fctx->domain, breaks it.
AnswerInsistHolds == st # "aborted"

\* Every response resquery_response accepts either gives the waiters an
\* answer or follows a referral: the fetch is never left with its queries
\* cancelled and its idle timer stopped, waiting on the lifetime timer for
\* a validator this build does not have.
ResponseSettles == st # "waiting"
=============================================================================
