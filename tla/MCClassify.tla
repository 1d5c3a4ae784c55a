----------------------------- MODULE MCClassify -----------------------------
(***************************************************************************)
(* One fetch for www.isc.org/A that starts at the org zone cut and may get *)
(* any of the responses below, up to MaxResponses of them: referrals      *)
(* (with in-zone and out-of-zone glue, to a sibling zone, upwards),        *)
(* answers with and without extra names, CNAME and DNAME chains, negative  *)
(* answers with one and two authority names, and broken replies.          *)
(***************************************************************************)
EXTENDS Classify

ORG   == <<"org">>
ISC   == <<"org", "isc">>
WWW   == <<"org", "isc", "www">>
W2    == <<"org", "isc", "w2">>
WEB   == <<"org", "isc", "web">>
NS1   == <<"org", "isc", "ns1">>
EVIL  == <<"org", "evil">>
NSE   == <<"org", "evil", "ns">>
NSX   == <<"net", "ns">>
XNET  == <<"net", "x">>
INET  == <<"net", "isc">>

RR(t, tg) == [type |-> t, covers |-> "none", target |-> tg]
SIG(c)    == [type |-> "SIG", covers |-> c, target |-> <<>>]
A         == RR("A", <<>>)
SOA       == RR("SOA", <<>>)
NXT       == RR("NXT", <<>>)
E(n, s)   == [name |-> n, sets |-> s]

Msg(rc, aa, an, au, ad) ==
    [rcode |-> rc, aa |-> aa, qok |-> TRUE,
     sec |-> [answer |-> an, authority |-> au, additional |-> ad]]

ReferIsc    == Msg("NOERROR", FALSE, <<>>, <<E(ISC, <<RR("NS", NS1)>>)>>,
                   <<E(NS1, <<A>>)>>)
ReferIscExt == Msg("NOERROR", FALSE, <<>>, <<E(ISC, <<RR("NS", NSX)>>)>>,
                   <<E(NSX, <<A>>)>>)
ReferEvil   == Msg("NOERROR", FALSE, <<>>, <<E(EVIL, <<RR("NS", NSE)>>)>>,
                   <<E(NSE, <<A>>)>>)
ReferUp     == Msg("NOERROR", FALSE, <<>>, <<E(<<>>, <<RR("NS", NSX)>>)>>,
                   <<E(NSX, <<A>>)>>)
Answer      == Msg("NOERROR", TRUE, <<E(WWW, <<A, SIG("A")>>)>>,
                   <<E(ISC, <<RR("NS", NS1)>>)>>, <<E(NS1, <<A>>)>>)
AnswerPlus  == Msg("NOERROR", TRUE, <<E(WWW, <<A>>), E(WEB, <<A>>)>>, <<>>, <<>>)
Cname       == Msg("NOERROR", TRUE, <<E(WWW, <<RR("CNAME", WEB)>>), E(WEB, <<A>>)>>,
                   <<>>, <<>>)
CnameExt    == Msg("NOERROR", FALSE, <<E(WWW, <<RR("CNAME", XNET)>>), E(XNET, <<A>>)>>,
                   <<>>, <<>>)
CnameNx     == Msg("NXDOMAIN", TRUE, <<E(WWW, <<RR("CNAME", WEB)>>)>>,
                   <<E(ISC, <<SOA>>)>>, <<>>)
CnameDname  == Msg("NOERROR", FALSE, <<E(WWW, <<RR("CNAME", W2)>>),
                                      E(ISC, <<RR("DNAME", INET)>>)>>, <<>>, <<>>)
CnameDnameLong == Msg("NOERROR", FALSE, <<E(WWW, <<RR("CNAME", W2)>>),
                                      E(ISC, <<RR("DNAME", <<"net", "a", "b">>)>>)>>,
                      <<>>, <<>>)
Dname       == Msg("NOERROR", TRUE, <<E(ISC, <<RR("DNAME", INET)>>),
                                      E(WWW, <<RR("CNAME", INET \o <<"www">>)>>),
                                      E(INET \o <<"www">>, <<A>>)>>, <<>>, <<>>)
SigOnly     == Msg("NOERROR", TRUE, <<E(WWW, <<SIG("A")>>)>>, <<>>, <<>>)
Nx          == Msg("NXDOMAIN", TRUE, <<>>, <<E(ISC, <<SOA>>)>>, <<>>)
NoData2     == Msg("NOERROR", TRUE, <<>>, <<E(ISC, <<SOA>>), E(WWW, <<NXT>>)>>, <<>>)
AnswerNx    == Msg("NXDOMAIN", TRUE, <<E(WWW, <<A>>)>>, <<>>, <<>>)
NoData      == Msg("NOERROR", TRUE, <<>>, <<E(ISC, <<SOA>>)>>, <<>>)
Servfail    == Msg("SERVFAIL", FALSE, <<>>, <<>>, <<>>)
WrongQ      == [Answer EXCEPT !.qok = FALSE]

MCReplies == {ReferIsc, ReferIscExt, ReferEvil, ReferUp, Answer, AnswerPlus,
              Cname, CnameExt, CnameNx, CnameDname, CnameDnameLong, Dname,
              SigOnly, AnswerNx, Nx, NoData, NoData2, Servfail, WrongQ}

\* The replies of the two scenarios runs search alone.
MCSidewaysReplies == {ReferEvil, ReferIsc, Answer, Nx}
MCStallReplies    == {NoData2, AnswerPlus, NoData, Nx, Answer}

MCSecRootSets == {{XNET}, {ISC}}

MCCache0 == {[name |-> ORG, type |-> "NS", covers |-> "none",
              trust |-> "authauthority", zone |-> <<>>]}
=============================================================================
