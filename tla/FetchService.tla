----------------------------- MODULE FetchService -----------------------------
(***************************************************************************)
(* What the resolver promises the callers of its fetch API, with nothing   *)
(* of how: no fetch contexts, buckets, queries or timers.  A caller's      *)
(* fetch is refused, or waits and then receives exactly one result, which  *)
(* it keeps until it destroys the fetch.  CANCELED comes from the caller's *)
(* own cancelfetch, from the resolver's shutdown, or to a caller whose     *)
(* fetch had been given up: the last destroyfetch of a fetch shuts it      *)
(* down and the shutdown fans CANCELED to the waiters still on it, so a    *)
(* caller that joined it in between is cancelled (spec 4.2).  A            *)
(* createfetch after shutdown is refused with SHUTTINGDOWN, and a          *)
(* whenshutdown listener is told only once the resolver is exiting and no  *)
(* caller is left waiting (spec sections 4.1, 5 and 7).                    *)
(***************************************************************************)
CONSTANTS
    Callers,   \* the callers of dns_resolver_createfetch
    Question,  \* Question[c]: the question caller c asks
    Results    \* the results a fetchevent can carry

VARIABLES
    caller,    \* caller[c]: "idle", "refused", "waiting", "answered", "released"
    result,    \* result[c]: the result c received, or "none"
    exiting,   \* dns_resolver_shutdown has been called
    listener,  \* the whenshutdown listener: "none", "waiting", "notified"
    orphaned,  \* the waiters whose fetch has been given up
    asked      \* the callers that called cancelfetch

vars == <<caller, result, exiting, listener, orphaned, asked>>

Waiting == {c \in Callers : caller[c] = "waiting"}

\* The resolver has shut down and nobody waits for a result any more.
Quiet == exiting /\ Waiting = {}

\* A fetch for c's question may already have been given up: another caller
\* of the question has released its fetch.
GivenUp(c) ==
    \E d \in Callers \ {c} : Question[d] = Question[c] /\ caller[d] = "released"

\* A step of the resolver may also tell a waiting listener, once quiet.
MayNotify ==
    \/ listener' = listener
    \/ listener = "waiting" /\ listener' = "notified" /\ Quiet'

Init == /\ caller = [c \in Callers |-> "idle"]
        /\ result = [c \in Callers |-> "none"]
        /\ exiting = FALSE
        /\ listener = "none"
        /\ orphaned = {}
        /\ asked = {}

\* createfetch: refused with SHUTTINGDOWN once the resolver is exiting;
\* otherwise the caller waits, possibly on a fetch already given up, or the
\* call fails for lack of memory.
Create(c) ==
    /\ caller[c] = "idle"
    /\ IF exiting
       THEN /\ caller' = [caller EXCEPT ![c] = "refused"]
            /\ result' = [result EXCEPT ![c] = "SHUTTINGDOWN"]
            /\ UNCHANGED orphaned
       ELSE \/ /\ caller' = [caller EXCEPT ![c] = "waiting"]
               /\ UNCHANGED result
               /\ \/ UNCHANGED orphaned
                  \/ GivenUp(c) /\ orphaned' = orphaned \cup {c}
            \/ /\ caller' = [caller EXCEPT ![c] = "refused"]
               /\ result' = [result EXCEPT ![c] = "NOMEMORY"]
               /\ UNCHANGED orphaned
    /\ UNCHANGED <<exiting, listener, asked>>

\* cancelfetch: the caller's own event comes back CANCELED.
Cancel(c) ==
    /\ caller[c] = "waiting"
    /\ caller' = [caller EXCEPT ![c] = "answered"]
    /\ result' = [result EXCEPT ![c] = "CANCELED"]
    /\ orphaned' = orphaned \ {c}
    /\ asked' = asked \cup {c}
    /\ UNCHANGED <<exiting, listener>>

\* A fetch ends: some of the waiting callers receive their one result each.
\* CANCELED goes only to waiters whose fetch was given up, or after the
\* resolver's shutdown.
Answer ==
    \E S \in SUBSET Waiting \ {{}} :
    \E r \in [S -> Results \ {"SHUTTINGDOWN", "NOMEMORY"}] :
        /\ \A c \in S : r[c] = "CANCELED" => exiting \/ c \in orphaned
        /\ caller' = [c \in Callers |-> IF c \in S THEN "answered" ELSE caller[c]]
        /\ result' = [c \in Callers |-> IF c \in S THEN r[c] ELSE result[c]]
        /\ orphaned' = orphaned \ S
        /\ UNCHANGED <<exiting, asked>>
        /\ MayNotify

\* destroyfetch by a caller that has its result.
Release(c) ==
    /\ caller[c] = "answered"
    /\ caller' = [caller EXCEPT ![c] = "released"]
    /\ UNCHANGED <<result, exiting, orphaned, asked>>
    /\ MayNotify

\* dns_resolver_shutdown: every waiter's fetch is given up.
Shutdown ==
    /\ ~exiting /\ exiting' = TRUE
    /\ orphaned' = Waiting
    /\ UNCHANGED <<caller, result, asked>>
    /\ MayNotify

\* dns_resolver_whenshutdown: told at once if already quiet, else queued.
WhenShutdown ==
    /\ listener = "none"
    /\ listener' \in IF Quiet THEN {"notified", "waiting"} ELSE {"waiting"}
    /\ UNCHANGED <<caller, result, exiting, orphaned, asked>>

\* The resolver finishes shutting down in a step no caller sees.
Notify ==
    /\ UNCHANGED <<caller, result, exiting, orphaned, asked>>
    /\ listener = "waiting" /\ listener' = "notified" /\ Quiet'

Next ==
    \/ \E c \in Callers : Create(c) \/ Cancel(c) \/ Release(c)
    \/ Answer \/ Shutdown \/ WhenShutdown \/ Notify

Spec == Init /\ [][Next]_vars
=============================================================================
