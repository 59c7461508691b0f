------------------------------ MODULE RequestGate ------------------------------
(***************************************************************************)
(* What a request to /v1/sessions passes before its handler, as the        *)
(* dependencies of api/app.py order them: the check of its API key         *)
(* (middleware/auth.py), then the limit on its client's requests in a      *)
(* sliding window (middleware/rate_limit.py).                              *)
(*                                                                         *)
(* A key is a pair: its last sixteen characters, and what comes before.    *)
(* Time is a whole number of ticks, so that hits of the same instant and   *)
(* hits exactly one window old both happen.                                *)
(***************************************************************************)
EXTENDS Integers, Sequences, FiniteSets

CONSTANTS ApiKeys,         \* security.api_keys, {} when no key is asked for
          Requests,        \* records [xKey, bearer, host] of what a request carries
          NoKey, NoHost,   \* a header, a peer address, that is not there
          MaxRequests,     \* max_requests
          WindowSeconds,   \* window_s
          TicksPerSecond,  \* the grain of time
          MaxInstant       \* bound on the clock

ASSUME GateAssumption == /\ {MaxRequests, WindowSeconds, TicksPerSecond} \subseteq Nat \ {0}
                         /\ MaxInstant \in Nat

VARIABLES instant,   \* time.monotonic()
          hits,      \* _hits: the admission times of each client tracked
          admitted,  \* history: all admission times of each client
          refusal    \* history: the last refusal

gateVars == <<instant, hits, admitted, refusal>>

RateWindow == WindowSeconds * TicksPerSecond

\* ApiKeyAuthenticator: x-api-key comes before a Bearer credential, and
\* without a configured key every request passes.
ExtractKey(r) == IF r.xKey # NoKey THEN r.xKey ELSE r.bearer
Authenticated(r) == ApiKeys = {} \/ ExtractKey(r) \in ApiKeys

\* _client_id(): only the x-api-key header names a client.
ClientId(r) ==
    IF r.xKey # NoKey THEN <<"key", r.xKey.tail>>
    ELSE IF r.host # NoHost THEN <<"ip", r.host>> ELSE <<"unknown">>

Clients == {ClientId(r) : r \in Requests}

NoRefusal == [client |-> <<"none">>, at |-> 0, retry |-> 0]

GateInit == /\ instant = 0
            /\ hits = [c \in {} |-> <<>>]
            /\ admitted = [c \in Clients |-> <<>>]
            /\ refusal = NoRefusal

\* Seeded bug: a hit exactly one window old is evicted.
Bug_EvictsWholeWindow(times) ==
    LET gone == {k \in DOMAIN times : \A j \in 1 .. k : times[j] <= instant - RateWindow}
    IN SubSeq(times, Cardinality(gone) + 1, Len(times))

\* _evict_expired(): from the left, up to the first one within the window.
EvictExpired(times) ==
    LET gone == {k \in DOMAIN times : \A j \in 1 .. k : times[j] < instant - RateWindow}
    IN SubSeq(times, Cardinality(gone) + 1, Len(times))

\* self._hits[client_id] of a defaultdict.
HitsOf(client) == IF client \in DOMAIN hits THEN hits[client] ELSE <<>>

Keep(client, times) ==
    hits' = [c \in DOMAIN hits \cup {client} |-> IF c = client THEN times ELSE hits[c]]

\* The seconds of a Retry-After header: int(retry_after_s) + 1.
RetryAfter(oldest) ==
    LET left == RateWindow - (instant - oldest)
    IN (IF left > 0 THEN left ELSE 0) \div TicksPerSecond + 1

\* A request with a wrong key is a 401 and never reaches the limiter.
Reject(r) == ~ Authenticated(r) /\ UNCHANGED gateVars

\* check(), within the limit and over it.
Admit(r) ==
    LET c == ClientId(r)
        live == EvictExpired(HitsOf(c))
    IN /\ Authenticated(r) /\ Len(live) < MaxRequests
       /\ Keep(c, Append(live, instant))
       /\ admitted' = [admitted EXCEPT ![c] = Append(@, instant)]
       /\ UNCHANGED <<instant, refusal>>

Refuse(r) ==
    LET c == ClientId(r)
        live == EvictExpired(HitsOf(c))
    IN /\ Authenticated(r) /\ Len(live) >= MaxRequests
       /\ Keep(c, live)
       /\ refusal' = [client |-> c, at |-> instant, retry |-> RetryAfter(Head(live))]
       /\ UNCHANGED <<instant, admitted>>

\* sweep(): evict in every deque, then drop those left empty.
Sweep ==
    LET live == {c \in DOMAIN hits : EvictExpired(hits[c]) # <<>>}
    IN /\ hits' = [c \in live |-> EvictExpired(hits[c])]
       /\ UNCHANGED <<instant, admitted, refusal>>

PassTime == /\ instant < MaxInstant
            /\ instant' = instant + 1
            /\ UNCHANGED <<hits, admitted, refusal>>

GateNext == \/ \E r \in Requests : Reject(r) \/ Admit(r) \/ Refuse(r)
            \/ Sweep
            \/ PassTime

GateSpec == GateInit /\ [][GateNext]_gateVars

-----------------------------------------------------------------------------
\* Admissions of a client from one instant to another, both included.
CountIn(times, from, to) == Cardinality({k \in DOMAIN times : times[k] \in from .. to})
AdmittedIn(c, from, to) == CountIn(admitted[c], from, to)

\* No window's length of time, wherever it starts, holds more admissions of a
\* client than the limit, across its deque's evictions and the sweeps that
\* forget the client. (A fixed window lets twice as many pass.)
NeverOver == \A c \in Clients : \A from \in 0 .. instant :
                AdmittedIn(c, from, from + RateWindow) <= MaxRequests

\* A client is refused only while its window is full, and one that waits as
\* long as its Retry-After says finds a place, if it asked for nothing else.
RefusedWithCause ==
    refusal = NoRefusal \/
    LET free == refusal.at + refusal.retry * TicksPerSecond
    IN /\ AdmittedIn(refusal.client, refusal.at - RateWindow, refusal.at) = MaxRequests
       /\ AdmittedIn(refusal.client, free - RateWindow, refusal.at) < MaxRequests

\* Only the clients a sweep may drop are dropped: those with no admission that
\* still counts.
NoClientForgotten == \A c \in Clients : AdmittedIn(c, instant - RateWindow, instant) > 0
                                            => c \in DOMAIN hits

\* The limiter decides as a sliding window over everything it ever admitted
\* would, although it keeps only a window's worth of it.
WindowExact == NeverOver /\ RefusedWithCause /\ NoClientForgotten
=============================================================================
