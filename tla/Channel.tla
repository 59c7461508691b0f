------------------------------- MODULE Channel -------------------------------
(***************************************************************************)
(* What a bounded queue promises its users, without waiters, wakeups or    *)
(* counters: a consumer that asks is served at once if it can be, and      *)
(* otherwise waits, and a waiting consumer is not forgotten while there is *)
(* something to serve.  BoundedQueue implements this.                      *)
(***************************************************************************)
EXTENDS Integers, FiniteSets

CONSTANTS Capacity, Policies, Priorities, Consumers

VARIABLES
    policy,    \* what a full channel does with a new entry
    stored,    \* the entries held
    waiting,   \* consumers blocked in get()
    arrivals,  \* entries accepted so far
    shut       \* closed to new entries

chanVars == <<policy, stored, waiting, arrivals, shut>>

Before(e, f) == e.pri < f.pri \/ (e.pri = f.pri /\ e.seq < f.seq)
First(S) == CHOOSE e \in S : \A f \in S \ {e} : Before(e, f)
Eldest(S) == CHOOSE e \in S : \A f \in S : e.seq <= f.seq

ChanInit ==
    policy \in Policies /\ stored = {} /\ waiting = {} /\ arrivals = 0 /\ shut = FALSE

\* An entry is accepted; a full channel makes room if its policy allows it.
Accept ==
    /\ ~shut
    /\ \E p \in Priorities :
         LET e == [seq |-> arrivals, pri |-> p] IN
         \/ Cardinality(stored) < Capacity /\ stored' = stored \cup {e}
         \/ /\ Cardinality(stored) = Capacity
            /\ policy = "drop_oldest"
            /\ stored' = (stored \ {Eldest(stored)}) \cup {e}
    /\ arrivals' = arrivals + 1
    /\ UNCHANGED <<waiting, shut>>

\* Serve the first entry, to a caller that need not wait or to a waiting one.
ServeCaller ==
    /\ stored # {}
    /\ stored' = stored \ {First(stored)}
    /\ UNCHANGED <<waiting, arrivals, shut>>

ServeWaiting(c) ==
    /\ c \in waiting
    /\ stored # {}
    /\ stored' = stored \ {First(stored)}
    /\ waiting' = waiting \ {c}
    /\ UNCHANGED <<arrivals, shut>>

\* Only on an empty open channel does a consumer have to wait.
Wait(c) ==
    /\ c \notin waiting
    /\ stored = {} /\ ~shut
    /\ waiting' = waiting \cup {c}
    /\ UNCHANGED <<stored, arrivals, shut>>

GiveUp(c) ==
    /\ c \in waiting
    /\ waiting' = waiting \ {c}
    /\ UNCHANGED <<stored, arrivals, shut>>

\* A waiting consumer is turned away only by a drained closed channel.
TurnAway(c) == shut /\ stored = {} /\ GiveUp(c)

Shut == ~shut /\ shut' = TRUE /\ UNCHANGED <<stored, waiting, arrivals>>

\* Entries leave unserved when the owner discards them.
Discard ==
    /\ \E R \in SUBSET stored : R # {} /\ stored' = stored \ R
    /\ UNCHANGED <<waiting, arrivals, shut>>

ChanStep ==
    \/ Accept \/ ServeCaller \/ Shut \/ Discard
    \/ \E c \in Consumers : ServeWaiting(c) \/ Wait(c) \/ GiveUp(c) \/ TurnAway(c)

ChanNext == ChanStep /\ UNCHANGED policy

(* While there is an entry and somebody waiting, somebody waiting is        *)
(* eventually served; on a drained closed channel everyone is turned away.  *)
ChanFairness ==
    /\ WF_chanVars((\E c \in Consumers : ServeWaiting(c)) /\ UNCHANGED policy)
    /\ \A c \in Consumers : WF_chanVars(TurnAway(c) /\ UNCHANGED policy)

ChanSafety == ChanInit /\ [][ChanNext]_chanVars
ChanSpec == ChanSafety /\ ChanFairness

=============================================================================
