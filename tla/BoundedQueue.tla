---------------------------- MODULE BoundedQueue ----------------------------
(***************************************************************************)
(* The bounded queues of orphus.queue: _QueueBase (_base.py) over either   *)
(* the FIFO deque of BoundedQueue (bounded.py) or the heap of              *)
(* PriorityBoundedQueue (priority.py).                                     *)
(*                                                                         *)
(* A queue is an event-loop object: everything between two awaits is one   *)
(* atomic step.  The only await is `await waiter` in _wait_for_item, so a  *)
(* get() is at most three steps: it takes an item or parks, something      *)
(* resolves or cancels its waiter, and the task resumes.  The loop may run *)
(* other callbacks between the second and the third.                       *)
(***************************************************************************)
EXTENDS Integers, Sequences, FiniteSets

CONSTANTS
    Capacity,     \* _capacity
    Policies,     \* the overflow policies a queue may be built with
    Priorities,   \* what _priority_of may return; {0} for the FIFO queue
    Consumers,    \* the tasks that call get()
    MaxOffers     \* bound: puts made while the queue is open

ASSUME CapacityAssumption == Capacity \in Nat \ {0}
ASSUME PoliciesAssumption == Policies \subseteq {"drop_oldest", "drop_newest", "reject"}
ASSUME PrioritiesAssumption == Priorities \subseteq Int
ASSUME ConsumersAssumption == IsFiniteSet(Consumers)
ASSUME MaxOffersAssumption == MaxOffers \in Nat

VARIABLES
    policy,        \* _policy
    items,         \* stored entries: the deque, or the heap, as a set
    getters,       \* _getters: consumers in the order they parked
    task,          \* where each consumer's get() call stands
    closed,        \* _closed
    enqueued,      \* _enqueued; also numbers the entries, as _counter does
    dequeued,      \* _dequeued
    dropped,       \* _dropped
    rejected,      \* _rejected
    highWaterMark, \* _high_water_mark
    \* History, not in the code:
    offered,       \* puts that found the queue open
    removed,       \* entries taken out by remove_if
    lastServed     \* per priority, the latest entry served (-1: none)

counters == <<enqueued, dequeued, dropped, rejected, highWaterMark>>
history == <<offered, removed, lastServed>>
vars == <<policy, items, getters, task, closed, counters, history>>

-----------------------------------------------------------------------------
(* Storage.  Entries carry the key (priority, sequence) of the heap; in the *)
(* FIFO queue every priority is equal and the sequence is deque order.      *)

Entry == [seq : Nat, pri : Priorities]

\* Seeded bug: ties served newest first.
Bug_PrecedesNewestFirst(e, f) == e.pri < f.pri \/ (e.pri = f.pri /\ e.seq > f.seq)

Precedes(e, f) == e.pri < f.pri \/ (e.pri = f.pri /\ e.seq < f.seq)

\* The entry _take removes: heap[0], or the left end of the deque.
NextEntry(S) == CHOOSE e \in S : \A f \in S \ {e} : Precedes(e, f)

\* The entry _discard_oldest evicts, whatever its priority.
OldestEntry(S) == CHOOSE e \in S : \A f \in S : e.seq <= f.seq

Size == Cardinality(items)

-----------------------------------------------------------------------------
(* Consumers.  "parked": its waiter is pending.  "woken": the waiter is     *)
(* resolved, the task has not resumed.  The two cancelled states are what   *)
(* task.cancel() makes of them: it cancels a pending waiter, and leaves a   *)
(* resolved one alone so that CancelledError is raised at the resume.       *)

TaskStates == {"idle", "parked", "woken", "waiter_cancelled", "woken_cancelled"}

Pending(t) == {c \in Consumers : t[c] = "parked"}
PendingAt(t) == {i \in DOMAIN getters : t[getters[i]] = "parked"}
FirstPendingAt(t) == CHOOSE i \in PendingAt(t) : \A j \in PendingAt(t) : i <= j

\* Seeded bug: only the head of _getters is looked at, done or not.
Bug_WakeHeadOnly(t) ==
    IF getters = <<>>
    THEN task' = t /\ UNCHANGED getters
    ELSE /\ getters' = Tail(getters)
         /\ task' = IF t[Head(getters)] = "parked"
                    THEN [t EXCEPT ![Head(getters)] = "woken"] ELSE t

\* _wake_next, over the consumers t: resolve the first pending waiter and
\* forget the done ones in front of it.
WakeNext(t) ==
    IF PendingAt(t) = {}
    THEN /\ getters' = <<>>
         /\ task' = t
    ELSE LET i == FirstPendingAt(t) IN
         /\ getters' = SubSeq(getters, i + 1, Len(getters))
         /\ task' = [t EXCEPT ![getters[i]] = "woken"]

\* deque.remove: drop the first occurrence of c, if there is one.
Without(s, c) ==
    IF \E i \in DOMAIN s : s[i] = c
    THEN LET i == CHOOSE i \in DOMAIN s :
                    s[i] = c /\ \A j \in DOMAIN s : s[j] = c => i <= j
         IN SubSeq(s, 1, i - 1) \o SubSeq(s, i + 1, Len(s))
    ELSE s

-----------------------------------------------------------------------------
Init ==
    /\ policy \in Policies
    /\ items = {}
    /\ getters = <<>>
    /\ task = [c \in Consumers |-> "idle"]
    /\ closed = FALSE
    /\ enqueued = 0 /\ dequeued = 0 /\ dropped = 0 /\ rejected = 0
    /\ highWaterMark = 0
    /\ offered = 0 /\ removed = 0
    /\ lastServed = [p \in Priorities |-> -1]

(* put(), by the outcome of its overflow decision.  A put on a closed queue *)
(* raises QueueClosed before touching anything, hence the guard.            *)

Offer ==
    /\ ~closed
    /\ offered < MaxOffers
    /\ offered' = offered + 1
    /\ UNCHANGED <<closed, dequeued, removed, lastServed>>

\* The entry is now stored and the queue holds S: count it and wake someone.
Stored(S) ==
    /\ items' = S
    /\ enqueued' = enqueued + 1
    /\ highWaterMark' = IF Cardinality(S) > highWaterMark
                        THEN Cardinality(S) ELSE highWaterMark
    /\ WakeNext(task)
    /\ UNCHANGED rejected

NewEntry(p) == [seq |-> enqueued, pri |-> p]

PutAccepted(p) ==
    /\ Offer
    /\ Size < Capacity
    /\ Stored(items \cup {NewEntry(p)})
    /\ UNCHANGED dropped

PutDisplacesOldest(p) ==
    /\ Offer
    /\ Size >= Capacity
    /\ policy = "drop_oldest"
    /\ dropped' = dropped + 1
    /\ Stored((items \ {OldestEntry(items)}) \cup {NewEntry(p)})

PutDropsNewest ==
    /\ Offer
    /\ Size >= Capacity
    /\ policy = "drop_newest"
    /\ dropped' = dropped + 1
    /\ UNCHANGED <<items, getters, task, enqueued, rejected, highWaterMark>>

PutRejected ==
    /\ Offer
    /\ Size >= Capacity
    /\ policy = "reject"
    /\ rejected' = rejected + 1
    /\ UNCHANGED <<items, getters, task, enqueued, dropped, highWaterMark>>

-----------------------------------------------------------------------------
\* _pop: serve the next entry.
Pop ==
    /\ items # {}
    /\ items' = items \ {NextEntry(items)}
    /\ dequeued' = dequeued + 1
    /\ lastServed' = [lastServed EXCEPT ![NextEntry(items).pri] = NextEntry(items).seq]
    /\ UNCHANGED <<closed, enqueued, dropped, rejected, highWaterMark, offered, removed>>

\* The items, counters and history a step of get() without a pop leaves alone.
NoTransfer == UNCHANGED <<items, closed, counters, history>>

\* get() on a non-empty queue, and get_nowait(): no await happens.
GetNow ==
    /\ Pop
    /\ UNCHANGED <<getters, task>>

\* get() on an empty open queue: _wait_for_item appends a waiter.
GetParks(c) ==
    /\ task[c] = "idle"
    /\ items = {}
    /\ ~closed
    /\ getters' = Append(getters, c)
    /\ task' = [task EXCEPT ![c] = "parked"]
    /\ NoTransfer

\* get() on a drained closed queue raises QueueClosed at once.
GetRaisesClosed(c) ==
    /\ task[c] = "idle"
    /\ items = {}
    /\ closed
    /\ UNCHANGED vars

\* The woken task re-evaluates `while self._size() == 0`.
ResumeServed(c) ==
    /\ task[c] = "woken"
    /\ Pop
    /\ task' = [task EXCEPT ![c] = "idle"]
    /\ UNCHANGED getters

ResumeParksAgain(c) ==
    /\ task[c] = "woken"
    /\ items = {}
    /\ ~closed
    /\ getters' = Append(getters, c)
    /\ task' = [task EXCEPT ![c] = "parked"]
    /\ NoTransfer

ResumeRaisesClosed(c) ==
    /\ task[c] = "woken"
    /\ items = {}
    /\ closed
    /\ task' = [task EXCEPT ![c] = "idle"]
    /\ UNCHANGED getters
    /\ NoTransfer

\* task.cancel() on a consumer inside get().
Cancel(c) ==
    /\ \/ /\ task[c] = "parked"
          /\ task' = [task EXCEPT ![c] = "waiter_cancelled"]
       \/ /\ task[c] = "woken"
          /\ task' = [task EXCEPT ![c] = "woken_cancelled"]
    /\ UNCHANGED getters
    /\ NoTransfer

\* The except branch of _wait_for_item when the waiter itself was cancelled.
ResumeAbandonsWait(c) ==
    /\ task[c] = "waiter_cancelled"
    /\ getters' = Without(getters, c)
    /\ task' = [task EXCEPT ![c] = "idle"]
    /\ NoTransfer

\* Seeded bug: a cancelled getter keeps the wakeup it was given.
Bug_KeepsWakeup(c) ==
    /\ task[c] = "woken_cancelled"
    /\ task' = [task EXCEPT ![c] = "idle"]
    /\ UNCHANGED getters
    /\ NoTransfer

\* The except branch when the waiter had been resolved: hand the wakeup on.
ResumeHandsOff(c) ==
    /\ task[c] = "woken_cancelled"
    /\ LET t == [task EXCEPT ![c] = "idle"] IN
       IF items # {}
       THEN WakeNext(t)
       ELSE /\ task' = t
            /\ UNCHANGED getters
    /\ NoTransfer

-----------------------------------------------------------------------------
\* close(): wake everybody who is parked.
Close ==
    /\ ~closed
    /\ closed' = TRUE
    /\ getters' = <<>>
    /\ task' = [c \in Consumers |-> IF task[c] = "parked" THEN "woken" ELSE task[c]]
    /\ UNCHANGED <<items, counters, history>>

\* Seeded bug: the discarded entries are not counted.
Bug_ClearUncounted ==
    /\ items # {}
    /\ items' = {}
    /\ UNCHANGED <<getters, task, closed, counters, history>>

\* Seeded bug: the depth is subtracted from the drop counter.
Bug_ClearSubtracts ==
    /\ items # {}
    /\ items' = {}
    /\ dropped' = dropped - Size
    /\ UNCHANGED <<getters, task, closed, enqueued, dequeued, rejected,
                   highWaterMark, history>>

\* clear(): discarded entries count as drops.
Clear ==
    /\ items # {}
    /\ items' = {}
    /\ dropped' = dropped + Size
    /\ UNCHANGED <<getters, task, closed, enqueued, dequeued, rejected,
                   highWaterMark, history>>

\* drain(): a _pop per entry, in one step.
Drain ==
    /\ items # {}
    /\ items' = {}
    /\ dequeued' = dequeued + Size
    /\ lastServed' = [p \in Priorities |->
                        LET band == {e.seq : e \in {f \in items : f.pri = p}} IN
                        IF band = {} THEN lastServed[p]
                        ELSE CHOOSE n \in band : \A m \in band : m <= n]
    /\ UNCHANGED <<getters, task, closed, enqueued, dropped, rejected,
                   highWaterMark, offered, removed>>

\* remove_if() of the priority queue: R is what the predicate picks out.
RemoveIf(R) ==
    /\ items' = items \ R
    /\ removed' = removed + Cardinality(R)
    /\ UNCHANGED <<getters, task, closed, counters, offered, lastServed>>

Put == PutDropsNewest \/ PutRejected
       \/ \E p \in Priorities : PutAccepted(p) \/ PutDisplacesOldest(p)

Resume(c) == ResumeServed(c) \/ ResumeParksAgain(c) \/ ResumeRaisesClosed(c)
             \/ ResumeAbandonsWait(c) \/ ResumeHandsOff(c)

\* remove_if belongs to the priority queue only.
Sweep == /\ Cardinality(Priorities) > 1
         /\ \E R \in SUBSET items : R # {} /\ RemoveIf(R)

Step ==
    \/ Put
    \/ GetNow
    \/ \E c \in Consumers : GetParks(c) \/ GetRaisesClosed(c) \/ Cancel(c) \/ Resume(c)
    \/ Close \/ Clear \/ Drain \/ Sweep

Next == Step /\ UNCHANGED policy

Spec == Init /\ [][Next]_vars

\* The event loop runs every callback it has scheduled, so a task whose
\* waiter is done resumes.  Nothing obliges anyone to put, get or close.
Fairness == \A c \in Consumers : WF_vars(Resume(c) /\ UNCHANGED policy)

FairSpec == Spec /\ Fairness

-----------------------------------------------------------------------------
TypeOK ==
    /\ policy \in Policies
    /\ items \subseteq Entry
    /\ IsFiniteSet(items)
    /\ getters \in Seq(Consumers)
    /\ task \in [Consumers -> TaskStates]
    /\ closed \in BOOLEAN
    /\ enqueued \in Nat /\ dequeued \in Nat /\ dropped \in Nat /\ rejected \in Nat
    /\ highWaterMark \in Nat
    /\ offered \in Nat /\ removed \in Nat
    /\ lastServed \in [Priorities -> Nat \cup {-1}]

\* Consumers a wakeup is on its way to: resolved, not yet resumed.
Woken(t) == {c \in Consumers : t[c] \in {"woken", "woken_cancelled"}}

(* No lost wakeup: while some consumer is still parked, there is a wakeup   *)
(* under way for every stored entry.  put() wakes one getter per entry and  *)
(* a cancelled getter passes its wakeup on (_wait_for_item); losing either  *)
(* would leave an entry in the queue and its consumer asleep.               *)
NoLostWakeup == Pending(task) # {} => Size <= Cardinality(Woken(task))

(* The books balance: every put offered to the open queue is accounted for  *)
(* exactly once, as served, dropped, refused, swept or still stored.  These *)
(* are the numbers stats() exports.                                         *)
Conservation == offered = dequeued + dropped + rejected + removed + Size

(* The queue is bounded and its high-water mark is honest: no depth ever    *)
(* exceeds the mark and the mark never exceeds the capacity.                *)
Bounded == Size <= highWaterMark /\ highWaterMark <= Capacity

(* Stability (priority.py, module docstring): within a priority band,       *)
(* nothing still queued was submitted before something already served.      *)
StableOrder == \A e \in items : lastServed[e.pri] < e.seq

(* close() releases everyone: no consumer stays parked on a closed queue.   *)
ClosedParksNobody == closed => Pending(task) = {} /\ getters = <<>>

\* The consumers the abstract channel sees as waiting: those whose get() has
\* neither returned nor been cancelled.
Waiting == {c \in Consumers : task[c] \in {"parked", "woken"}}

Chan == INSTANCE Channel
            WITH stored <- items, waiting <- Waiting, arrivals <- enqueued,
                 shut <- closed

(* The queue implements the channel: getters, futures, handoffs and the     *)
(* resume loop are invisible, and a wakeup is never lost for good.          *)
ImplementsChannel == Chan!ChanSpec

=============================================================================
