----------------------------- MODULE WorkerPool -----------------------------
(***************************************************************************)
(* orphus.scheduler.WorkerPool (pool.py): worker tasks that take work      *)
(* items off a rejecting priority queue, run their operations and settle   *)
(* the futures handed to the submitters; cancel_session; aclose with a     *)
(* drain timeout.                                                          *)
(*                                                                         *)
(* Steps are event-loop steps.  A worker that resumes settles its future,  *)
(* goes round its loop, skips cancelled items and either starts the next   *)
(* operation, parks in get() or returns, all before it awaits again.  The  *)
(* queue is BoundedQueue seen from outside: entries in service order, one  *)
(* parked worker woken per put.                                            *)
(***************************************************************************)
EXTENDS Integers, FiniteSets

CONSTANTS
    MaxItems,       \* bound: items ever submitted; item i is the i-th submission
    SessionOf,      \* WorkItem.session_id of each item
    PriorityOf,     \* WorkItem.priority of each item
    Workers,        \* _worker_count worker tasks
    Capacity,       \* capacity of _queue
    CallersCancel,  \* whether submitters may cancel the future they hold
    OperationsRaise \* whether an operation may raise before it is a task

Items == 1 .. MaxItems
Sessions == {SessionOf[i] : i \in Items}

ASSUME MaxItemsAssumption == MaxItems \in Nat
ASSUME SessionOfAssumption == DOMAIN SessionOf = Items
ASSUME PriorityOfAssumption == PriorityOf \in [Items -> Int]
ASSUME WorkersAssumption == IsFiniteSet(Workers) /\ Workers # {}
ASSUME CapacityAssumption == Capacity \in Nat \ {0}
ASSUME CallersCancelAssumption == CallersCancel \in BOOLEAN
ASSUME OperationsRaiseAssumption == OperationsRaise \in BOOLEAN

VARIABLES
    submitted,   \* _sequence: submissions made so far
    queued,      \* items in _queue
    closed,      \* _queue.is_closed
    future,      \* WorkItem.future of each item
    operation,   \* the operation's task
    running,     \* _running, over all sessions
    worker,      \* each worker task
    job,         \* the item a busy worker runs (0: none)
    mustCancel,  \* workers that will see CancelledError when they resume
    closer       \* the task inside aclose()

queueVars == <<submitted, queued, closed>>
operationVars == <<operation, running>>
workerVars == <<worker, job, mustCancel>>
vars == <<queueVars, future, operationVars, workerVars, closer>>

Futures == {"none", "pending", "resolved", "failed", "cancelled"}
Operations == {"none", "running", "cancelling", "ok", "error", "cancelled"}
InProgress == {"running", "cancelling"}

Started == \A w \in Workers : worker[w] # "off"

-----------------------------------------------------------------------------
Init ==
    /\ submitted = 0 /\ queued = {} /\ closed = FALSE
    /\ future = [i \in Items |-> "none"]
    /\ operation = [i \in Items |-> "none"] /\ running = {}
    /\ worker = [w \in Workers |-> "off"]
    /\ job = [w \in Workers |-> 0] /\ mustCancel = {}
    /\ closer = "idle"

\* start(): called once, before the pool is closed.
Start ==
    /\ ~Started
    /\ ~closed
    /\ worker' = [w \in Workers |-> "ready"]
    /\ UNCHANGED <<queueVars, operationVars, future, job, mustCancel, closer>>

\* Seeded bug: a full queue takes one item more.
Bug_SubmitPastCapacity ==
    LET i == submitted + 1
        parked == {w \in Workers : worker[w] = "parked"} IN
    /\ submitted < MaxItems
    /\ ~closed
    /\ Cardinality(queued) <= Capacity
    /\ submitted' = i
    /\ queued' = queued \cup {i}
    /\ future' = [future EXCEPT ![i] = "pending"]
    /\ IF parked = {}
       THEN UNCHANGED worker
       ELSE \E w \in parked : worker' = [worker EXCEPT ![w] = "ready"]
    /\ UNCHANGED <<operationVars, closed, job, mustCancel, closer>>

\* submit() of the next item; put() wakes one parked worker.
Submit ==
    LET i == submitted + 1
        parked == {w \in Workers : worker[w] = "parked"} IN
    /\ submitted < MaxItems
    /\ ~closed
    /\ Cardinality(queued) < Capacity
    /\ submitted' = i
    /\ queued' = queued \cup {i}
    /\ future' = [future EXCEPT ![i] = "pending"]
    /\ IF parked = {}
       THEN UNCHANGED worker
       ELSE \E w \in parked : worker' = [worker EXCEPT ![w] = "ready"]
    /\ UNCHANGED <<operationVars, closed, job, mustCancel, closer>>

\* submit() raising QueueClosed or QueueFull: the future is never returned.
SubmitRefused ==
    /\ submitted < MaxItems
    /\ closed \/ Cardinality(queued) >= Capacity
    /\ submitted' = submitted + 1
    /\ UNCHANGED <<operationVars, workerVars, queued, closed, future, closer>>

\* A submitter awaiting the future is cancelled, or gives up on it.
CallerCancels(i) ==
    /\ CallersCancel
    /\ future[i] = "pending"
    /\ future' = [future EXCEPT ![i] = "cancelled"]
    /\ UNCHANGED <<queueVars, operationVars, workerVars, closer>>

\* The operation's task ends; it may ignore a cancellation.
OperationEnds(i) ==
    /\ \/ /\ operation[i] \in InProgress
          /\ \E r \in {"ok", "error"} : operation' = [operation EXCEPT ![i] = r]
       \/ /\ operation[i] = "cancelling"
          /\ operation' = [operation EXCEPT ![i] = "cancelled"]
    /\ UNCHANGED <<queueVars, workerVars, future, running, closer>>

-----------------------------------------------------------------------------
(* _worker *)

Precedes(i, j) ==
    PriorityOf[i] < PriorityOf[j] \/ (PriorityOf[i] = PriorityOf[j] /\ i < j)

\* The item get() would return first among S.
MostUrgent(S) == CHOOSE i \in S : \A j \in S \ {i} : Precedes(i, j)

\* Seeded bug: a cancelled item is run like any other.
Bug_LoopRunsCancelled(w, fut, reg) ==
    IF queued = {}
    THEN /\ worker' = [worker EXCEPT ![w] = IF closed THEN "returned" ELSE "parked"]
         /\ job' = [job EXCEPT ![w] = 0]
         /\ running' = reg
         /\ UNCHANGED <<queued, operation>>
    ELSE LET i == MostUrgent(queued) IN
         /\ worker' = [worker EXCEPT ![w] = "busy"]
         /\ job' = [job EXCEPT ![w] = i]
         /\ queued' = queued \ {i}
         /\ operation' = [operation EXCEPT ![i] = "running"]
         /\ running' = reg \cup {i}

\* Round the loop, with futures fut and registry reg: take items until one is
\* not cancelled and start it; else park, or return if the queue is closed. The
\* call that makes the operation's task is outside the try: if it raises, the
\* worker's task ends and the item's future stays as it is.
Loop(w, fut, reg) ==
    LET live == {i \in queued : fut[i] # "cancelled"} IN
    IF live = {}
    THEN /\ worker' = [worker EXCEPT ![w] = IF closed THEN "returned" ELSE "parked"]
         /\ job' = [job EXCEPT ![w] = 0]
         /\ queued' = {}
         /\ running' = reg
         /\ UNCHANGED operation
    ELSE LET i == MostUrgent(live) IN
         /\ queued' = {j \in queued : Precedes(i, j)}
         /\ \/ /\ worker' = [worker EXCEPT ![w] = "busy"]
               /\ job' = [job EXCEPT ![w] = i]
               /\ operation' = [operation EXCEPT ![i] = "running"]
               /\ running' = reg \cup {i}
            \/ /\ OperationsRaise
               /\ worker' = [worker EXCEPT ![w] = "died"]
               /\ job' = [job EXCEPT ![w] = 0]
               /\ running' = reg
               /\ UNCHANGED operation

\* A worker that was started, or woken inside get().
WorkerWakes(w) ==
    /\ worker[w] = "ready"
    /\ Loop(w, future, running)
    /\ UNCHANGED <<submitted, closed, future, mustCancel, closer>>

Finished(w) ==
    /\ worker[w] = "busy"
    /\ operation[job[w]] \notin InProgress

Cancelled(w) == w \in mustCancel \/ operation[job[w]] = "cancelled"

\* Seeded bug: the handler swallows the cancellation, the future stays pending.
Bug_CancellationSwallowed(w) ==
    /\ Finished(w)
    /\ Cancelled(w)
    /\ mustCancel' = mustCancel \ {w}
    /\ Loop(w, future, running \ {job[w]})
    /\ UNCHANGED <<submitted, closed, future, closer>>

\* `except CancelledError`: the item's future is cancelled, the worker goes on.
WorkerSeesCancellation(w) ==
    LET i == job[w]
        fut == [future EXCEPT ![i] = IF @ = "pending" THEN "cancelled" ELSE @] IN
    /\ Finished(w)
    /\ Cancelled(w)
    /\ future' = fut
    /\ mustCancel' = mustCancel \ {w}
    /\ Loop(w, fut, running \ {i})
    /\ UNCHANGED <<submitted, closed, closer>>

\* The futures once the item of w, which its submitter still waits for, has
\* its result or its exception.
Settled(w) ==
    [future EXCEPT ![job[w]] = IF operation[job[w]] = "ok" THEN "resolved" ELSE "failed"]

Settling(w) == Finished(w) /\ ~Cancelled(w) /\ future[job[w]] = "pending"

\* Seeded bug: the operation's task is left in the registry.
Bug_WorkerSettlesLeaks(w) ==
    /\ Settling(w)
    /\ future' = Settled(w)
    /\ Loop(w, Settled(w), running)
    /\ UNCHANGED <<submitted, closed, mustCancel, closer>>

\* Seeded bug: the worker leaves its loop after an operation that failed.
Bug_WorkerQuitsOnError(w) ==
    /\ Settling(w)
    /\ future' = Settled(w)
    /\ IF operation[job[w]] = "ok"
       THEN Loop(w, Settled(w), running \ {job[w]})
       ELSE /\ worker' = [worker EXCEPT ![w] = "returned"]
            /\ job' = [job EXCEPT ![w] = 0]
            /\ running' = running \ {job[w]}
            /\ UNCHANGED <<queued, operation>>
    /\ UNCHANGED <<submitted, closed, mustCancel, closer>>

\* set_result or set_exception.
WorkerSettles(w) ==
    /\ Settling(w)
    /\ future' = Settled(w)
    /\ Loop(w, Settled(w), running \ {job[w]})
    /\ UNCHANGED <<submitted, closed, mustCancel, closer>>

\* The same call on a future its submitter has cancelled raises
\* InvalidStateError, which nothing in _worker catches.
WorkerDies(w) ==
    /\ Finished(w)
    /\ ~Cancelled(w)
    /\ future[job[w]] # "pending"
    /\ worker' = [worker EXCEPT ![w] = "died"]
    /\ running' = running \ {job[w]}
    /\ job' = [job EXCEPT ![w] = 0]
    /\ UNCHANGED <<queueVars, future, operation, mustCancel, closer>>

WorkerStep(w) == \/ WorkerWakes(w) \/ WorkerSeesCancellation(w)
                 \/ WorkerSettles(w) \/ WorkerDies(w)

-----------------------------------------------------------------------------
\* cancel_session(): drop what is queued, cancel what runs.
CancelSession(s) ==
    LET dropped == {i \in queued : SessionOf[i] = s}
        started == {i \in running : SessionOf[i] = s} IN
    /\ dropped \cup started # {}
    /\ queued' = queued \ dropped
    /\ future' = [i \in Items |-> IF i \in dropped THEN "cancelled" ELSE future[i]]
    /\ operation' = [i \in Items |-> IF i \in started /\ operation[i] = "running"
                                     THEN "cancelling" ELSE operation[i]]
    /\ UNCHANGED <<workerVars, submitted, closed, running, closer>>

\* aclose() up to its first await: close the queue, wake the parked workers.
\* Without workers it returns at once.
Close ==
    /\ closer = "idle"
    /\ closed' = TRUE
    /\ worker' = [w \in Workers |-> IF worker[w] = "parked" THEN "ready" ELSE worker[w]]
    /\ closer' = IF Started THEN "draining" ELSE "done"
    /\ UNCHANGED <<operationVars, submitted, queued, future, job, mustCancel>>

\* Seeded bug: the deadline abandons the workers instead of cancelling them
\* and waiting.
Bug_DeadlineAbandons ==
    /\ closer = "draining"
    /\ \E w \in Workers : worker[w] = "busy"
    /\ closer' = "done"
    /\ UNCHANGED <<queueVars, operationVars, workerVars, future>>

\* The drain timeout cancels the gather, which cancels every worker: a busy
\* one passes it to its operation, or sees it at its resume if that is over.
\* Workers woken by Close were scheduled before the timer and have run.  If a
\* dead worker has just failed the gather, the timeout comes first all the same:
\* aclose cancels the workers itself and waits for each, whatever it raises.
Deadline ==
    LET busy == {w \in Workers : worker[w] = "busy"} IN
    /\ closer = "draining"
    /\ busy # {}
    /\ \A w \in Workers : worker[w] # "ready"
    /\ operation' = [i \in Items |->
                       IF operation[i] = "running" /\ \E w \in busy : job[w] = i
                       THEN "cancelling" ELSE operation[i]]
    /\ mustCancel' = {w \in busy : operation[job[w]] \notin InProgress}
    /\ closer' = IF \E w \in Workers : worker[w] = "died" THEN "recancelled" ELSE "expired"
    /\ UNCHANGED <<queueVars, future, running, worker, job>>

\* Every worker has returned: before the deadline the gather simply returns;
\* after it, the CancelledError becomes TimeoutError and the second round of
\* cancellations finds nothing to cancel.
CloseReturns ==
    /\ \/ /\ closer \in {"draining", "expired"}
          /\ \A w \in Workers : worker[w] = "returned"
       \/ /\ closer = "recancelled"
          /\ \A w \in Workers : worker[w] \in {"returned", "died"}
    /\ closer' = "done"
    /\ UNCHANGED <<queueVars, operationVars, workerVars, future>>

\* The gather raises the first worker's InvalidStateError, and so does aclose.
CloseRaises ==
    /\ closer \in {"draining", "expired"}
    /\ \E w \in Workers : worker[w] = "died"
    /\ closer' = "raised"
    /\ UNCHANGED <<queueVars, operationVars, workerVars, future>>

\* The pool has nothing left to do.
Quiescent ==
    /\ closer \in {"done", "raised"}
    /\ submitted = MaxItems
    /\ UNCHANGED vars

Next ==
    \/ Start \/ Submit \/ SubmitRefused
    \/ \E i \in Items : CallerCancels(i) \/ OperationEnds(i)
    \/ \E w \in Workers : WorkerStep(w)
    \/ \E s \in Sessions : CancelSession(s)
    \/ Close \/ Deadline \/ CloseReturns \/ CloseRaises \/ Quiescent

Spec == Init /\ [][Next]_vars

\* The loop resumes every ready task, and operations are assumed to end.
Fairness ==
    /\ \A w \in Workers : WF_vars(WorkerStep(w))
    /\ \A i \in Items : WF_vars(OperationEnds(i))
    /\ WF_vars(CloseReturns \/ CloseRaises)

FairSpec == Spec /\ Fairness

-----------------------------------------------------------------------------
(* The fields have their types, and the backlog is bounded (pool.py:        *)
(* "without admitting an unbounded backlog"), whatever is submitted while   *)
(* workers take, skip and drop what is queued.                              *)
TypeOK ==
    /\ submitted \in 0 .. MaxItems
    /\ queued \subseteq Items /\ Cardinality(queued) <= Capacity
    /\ closed \in BOOLEAN
    /\ future \in [Items -> Futures]
    /\ operation \in [Items -> Operations]
    /\ running \subseteq Items
    /\ worker \in [Workers -> {"off", "ready", "parked", "busy", "returned", "died"}]
    /\ job \in [Workers -> Items \cup {0}]
    /\ mustCancel \subseteq Workers
    /\ closer \in {"idle", "draining", "expired", "recancelled", "done", "raised"}

(* The registry cancel_session relies on is exact: an operation is in       *)
(* _running exactly while some worker awaits it, and no two workers ever    *)
(* hold the same item.  A stale or missing entry would cancel the wrong     *)
(* task or miss one.                                                        *)
RegistryExact ==
    /\ running = {job[w] : w \in {v \in Workers : worker[v] = "busy"}}
    /\ \A v, w \in Workers : worker[v] = "busy" /\ job[v] = job[w] => v = w
    /\ \A i \in Items : operation[i] \in InProgress => i \in running

(* A future tells the truth: a result or an exception came from its         *)
(* operation, and a future still pending after its operation ended has a    *)
(* worker about to settle it.                                               *)
FutureTellsTruth ==
    \A i \in Items :
        /\ future[i] = "resolved" => operation[i] = "ok"
        /\ future[i] = "failed" => operation[i] = "error"
        /\ future[i] = "pending" /\ operation[i] \in {"ok", "error", "cancelled"}
             => \E w \in Workers : worker[w] = "busy" /\ job[w] = i

(* Cancelled work is never picked up: once an item's future is cancelled    *)
(* before it started, by its caller or by cancel_session, it never starts   *)
(* (priority.py, remove_if: "so workers never pick up orphaned tasks").     *)
CancelledNeverStarts ==
    [][\A i \in Items : future[i] = "cancelled" /\ operation[i] = "none"
                          => operation'[i] = "none"]_vars

SomeoneDied == \E w \in Workers : worker[w] = "died"

(* Graceful draining: when aclose of a started pool returns, nothing is     *)
(* queued, nothing runs and every future is settled, whether or not the     *)
(* timeout struck; unless a worker has died before.                         *)
GracefulClose ==
    closer = "done" /\ Started /\ ~SomeoneDied =>
        /\ queued = {} /\ running = {}
        /\ \A i \in Items : future[i] # "pending" /\ operation[i] \notin InProgress

(* Progress: an accepted item of a started pool is answered, unless a      *)
(* worker has died; and aclose always comes back, whether it drains, times  *)
(* out or meets a dead worker.                                              *)
Progress ==
    /\ \A i \in Items : Started /\ future[i] = "pending"
                          ~> future[i] # "pending" \/ SomeoneDied
    /\ closed ~> closer \in {"done", "raised"}

(* Every accepted item of a started pool is answered.                       *)
AllAnswered ==
    \A i \in Items : Started /\ future[i] = "pending" ~> future[i] # "pending"

=============================================================================
