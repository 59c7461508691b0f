--------------------------- MODULE SessionManager ---------------------------
(***************************************************************************)
(* The life of sessions: SessionManager (conversation/manager.py), the     *)
(* teardown of Session.aclose (conversation/session.py), and what drives   *)
(* them in api/app.py, the reaper task and the lifespan's shutdown.        *)
(*                                                                         *)
(* The manager's lock is never held across an await, so each of its        *)
(* methods is atomic up to the aclose() it awaits.  The close lock of a    *)
(* session is held while hooks run; it is asyncio.Lock, with its FIFO      *)
(* waiters, its one wakeup per release and the handing on of a wakeup by   *)
(* a cancelled waiter.  What a fired token stops is in VoicePipeline.      *)
(***************************************************************************)
EXTENDS Integers, Sequences, FiniteSets, SequencesExt

CONSTANTS
    Ids,         \* bound: the sessions ever created
    Callers,     \* bound: tasks that close a session once, e.g. request handlers
    Limit,       \* _limit
    MaxHooks,    \* bound: cleanup hooks per session
    IdleTimeout, \* _idle_timeout, in ticks
    MaxDuration, \* _max_duration, in ticks
    Nobody       \* nobody holds a lock

ASSUME LimitAssumption == Limit \in Nat \ {0}
ASSUME MaxHooksAssumption == MaxHooks \in Nat
ASSUME TimeoutsAssumption == IdleTimeout \in Nat \ {0} /\ MaxDuration \in Nat \ {0}

VARIABLES
    registry,   \* _sessions
    closed,     \* _closed of the manager
    state,      \* _state of each session
    hooks,      \* how many hooks _cleanup holds, numbered as registered
    todo,       \* hooks the running aclose has still to run
    lock,       \* holder of _close_lock
    waiters,    \* tasks queued on _close_lock
    task,       \* the tasks inside aclose()
    target,     \* the session each of them closes
    doomed,     \* tasks sent a cancellation they have not seen yet
    reaper,     \* the _reaper task
    lifespan,   \* the lifespan handler
    idle, age,  \* idle_s and age_s of each session, in ticks
    \* History:
    added,      \* hooks ever registered
    ran         \* hooks run, in order

registryVars == <<registry, closed, reaper, lifespan>>
sessionVars == <<state, hooks, todo, ran>>
clockVars == <<idle, age>>
vars == <<registryVars, sessionVars, clockVars, lock, waiters, task, target, doomed,
          added>>

Reaping(s) == <<"reap", s>>     \* the child of the sweep's gather that closes s
Stopping(s) == <<"stop", s>>    \* the same of the shutdown's gather
Children == {Reaping(s) : s \in Ids} \cup {Stopping(s) : s \in Ids}
Tasks == Callers \cup Children

ASSUME TasksAssumption == Callers \cap Children = {} /\ Nobody \notin Tasks

Ended == {"returned", "refused", "cancelled", "dropped"}
InFlight == {"starting", "waiting", "woken", "unwinding"}

Init ==
    /\ registry = {} /\ closed = FALSE
    /\ reaper = "sleeping" /\ lifespan = "serving"
    /\ state = [s \in Ids |-> "none"]
    /\ hooks = [s \in Ids |-> 0] /\ todo = [s \in Ids |-> 0]
    /\ ran = [s \in Ids |-> <<>>] /\ added = [s \in Ids |-> 0]
    /\ idle = [s \in Ids |-> 0] /\ age = [s \in Ids |-> 0]
    /\ lock = [s \in Ids |-> Nobody] /\ waiters = [s \in Ids |-> <<>>]
    /\ task = [t \in Tasks |-> "idle"]
    /\ target \in [Tasks -> Ids]
    /\ \A s \in Ids : target[Reaping(s)] = s /\ target[Stopping(s)] = s
    /\ doomed = {}

-----------------------------------------------------------------------------
(* Session.aclose() *)

\* The waiters of s that a release or a departing waiter, with tasks tk, finds
\* at the front and resolves.
Woken(tk, queue, gone) ==
    IF queue # <<>> /\ tk[Head(queue)] = "waiting" /\ Head(queue) \notin gone
    THEN [tk EXCEPT ![Head(queue)] = "woken"]
    ELSE tk

\* Seeded bug: no check for CLOSED, and the hooks stay registered.
Bug_EnteredTwice(t, s, queue) ==
    /\ waiters' = [waiters EXCEPT ![s] = queue]
    /\ IF hooks[s] = 0
       THEN /\ state' = [state EXCEPT ![s] = "closed"]
            /\ task' = Woken([task EXCEPT ![t] = "returned"], queue, doomed)
            /\ lock' = [lock EXCEPT ![s] = Nobody]
            /\ UNCHANGED <<hooks, todo, ran>>
       ELSE /\ state' = [state EXCEPT ![s] = "closing"]
            /\ todo' = [todo EXCEPT ![s] = hooks[s]]
            /\ lock' = [lock EXCEPT ![s] = t]
            /\ task' = [task EXCEPT ![t] = "unwinding"]
            /\ UNCHANGED <<hooks, ran>>

\* t has the lock of s, queue being who still waits for it.  A closed session,
\* or one without hooks, is done with before the next await.
Entered(t, s, queue) ==
    /\ waiters' = [waiters EXCEPT ![s] = queue]
    /\ IF state[s] = "closed" \/ hooks[s] = 0
       THEN /\ state' = [state EXCEPT ![s] = "closed"]
            /\ task' = Woken([task EXCEPT ![t] = "returned"], queue, doomed)
            /\ lock' = [lock EXCEPT ![s] = Nobody]
            /\ UNCHANGED <<hooks, todo, ran>>
       ELSE /\ state' = [state EXCEPT ![s] = "closing"]
            /\ todo' = [todo EXCEPT ![s] = hooks[s]]
            /\ hooks' = [hooks EXCEPT ![s] = 0]
            /\ lock' = [lock EXCEPT ![s] = t]
            /\ task' = [task EXCEPT ![t] = "unwinding"]
            /\ UNCHANGED ran

Free(s) ==
    /\ lock[s] = Nobody
    /\ \A i \in DOMAIN waiters[s] : /\ task[waiters[s][i]] = "waiting"
                                    /\ waiters[s][i] \in doomed

\* Seeded bug: a session that is not active is left to whoever is closing it.
Bug_BeginsReturnsEarly(t, s) ==
    IF state[s] # "active"
    THEN /\ task' = [task EXCEPT ![t] = "returned"]
         /\ UNCHANGED <<sessionVars, lock, waiters>>
    ELSE Entered(t, s, waiters[s])

\* `async with self._close_lock`: t gets the lock at once, or queues for it.
Begins(t, s) ==
    IF Free(s)
    THEN Entered(t, s, waiters[s])
    ELSE /\ waiters' = [waiters EXCEPT ![s] = Append(@, t)]
         /\ task' = [task EXCEPT ![t] = "waiting"]
         /\ UNCHANGED <<sessionVars, lock>>

\* A child of a gather runs for the first time.
ChildStarts(t) ==
    /\ task[t] = "starting"
    /\ t \notin doomed
    /\ Begins(t, target[t])
    /\ UNCHANGED <<registryVars, clockVars, target, doomed, added>>

LockAcquired(t) ==
    LET s == target[t] IN
    /\ task[t] = "woken"
    /\ t \notin doomed
    /\ Entered(t, s, RemoveFirst(waiters[s], t))
    /\ UNCHANGED <<registryVars, clockVars, target, doomed, added>>

\* Seeded bug: one iteration too many.
Bug_UnwindsTooFar(t) ==
    LET s == target[t] IN
    /\ ran' = [ran EXCEPT ![s] = Append(@, todo[s])]
    /\ todo' = [todo EXCEPT ![s] = @ - 1]
    /\ IF todo[s] > 0
       THEN UNCHANGED <<state, task, lock>>
       ELSE /\ state' = [state EXCEPT ![s] = "closed"]
            /\ task' = Woken([task EXCEPT ![t] = "returned"], waiters[s], doomed \ {t})
            /\ lock' = [lock EXCEPT ![s] = Nobody]
    /\ doomed' = doomed \ {t}
    /\ UNCHANGED <<registryVars, clockVars, hooks, waiters, target, added>>

\* The current hook is over, somehow; the loop goes on to the one registered
\* before it, and after the last the session is closed and the lock released.
Unwinds(t) ==
    LET s == target[t] IN
    /\ ran' = [ran EXCEPT ![s] = Append(@, todo[s])]
    /\ todo' = [todo EXCEPT ![s] = @ - 1]
    /\ IF todo[s] > 1
       THEN UNCHANGED <<state, task, lock>>
       ELSE /\ state' = [state EXCEPT ![s] = "closed"]
            /\ task' = Woken([task EXCEPT ![t] = "returned"], waiters[s], doomed \ {t})
            /\ lock' = [lock EXCEPT ![s] = Nobody]
    /\ doomed' = doomed \ {t}
    /\ UNCHANGED <<registryVars, clockVars, hooks, waiters, target, added>>

\* A hook returns, or raises and is logged; it may also swallow a cancellation.
HookEnds(t) ==
    /\ task[t] = "unwinding"
    /\ Unwinds(t)

\* Seeded bug: the CancelledError leaves the unwinding loop.
Bug_HookCutShortAborts(t) ==
    LET s == target[t] IN
    /\ task[t] = "unwinding"
    /\ t \in doomed
    /\ ran' = [ran EXCEPT ![s] = Append(@, todo[s])]
    /\ todo' = [todo EXCEPT ![s] = 0]
    /\ task' = Woken([task EXCEPT ![t] = "cancelled"], waiters[s], doomed)
    /\ lock' = [lock EXCEPT ![s] = Nobody]
    /\ doomed' = doomed \ {t}
    /\ UNCHANGED <<registryVars, clockVars, state, hooks, waiters, target, added>>

\* `except CancelledError` in the loop: logged, and not raised again.
HookCutShort(t) ==
    /\ task[t] = "unwinding"
    /\ t \in doomed
    /\ Unwinds(t)

\* CancelledError inside Lock.acquire: leave the queue; if the lock is free the
\* wakeup may have been this waiter's, so wake the next.
WaitAbandoned(t) ==
    LET s == target[t]
        queue == RemoveFirst(waiters[s], t)
        tk == [task EXCEPT ![t] = "cancelled"] IN
    /\ task[t] \in {"waiting", "woken"}
    /\ t \in doomed
    /\ waiters' = [waiters EXCEPT ![s] = queue]
    /\ task' = IF lock[s] = Nobody THEN Woken(tk, queue, doomed) ELSE tk
    /\ doomed' = doomed \ {t}
    /\ UNCHANGED <<registryVars, sessionVars, clockVars, lock, target, added>>

\* A task cancelled before its first step never runs its coroutine.
NeverStarted(t) ==
    /\ task[t] = "starting"
    /\ t \in doomed
    /\ task' = [task EXCEPT ![t] = "dropped"]
    /\ doomed' = doomed \ {t}
    /\ UNCHANGED <<registryVars, sessionVars, clockVars, lock, waiters, target, added>>

TaskStep(t) == \/ ChildStarts(t) \/ LockAcquired(t) \/ HookEnds(t)
               \/ HookCutShort(t) \/ WaitAbandoned(t) \/ NeverStarted(t)

-----------------------------------------------------------------------------
(* A session while it is open *)

\* create(), when there is a slot.
Create(s) ==
    /\ lifespan = "serving" /\ ~closed
    /\ state[s] = "none"
    /\ Cardinality(registry) < Limit
    /\ registry' = registry \cup {s}
    /\ state' = [state EXCEPT ![s] = "active"]
    /\ UNCHANGED <<closed, reaper, lifespan, hooks, todo, ran, clockVars, lock, waiters,
                   task, target, doomed, added>>

\* add_cleanup(); require_active() refuses it once the session is closing.
AddCleanup(s) ==
    /\ state[s] = "active"
    /\ added[s] < MaxHooks
    /\ hooks' = [hooks EXCEPT ![s] = @ + 1]
    /\ added' = [added EXCEPT ![s] = @ + 1]
    /\ UNCHANGED <<registryVars, state, todo, ran, clockVars, lock, waiters, task,
                   target, doomed>>

\* touch(), by a turn that begins, ends or is interrupted.
Touch(s) ==
    /\ state[s] = "active"
    /\ idle' = [idle EXCEPT ![s] = 0]
    /\ UNCHANGED <<registryVars, sessionVars, age, lock, waiters, task, target, doomed,
                   added>>

\* Monotonic time passes; past the timeouts it makes no further difference.
Tick ==
    /\ idle' = [s \in Ids |-> IF state[s] = "active" /\ idle[s] < IdleTimeout
                              THEN idle[s] + 1 ELSE idle[s]]
    /\ age' = [s \in Ids |-> IF state[s] = "active" /\ age[s] < MaxDuration
                             THEN age[s] + 1 ELSE age[s]]
    /\ UNCHANGED <<registryVars, sessionVars, lock, waiters, task, target, doomed,
                   added>>

-----------------------------------------------------------------------------
(* Closing sessions *)

\* manager.close(): DELETE, or the socket handler's last words.
CallClose(c) ==
    LET s == target[c] IN
    /\ lifespan = "serving"
    /\ task[c] = "idle"
    /\ state[s] # "none"
    /\ IF s \in registry
       THEN Begins(c, s)
       ELSE /\ task' = [task EXCEPT ![c] = "refused"]
            /\ UNCHANGED <<sessionVars, lock, waiters>>
    /\ registry' = registry \ {s}
    /\ UNCHANGED <<closed, reaper, lifespan, clockVars, target, doomed, added>>

\* session.aclose() by somebody who holds the session itself.
CallAclose(c) ==
    LET s == target[c] IN
    /\ lifespan = "serving"
    /\ task[c] = "idle"
    /\ state[s] # "none"
    /\ Begins(c, s)
    /\ UNCHANGED <<registryVars, clockVars, target, doomed, added>>

\* The server gives up on a handler.
CancelCaller(c) ==
    /\ task[c] \in InFlight
    /\ c \notin doomed
    /\ doomed' = doomed \cup {c}
    /\ UNCHANGED <<registryVars, sessionVars, clockVars, lock, waiters, task, target,
                   added>>

Expired(s) == idle[s] >= IdleTimeout \/ age[s] >= MaxDuration

\* Seeded bug: every expired session loses its slot, one of them is closed.
Bug_SweepClosesOne ==
    LET expired == {s \in registry : Expired(s)} IN
    /\ reaper = "sleeping"
    /\ expired # {}
    /\ registry' = registry \ expired
    /\ reaper' = "gathering"
    /\ \E s \in expired : task' = [task EXCEPT ![Reaping(s)] = "starting"]
    /\ UNCHANGED <<closed, lifespan, sessionVars, clockVars, lock, waiters, target,
                   doomed, added>>

\* reap(), up to its gather.
Sweep ==
    LET expired == {s \in registry : Expired(s)} IN
    /\ reaper = "sleeping"
    /\ expired # {}
    /\ registry' = registry \ expired
    /\ reaper' = "gathering"
    /\ task' = [t \in Tasks |-> IF t \in {Reaping(s) : s \in expired}
                                THEN "starting" ELSE task[t]]
    /\ UNCHANGED <<closed, lifespan, sessionVars, clockVars, lock, waiters, target,
                   doomed, added>>

\* Seeded bug: the reaper does one sweep only.
Bug_SweepEndsLoop ==
    /\ reaper = "gathering"
    /\ \A s \in Ids : task[Reaping(s)] \notin InFlight
    /\ reaper' = "done"
    /\ UNCHANGED <<registry, closed, lifespan, sessionVars, clockVars, lock, waiters,
                   task, target, doomed, added>>

\* The gather has every result; the reaper sleeps on, or ends if cancelled.
SweepEnds ==
    /\ reaper \in {"gathering", "cancelling"}
    /\ \A s \in Ids : task[Reaping(s)] \notin InFlight
    /\ reaper' = IF reaper = "gathering" THEN "sleeping" ELSE "done"
    /\ UNCHANGED <<registry, closed, lifespan, sessionVars, clockVars, lock, waiters,
                   task, target, doomed, added>>

\* Shutdown, once the server has done with its handlers: cancel the reaper.  In
\* a sweep the cancellation goes to the gather and from there to its children.
Shutdown ==
    /\ lifespan = "serving"
    /\ \A c \in Callers : task[c] \notin InFlight
    /\ lifespan' = "stopping"
    /\ reaper' = IF reaper = "sleeping" THEN "done" ELSE "cancelling"
    /\ doomed' = doomed \cup {t \in {Reaping(s) : s \in Ids} : task[t] \in InFlight}
    /\ UNCHANGED <<registry, closed, sessionVars, clockVars, lock, waiters, task, target,
                   added>>

\* manager.aclose(), up to its gather.
CloseAll ==
    /\ lifespan = "stopping"
    /\ reaper = "done"
    /\ lifespan' = "closing"
    /\ closed' = TRUE
    /\ registry' = {}
    /\ task' = [t \in Tasks |-> IF t \in {Stopping(s) : s \in registry}
                                THEN "starting" ELSE task[t]]
    /\ UNCHANGED <<reaper, sessionVars, clockVars, lock, waiters, target, doomed, added>>

\* The shutdown's gather has every result.
Stopped ==
    /\ lifespan = "closing"
    /\ \A s \in Ids : task[Stopping(s)] \notin InFlight
    /\ lifespan' = "stopped"
    /\ UNCHANGED <<registry, closed, reaper, sessionVars, clockVars, lock, waiters, task,
                   target, doomed, added>>

Next ==
    \/ Tick
    \/ \E s \in Ids : Create(s) \/ AddCleanup(s) \/ Touch(s)
    \/ \E c \in Callers : CallClose(c) \/ CallAclose(c) \/ CancelCaller(c)
    \/ \E t \in Tasks : TaskStep(t)
    \/ Sweep \/ SweepEnds \/ Shutdown \/ CloseAll \/ Stopped

Spec == Init /\ [][Next]_vars

\* The loop resumes what is ready, the reaper's timer goes off, the lifespan
\* handler goes on; hooks are assumed to end.
Fairness ==
    /\ \A t \in Tasks : WF_vars(TaskStep(t))
    /\ WF_vars(Sweep)
    /\ WF_vars(SweepEnds)
    /\ WF_vars(CloseAll)
    /\ WF_vars(Stopped)

FairSpec == Spec /\ Fairness

-----------------------------------------------------------------------------
TypeOK ==
    /\ registry \subseteq {s \in Ids : state[s] # "none"}
    /\ closed \in BOOLEAN
    /\ state \in [Ids -> {"none", "active", "closing", "closed"}]
    /\ hooks \in [Ids -> 0 .. MaxHooks] /\ todo \in [Ids -> 0 .. MaxHooks]
    /\ lock \in [Ids -> Tasks \cup {Nobody}]
    /\ waiters \in [Ids -> Seq(Tasks)] /\ ran \in [Ids -> Seq(1 .. MaxHooks)]
    /\ task \in [Tasks -> {"idle"} \cup InFlight \cup Ended]
    /\ target \in [Tasks -> Ids]
    /\ doomed \subseteq {t \in Tasks : task[t] \in InFlight}
    /\ reaper \in {"sleeping", "gathering", "cancelling", "done"}
    /\ lifespan \in {"serving", "stopping", "closing", "stopped"}
    /\ idle \in [Ids -> 0 .. IdleTimeout] /\ age \in [Ids -> 0 .. MaxDuration]
    /\ added \in [Ids -> 0 .. MaxHooks]

(* Deterministic teardown (aclose, steps 3 and 4): whoever closes, however  *)
(* many do and whoever of them is cancelled, each hook registered runs      *)
(* once, in LIFO order, and the session is CLOSED only after the last.      *)
UnwoundOnce ==
    \A s \in Ids :
        /\ Len(ran[s]) <= added[s]
        /\ \A i \in DOMAIN ran[s] : ran[s][i] = added[s] - i + 1
        /\ state[s] = "closed" => Len(ran[s]) = added[s]

(* A call of aclose() that returns found or left the session closed: "the   *)
(* second caller awaits the first and returns once teardown is complete".   *)
ReturnedMeansClosed ==
    \A t \in Tasks : task[t] = "returned" => state[target[t]] = "closed"

(* No zombies: while the server runs, an open session is in the registry,   *)
(* where the reaper and the API find it, or a task is on its way to close   *)
(* it.                                                                      *)
NoOrphanSession ==
    \A s \in Ids :
        lifespan = "serving" /\ state[s] \in {"active", "closing"} =>
            \/ s \in registry
            \/ \E t \in Tasks : target[t] = s /\ task[t] \in InFlight

(* The reaper frees the seat of every session that has expired, for as long *)
(* as the server runs (_reaper: "the only thing that frees a seat when a    *)
(* caller vanishes without a DELETE").                                      *)
SeatFreed == \A s \in Ids : s \in registry /\ Expired(s) ~> s \notin registry \/ ~Expired(s)

(* "Teardown must complete even if the closing task is being cancelled";    *)
(* and every call of aclose() ends.                                         *)
TeardownEnds ==
    /\ \A s \in Ids : state[s] = "closing" ~> state[s] = "closed"
    /\ \A t \in Tasks : task[t] \in InFlight ~> task[t] \in Ended

(* Shutdown closes every session (test_manager.py), before the lifespan     *)
(* handler goes on to unload the models.                                    *)
ShutdownClosesAll ==
    lifespan = "stopped" => \A s \in Ids : state[s] \in {"none", "closed"}

=============================================================================
