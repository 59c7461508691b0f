------------------------- MODULE CancellationToken -------------------------
(***************************************************************************)
(* orphus.conversation.CancellationToken (cancellation.py): the one-shot,  *)
(* re-armable signal that stops a turn's tasks on barge-in.                *)
(*                                                                         *)
(* A step is what one callback does between two awaits.  Firing the token  *)
(* asks the bound tasks to stop and schedules the waiters; the tasks end,  *)
(* and the coroutines inside guard() and wait() resume, in later steps.    *)
(***************************************************************************)
EXTENDS Naturals, FiniteSets

CONSTANTS
    Tasks,      \* tasks the token may be bound to
    Guards,     \* the tasks among them that run under guard()
    Waiters,    \* coroutines that call wait()
    Listeners,  \* callbacks that may be registered with on_cancel()
    Reasons,    \* arguments of cancel()
    MaxTurn     \* bound: calls of reset()

ASSUME GuardsAssumption == Guards \subseteq Tasks
ASSUME ReasonsAssumption == Reasons # {} /\ "none" \notin Reasons
ASSUME MaxTurnAssumption == MaxTurn \in Nat

VARIABLES
    fired,       \* _event
    reason,      \* _reason
    generation,  \* _generation
    bound,       \* _bound
    callbacks,   \* _callbacks
    task,        \* the tasks of the turn's work
    guard,       \* guard() calls, each named by the task it runs
    torn,        \* guard() callers that were themselves cancelled
    waiter,      \* wait() calls
    told,        \* ghost: notifications each callback has had this turn
    turn,        \* ghost: the generation in which a task was bound
    firedTurns   \* ghost: the generations in which the token has fired

vars == <<fired, reason, generation, bound, callbacks, task, guard, torn, waiter,
          told, turn, firedTurns>>

InProgress == {"running", "cancelling"}
Raised == {"CancellationError", "CancelledError"}

-----------------------------------------------------------------------------
Init ==
    /\ fired = FALSE
    /\ reason = "none"
    /\ generation = 0
    /\ bound = {}
    /\ callbacks = {}
    /\ task = [t \in Tasks |-> "none"]
    /\ guard = [g \in Guards |-> "idle"]
    /\ torn = {}
    /\ waiter = [w \in Waiters |-> "idle"]
    /\ told = [l \in Listeners |-> 0]
    /\ turn = [t \in Tasks |-> 0]
    /\ firedTurns = {}

\* Seeded bug: the bound tasks are left to notice the event by themselves.
Bug_CancelSparesTasks(r) ==
    /\ ~fired
    /\ fired' = TRUE
    /\ reason' = r
    /\ waiter' = [w \in Waiters |-> IF waiter[w] = "waiting" THEN "woken" ELSE waiter[w]]
    /\ told' = [l \in Listeners |-> IF l \in callbacks THEN 1 + told[l] ELSE told[l]]
    /\ firedTurns' = firedTurns \cup {generation}
    /\ UNCHANGED <<generation, bound, callbacks, task, guard, torn, turn>>

\* cancel() of a token that has not fired; on one that has, it does nothing.
Cancel(r) ==
    /\ ~fired
    /\ fired' = TRUE
    /\ reason' = r
    /\ task' = [t \in Tasks |-> IF t \in bound /\ task[t] = "running"
                                THEN "cancelling" ELSE task[t]]
    /\ waiter' = [w \in Waiters |-> IF waiter[w] = "waiting" THEN "woken" ELSE waiter[w]]
    /\ told' = [l \in Listeners |-> IF l \in callbacks THEN 1 + told[l] ELSE told[l]]
    /\ firedTurns' = firedTurns \cup {generation}
    /\ UNCHANGED <<generation, bound, callbacks, guard, torn, turn>>

\* Seeded bug: the finished turn's tasks stay bound.
Bug_ResetKeepsBound ==
    /\ generation < MaxTurn
    /\ fired' = FALSE
    /\ reason' = "none"
    /\ generation' = generation + 1
    /\ told' = [l \in Listeners |-> 0]
    /\ UNCHANGED <<bound, callbacks, task, guard, torn, waiter, turn, firedTurns>>

\* reset()
Reset ==
    /\ generation < MaxTurn
    /\ fired' = FALSE
    /\ reason' = "none"
    /\ generation' = generation + 1
    /\ bound' = {}
    /\ told' = [l \in Listeners |-> 0]
    /\ UNCHANGED <<callbacks, task, guard, torn, waiter, turn, firedTurns>>

\* on_cancel() and the function it returns.
Subscribe(l) ==
    /\ l \notin callbacks
    /\ callbacks' = callbacks \cup {l}
    /\ UNCHANGED <<fired, reason, generation, bound, task, guard, torn, waiter,
                   told, turn, firedTurns>>

Unsubscribe(l) ==
    /\ l \in callbacks
    /\ callbacks' = callbacks \ {l}
    /\ UNCHANGED <<fired, reason, generation, bound, task, guard, torn, waiter,
                   told, turn, firedTurns>>

-----------------------------------------------------------------------------
\* Seeded bug: a task bound after the fire is merely added to the set.
Bug_BindIgnoresFire(t) ==
    /\ task[t] = "none"
    /\ task' = [task EXCEPT ![t] = "running"]
    /\ bound' = bound \cup {t}
    /\ turn' = [turn EXCEPT ![t] = generation]

\* A task is created and bound before it runs: bind().
Bound(t) ==
    /\ task[t] = "none"
    /\ task' = [task EXCEPT ![t] = IF fired THEN "cancelling" ELSE "running"]
    /\ bound' = IF fired THEN bound ELSE bound \cup {t}
    /\ turn' = [turn EXCEPT ![t] = generation]

Bind(t) ==
    /\ t \notin Guards
    /\ Bound(t)
    /\ UNCHANGED <<fired, reason, generation, callbacks, guard, torn, waiter, told,
                   firedTurns>>

\* Seeded bug: a task that ends is not discarded from the bound set.
Bug_TaskStaysBound(t) ==
    /\ \/ /\ task[t] \in InProgress
          /\ task' = [task EXCEPT ![t] = "finished"]
       \/ /\ task[t] = "cancelling"
          /\ task' = [task EXCEPT ![t] = "cancelled"]
    /\ UNCHANGED <<fired, reason, generation, bound, callbacks, guard, torn, waiter,
                   told, turn, firedTurns>>

\* A bound task ends by itself, or honours the cancellation; either way it
\* leaves the bound set.
TaskEnds(t) ==
    /\ \/ /\ task[t] \in InProgress
          /\ task' = [task EXCEPT ![t] = "finished"]
       \/ /\ task[t] = "cancelling"
          /\ task' = [task EXCEPT ![t] = "cancelled"]
    /\ bound' = bound \ {t}
    /\ UNCHANGED <<fired, reason, generation, callbacks, guard, torn, waiter, told,
                   turn, firedTurns>>

-----------------------------------------------------------------------------
\* guard() of a token that has fired: raise_if_cancelled().
GuardRefuses(g) ==
    /\ guard[g] = "idle"
    /\ fired
    /\ guard' = [guard EXCEPT ![g] = "CancellationError"]
    /\ UNCHANGED <<fired, reason, generation, bound, callbacks, task, torn, waiter,
                   told, turn, firedTurns>>

GuardStarts(g) ==
    /\ guard[g] = "idle"
    /\ ~fired
    /\ guard' = [guard EXCEPT ![g] = "awaiting"]
    /\ Bound(g)
    /\ UNCHANGED <<fired, reason, generation, callbacks, torn, waiter, told, firedTurns>>

\* The task calling guard() is cancelled: it passes that on to its work, or is
\* interrupted itself if the work is over and it has only to resume.
CallerCancelled(g) ==
    /\ guard[g] = "awaiting"
    /\ torn' = torn \cup {g}
    /\ IF task[g] \in InProgress
       THEN /\ task' = [task EXCEPT ![g] = "cancelling"]
            /\ UNCHANGED guard
       ELSE /\ guard' = [guard EXCEPT ![g] = "interrupted"]
            /\ UNCHANGED task
    /\ UNCHANGED <<fired, reason, generation, bound, callbacks, waiter, told, turn,
                   firedTurns>>

\* Seeded bug: a cancelled guard() raises without awaiting its task.
Bug_GuardAbandonsTask(g) ==
    /\ guard[g] \in {"awaiting", "interrupted"}
    /\ \/ /\ guard[g] = "awaiting" /\ task[g] = "finished"
          /\ guard' = [guard EXCEPT ![g] = "returned"]
       \/ /\ guard[g] = "interrupted" \/ task[g] \in {"cancelling", "cancelled"}
          /\ guard' = [guard EXCEPT ![g] = IF fired THEN "CancellationError"
                                           ELSE "CancelledError"]
    /\ UNCHANGED <<fired, reason, generation, bound, callbacks, task, torn, waiter,
                   told, turn, firedTurns>>

\* guard() resumes once its task is over.
GuardResumes(g) ==
    /\ guard[g] \in {"awaiting", "interrupted"}
    /\ \/ /\ guard[g] = "awaiting" /\ task[g] = "finished"
          /\ guard' = [guard EXCEPT ![g] = "returned"]
       \/ /\ guard[g] = "interrupted" \/ task[g] = "cancelled"
          /\ guard' = [guard EXCEPT ![g] = IF fired THEN "CancellationError"
                                           ELSE "CancelledError"]
    /\ UNCHANGED <<fired, reason, generation, bound, callbacks, task, torn, waiter,
                   told, turn, firedTurns>>

\* wait(): returns at once if the token has fired.
Wait(w) ==
    /\ waiter[w] = "idle"
    /\ waiter' = [waiter EXCEPT ![w] = IF fired THEN "told" ELSE "waiting"]
    /\ UNCHANGED <<fired, reason, generation, bound, callbacks, task, guard, torn,
                   told, turn, firedTurns>>

\* wait() resumes and reads the reason, which a reset may have erased.
WaitResumes(w) ==
    /\ waiter[w] = "woken"
    /\ waiter' = [waiter EXCEPT ![w] = IF reason = "none" THEN "default" ELSE "told"]
    /\ UNCHANGED <<fired, reason, generation, bound, callbacks, task, guard, torn,
                   told, turn, firedTurns>>

Next ==
    \/ \E r \in Reasons : Cancel(r)
    \/ Reset
    \/ \E l \in Listeners : Subscribe(l) \/ Unsubscribe(l)
    \/ \E t \in Tasks : Bind(t) \/ TaskEnds(t)
    \/ \E g \in Guards : \/ GuardRefuses(g) \/ GuardStarts(g)
                         \/ CallerCancelled(g) \/ GuardResumes(g)
    \/ \E w \in Waiters : Wait(w) \/ WaitResumes(w)

Spec == Init /\ [][Next]_vars

\* The loop resumes what is ready; a task that was cancelled stops in the end.
Fairness ==
    /\ \A t \in Tasks : WF_vars(task[t] = "cancelling" /\ TaskEnds(t))
    /\ \A g \in Guards : WF_vars(GuardResumes(g))
    /\ \A w \in Waiters : WF_vars(WaitResumes(w))

FairSpec == Spec /\ Fairness

-----------------------------------------------------------------------------
(* Types; and a task is bound only while it is in progress.                *)
TypeOK ==
    /\ fired \in BOOLEAN
    /\ reason \in Reasons \cup {"none"}
    /\ generation \in 0 .. MaxTurn
    /\ bound \subseteq {t \in Tasks : task[t] \in InProgress}
    /\ callbacks \subseteq Listeners
    /\ task \in [Tasks -> {"none", "running", "cancelling", "finished", "cancelled"}]
    /\ guard \in [Guards -> {"idle", "awaiting", "interrupted", "returned"} \cup Raised]
    /\ torn \subseteq Guards
    /\ waiter \in [Waiters -> {"idle", "waiting", "woken", "told", "default"}]
    /\ told \in [Listeners -> Nat]
    /\ turn \in [Tasks -> 0 .. MaxTurn]
    /\ firedTurns \subseteq 0 .. MaxTurn

(* A fired token leaves nothing of its turn running: every task bound since *)
(* the last reset, before or after the fire, has ended or was told to stop; *)
(* and however often cancel() is called, no callback is told twice a turn.  *)
TurnStopped ==
    /\ fired => \A t \in Tasks : task[t] = "running" => turn[t] # generation
    /\ \A l \in Listeners : told[l] <= IF fired THEN 1 ELSE 0

(* No late kill: a task that was told to stop, and whose guard was not torn *)
(* down, belongs to a turn in which the token fired; the fire of one turn   *)
(* never reaches the tasks of another.                                      *)
NoLateKill ==
    \A t \in Tasks :
        task[t] \in {"cancelling", "cancelled"} /\ t \notin torn => turn[t] \in firedTurns

(* What guard() leaves and says: when it has returned or raised, its task   *)
(* is over; and it raises as if its caller had been torn down only if that  *)
(* is so, or if a reset() has erased the fire that stopped it before it     *)
(* resumed.                                                                 *)
GuardOutcome ==
    \A g \in Guards :
        /\ guard[g] \in Raised \cup {"returned"} => task[g] \notin InProgress
        /\ guard[g] = "CancelledError" => g \in torn \/ generation > turn[g]

(* A fire always gets through: the guards of its turn end and those in      *)
(* wait() return, even if the token is re-armed meanwhile.                  *)
FireReleases ==
    /\ \A g \in Guards :
           fired /\ guard[g] = "awaiting" /\ turn[g] = generation
             ~> guard[g] \in Raised \cup {"returned"}
    /\ \A w \in Waiters :
           fired /\ waiter[w] \in {"waiting", "woken"} ~> waiter[w] \in {"told", "default"}

=============================================================================
