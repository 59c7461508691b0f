------------------------- MODULE SessionManagerProofs -------------------------
(***************************************************************************)
(* Proofs about SessionManager, for every set of sessions and of callers,  *)
(* any number of hooks, any ceiling and any timeouts.                      *)
(***************************************************************************)
EXTENDS SessionManager, DataLemmas

-----------------------------------------------------------------------------
(* The close lock.                                                         *)

InLine == {"waiting", "woken"}

\* The waiters of a close lock are the tasks that acquire() keeps waiting for
\* it, each once.
Queued ==
    \A s \in Ids :
        /\ \A t \in Tasks : t \in ToSet(waiters[s]) <=> task[t] \in InLine /\ target[t] = s
        /\ IsInjective(waiters[s])

\* A waiter that was woken is the first in line for a lock that is free.
WokenFirst ==
    \A t \in Tasks : task[t] = "woken" =>
        /\ lock[target[t]] = Nobody
        /\ waiters[target[t]] # <<>> /\ waiters[target[t]][1] = t

\* A session is CLOSING while its lock is held, by the task that runs its
\* hooks; nobody waits for the lock of a session that nobody closes.
Held ==
    \A s \in Ids :
        /\ \A t \in Tasks : lock[s] = t <=> task[t] = "unwinding" /\ target[t] = s
        /\ lock[s] # Nobody <=> state[s] = "closing"
        /\ waiters[s] # <<>> => state[s] \in {"closing", "closed"}

\* The hooks of a session are registered, or run, or still to be run.
Accounted ==
    \A s \in Ids :
        /\ \A i \in DOMAIN ran[s] : ran[s][i] = added[s] - i + 1
        /\ state[s] = "none" => added[s] = 0
        /\ state[s] \in {"none", "active"} => hooks[s] = added[s] /\ Len(ran[s]) = 0
        /\ state[s] = "closing" => /\ hooks[s] = 0 /\ todo[s] > 0
                                   /\ Len(ran[s]) = added[s] - todo[s]
        /\ state[s] = "closed" => hooks[s] = 0 /\ Len(ran[s]) = added[s]

Core == Queued /\ WokenFirst /\ Held /\ Accounted /\ ReturnedMeansClosed

\* While the server runs no child of the shutdown's gather exists and none of
\* a sweep's is cancelled; one sweep is over before the next begins, and no
\* session is swept twice; and an open session is in the registry or about to
\* be closed by the reaper.
Serving ==
    /\ lifespan \in {"serving", "stopping"} => \A s \in Ids : task[Stopping(s)] = "idle"
    /\ reaper \in {"sleeping", "done"} => \A s \in Ids : task[Reaping(s)] \notin InFlight
    /\ lifespan = "serving" =>
          /\ reaper \in {"sleeping", "gathering"}
          /\ \A s \in Ids : task[Reaping(s)] = "starting" => Reaping(s) \notin doomed
          /\ \A s \in Ids : state[s] = "active" =>
                              s \in registry \/ task[Reaping(s)] = "starting"
    /\ \A c \in Callers : task[c] # "starting"
    /\ \A s \in Ids : s \in registry \/ state[s] = "none" => task[Reaping(s)] = "idle"
    /\ \A s \in Ids : target[Reaping(s)] = s /\ target[Stopping(s)] = s

IInv == TypeOK /\ Core /\ Serving

-----------------------------------------------------------------------------
\* Who is woken, if anybody: the first in line, who was asleep.
LEMMA WokenIs ==
    ASSUME NEW St, "woken" \in St, NEW tk \in [Tasks -> St], NEW q \in Seq(Tasks), NEW gone
    PROVE  /\ Woken(tk, q, gone) \in [Tasks -> St]
           /\ \A u \in Tasks : \/ Woken(tk, q, gone)[u] = tk[u]
                               \/ /\ tk[u] = "waiting" /\ Woken(tk, q, gone)[u] = "woken"
                                  /\ q # <<>> /\ q[1] = u
BY DEF Woken

\* A step of t, which is inside aclose() of s or comes to it or leaves it.
\* Others may only be woken, the first in line while the lock is free; whoever
\* was woken before is first in line still, and t has the lock while it unwinds.
LockMoves(t, s) ==
    /\ \A r \in Ids \ {s} : /\ waiters'[r] = waiters[r] /\ lock'[r] = lock[r]
                            /\ state'[r] = state[r]
    /\ \A u \in Tasks \ {t} :
          \/ task'[u] = task[u]
          \/ /\ task[u] = "waiting" /\ task'[u] = "woken" /\ lock'[s] = Nobody
             /\ waiters'[s] # <<>> /\ waiters'[s][1] = u
    /\ task'[t] # "woken"
    /\ \A u \in Tasks : u \in ToSet(waiters'[s]) <=>
                          IF u = t THEN task'[t] = "waiting" ELSE u \in ToSet(waiters[s])
    /\ IsInjective(waiters'[s])
    /\ \A u \in Tasks \ {t} : task[u] = "woken" /\ target[u] = s =>
          /\ lock'[s] = Nobody
          /\ waiters'[s] # <<>> /\ waiters'[s][1] = u
    /\ IF task'[t] = "unwinding" THEN lock[s] \in {t, Nobody} /\ lock'[s] = t
       ELSE lock'[s] = IF lock[s] = t THEN Nobody ELSE lock[s]
    /\ lock'[s] # Nobody <=> state'[s] = "closing"
    /\ waiters'[s] # <<>> => state'[s] \in {"closing", "closed"}

LEMMA LockStep ==
    ASSUME TypeOK, Queued, WokenFirst, Held, waiters' \in [Ids -> Seq(Tasks)],
           NEW t \in Tasks, NEW s \in Ids, target[t] = s, target' = target,
           LockMoves(t, s)
    PROVE  Queued' /\ WokenFirst' /\ Held'
<1> USE DEF LockMoves
<1>t. Nobody \notin Tasks
  BY TasksAssumption
<1>0. \A u \in Tasks \ {t} : task'[u] # task[u] => target[u] = s
  <2>1. ASSUME NEW u \in Tasks \ {t}, task'[u] # task[u]
        PROVE  u \in ToSet(waiters'[s])
    BY <2>1 DEF ToSet
  <2>2. \A u \in Tasks \ {t} : u \in ToSet(waiters'[s]) => u \in ToSet(waiters[s])
    OBVIOUS
  <2>. QED  BY <2>1, <2>2 DEF Queued
<1>1. Queued'
  <2>1. ASSUME NEW r \in Ids, NEW u \in Tasks
        PROVE  u \in ToSet(waiters'[r]) <=> task'[u] \in InLine /\ target[u] = r
    <3>1. CASE r = s /\ u = t
      BY <3>1 DEF InLine
    <3>2. CASE r = s /\ u # t
      <4>1. u \in ToSet(waiters'[r]) <=> u \in ToSet(waiters[s])
        BY <3>2
      <4>2. task'[u] \in InLine <=> task[u] \in InLine
        BY <3>2 DEF InLine
      <4>. QED  BY <3>2, <4>1, <4>2 DEF Queued
    <3>3. CASE r # s
      <4>1. u = t => target[u] # r
        BY <3>3
      <4>2. u # t /\ target[u] = r => task'[u] = task[u]
        BY <3>3, <1>0
      <4>. QED  BY <3>3, <4>1, <4>2 DEF Queued
    <3>. QED  BY <3>1, <3>2, <3>3
  <2>2. \A r \in Ids : IsInjective(waiters'[r])
    BY DEF Queued
  <2>. QED  BY <2>1, <2>2 DEF Queued
<1>2. WokenFirst'
  <2>1. ASSUME NEW u \in Tasks, task'[u] = "woken"
        PROVE  /\ lock'[target[u]] = Nobody
               /\ waiters'[target[u]] # <<>> /\ waiters'[target[u]][1] = u
    <3>1. CASE task[u] # "woken"
      BY <2>1, <3>1, <1>0
    <3>2. CASE task[u] = "woken" /\ target[u] = s
      BY <2>1, <3>2
    <3>3. CASE task[u] = "woken" /\ target[u] # s
      <4>1. target[u] \in Ids \ {s}
        BY <3>3 DEF TypeOK
      <4>. QED  BY <3>3, <4>1 DEF WokenFirst
    <3>. QED  BY <3>1, <3>2, <3>3
  <2>. QED  BY <2>1 DEF WokenFirst
<1>3. Held'
  <2>1. ASSUME NEW r \in Ids, NEW u \in Tasks
        PROVE  lock'[r] = u <=> task'[u] = "unwinding" /\ target[u] = r
    <3>1. lock[r] = u <=> task[u] = "unwinding" /\ target[u] = r
      BY DEF Held
    <3>2. u # t => (task'[u] = "unwinding" <=> task[u] = "unwinding")
      OBVIOUS
    <3>3. CASE r # s
      BY <3>1, <3>2, <3>3
    <3>4. CASE r = s /\ u = t
      BY <3>1, <3>4, <1>t
    <3>5. CASE r = s /\ u # t
      <4>1. CASE task'[t] = "unwinding"
        BY <3>1, <3>2, <3>5, <4>1, <1>t
      <4>2. CASE task'[t] # "unwinding"
        BY <3>1, <3>2, <3>5, <4>2, <1>t
      <4>. QED  BY <4>1, <4>2
    <3>. QED  BY <3>3, <3>4, <3>5
  <2>2. ASSUME NEW r \in Ids
        PROVE  /\ lock'[r] # Nobody <=> state'[r] = "closing"
               /\ waiters'[r] # <<>> => state'[r] \in {"closing", "closed"}
    BY DEF Held
  <2>. QED  BY <2>1, <2>2 DEF Held
<1>. QED  BY <1>1, <1>2, <1>3

-----------------------------------------------------------------------------
(* The steps of aclose() keep the invariant of the close lock.             *)

Statuses == {"idle"} \cup InFlight \cup Ended

\* The part of the types that a step inside aclose() touches.
Types ==
    /\ state \in [Ids -> {"none", "active", "closing", "closed"}]
    /\ hooks \in [Ids -> 0 .. MaxHooks] /\ todo \in [Ids -> 0 .. MaxHooks]
    /\ lock \in [Ids -> Tasks \cup {Nobody}]
    /\ waiters \in [Ids -> Seq(Tasks)] /\ ran \in [Ids -> Seq(1 .. MaxHooks)]
    /\ task \in [Tasks -> Statuses]
    /\ target \in [Tasks -> Ids]
    /\ added \in [Ids -> 0 .. MaxHooks]

\* What such a step does to others: it may wake somebody and close s.
Touches(t, s) ==
    /\ \A u \in Tasks \ {t} : \/ task'[u] = task[u]
                              \/ task[u] = "waiting" /\ task'[u] = "woken"
    /\ \A r \in Ids : \/ state'[r] = state[r]
                      \/ r = s /\ state'[r] \in {"closing", "closed"}
    /\ \A r \in Ids : state[r] = "closed" => state'[r] = "closed"

\* Who has returned found the session closed, and a closed one stays so.
LEMMA ReturnedKeeps ==
    ASSUME Types, ReturnedMeansClosed, target' = target,
           NEW t \in Tasks, NEW s \in Ids, target[t] = s, Touches(t, s),
           task'[t] = "returned" => state'[s] = "closed"
    PROVE  ReturnedMeansClosed'
<1> SUFFICES ASSUME NEW u \in Tasks, task'[u] = "returned"
             PROVE  state'[target[u]] = "closed"
  BY DEF ReturnedMeansClosed
<1>1. CASE u = t
  BY <1>1
<1>2. CASE u # t
  <2>1. task[u] = "returned"
    BY <1>2 DEF Touches
  <2>2. target[u] \in Ids /\ state[target[u]] = "closed"
    BY <2>1 DEF ReturnedMeansClosed, Types
  <2>. QED  BY <2>2 DEF Touches
<1>. QED  BY <1>1, <1>2

\* t gets the lock, which is free: the session is closed at once, or its hooks
\* are there for t to run, all of them.
LEMMA EnteredKeeps ==
    ASSUME TypeOK, Core, NEW t \in Tasks, NEW s \in Ids, target[t] = s,
           NEW queue \in Seq(Tasks), task[t] \in {"idle", "starting", "woken"},
           lock[s] = Nobody, \A u \in Tasks \ {t} : target[u] = s => task[u] # "woken",
           ToSet(queue) = ToSet(waiters[s]) \ {t},
           IsInjective(queue),
           Entered(t, s, queue), UNCHANGED <<target, added>>
    PROVE  /\ Types' /\ Core' /\ Touches(t, s)
           /\ task'[t] \in {"unwinding", "returned"} /\ state'[s] \in {"closing", "closed"}
<1> USE DEF Core
<1>t. Types
  BY DEF TypeOK, Types, Statuses
<1>s. {"waiting", "woken", "unwinding", "returned"} \subseteq Statuses
  BY DEF Statuses, InFlight, Ended
<1>n. Nobody \notin Tasks
  BY TasksAssumption
<1>0. /\ waiters' = [waiters EXCEPT ![s] = queue]
      /\ state[s] # "closing"
  BY DEF Entered, Held
<1>1. CASE state[s] = "closed" \/ hooks[s] = 0
  <2> DEFINE tk == [task EXCEPT ![t] = "returned"]
  <2>1. /\ state' = [state EXCEPT ![s] = "closed"]
        /\ task' = Woken(tk, queue, doomed)
        /\ lock' = [lock EXCEPT ![s] = Nobody]
        /\ UNCHANGED <<hooks, todo, ran>>
    BY <1>1 DEF Entered
  <2>2. /\ tk \in [Tasks -> Statuses]
        /\ tk[t] = "returned" /\ \A u \in Tasks \ {t} : tk[u] = task[u]
    BY <1>t, <1>s DEF Types
  <2> HIDE DEF tk
  <2>3. /\ task' \in [Tasks -> Statuses]
        /\ \A u \in Tasks : \/ task'[u] = tk[u]
                            \/ /\ tk[u] = "waiting" /\ task'[u] = "woken"
                               /\ queue # <<>> /\ queue[1] = u
    BY <1>s, <2>1, <2>2, WokenIs
  <2>4. Types'
    BY <1>t, <1>0, <2>1, <2>3 DEF Types
  <2>5. task'[t] = "returned"
    BY <2>2, <2>3
  <2>6. Touches(t, s)
    BY <1>t, <2>1, <2>2, <2>3 DEF Touches, Types
  <2>7. state'[s] = "closed" /\ lock'[s] = Nobody /\ waiters'[s] = queue
        /\ \A r \in Ids \ {s} : /\ waiters'[r] = waiters[r] /\ lock'[r] = lock[r]
                                /\ state'[r] = state[r]
    BY <1>t, <1>0, <2>1 DEF Types
  <2>8. Queued' /\ WokenFirst' /\ Held'
    <3>1. \A u \in Tasks : u \in ToSet(waiters'[s]) <=>
                             IF u = t THEN task'[t] = "waiting" ELSE u \in ToSet(waiters[s])
      BY <2>5, <2>7
    <3>2. LockMoves(t, s)
      BY <1>n, <2>2, <2>3, <2>5, <2>7, <3>1 DEF LockMoves
    <3>3. waiters' \in [Ids -> Seq(Tasks)]
      BY <2>4 DEF Types
    <3>. QED  BY <3>2, <3>3, LockStep
  <2>9. Accounted'
    BY <1>t, <1>0, <1>1, <2>1 DEF Accounted, Types
  <2>10. ReturnedMeansClosed'
    BY <1>t, <2>6, <2>7, ReturnedKeeps
  <2>. QED  BY <2>4, <2>5, <2>6, <2>7, <2>8, <2>9, <2>10
<1>2. CASE ~(state[s] = "closed" \/ hooks[s] = 0)
  <2>1. /\ state' = [state EXCEPT ![s] = "closing"]
        /\ todo' = [todo EXCEPT ![s] = hooks[s]]
        /\ hooks' = [hooks EXCEPT ![s] = 0]
        /\ lock' = [lock EXCEPT ![s] = t]
        /\ task' = [task EXCEPT ![t] = "unwinding"]
        /\ UNCHANGED ran
    BY <1>2 DEF Entered
  <2>4. Types'
    <3>1. task' \in [Tasks -> Statuses]
      BY <1>t, <1>s, <2>1 DEF Types
    <3>. QED  BY <1>t, <1>0, <2>1, <3>1, MaxHooksAssumption DEF Types
  <2>5. task'[t] = "unwinding" /\ \A u \in Tasks \ {t} : task'[u] = task[u]
    BY <1>t, <2>1 DEF Types
  <2>6. Touches(t, s)
    BY <1>t, <1>2, <2>1, <2>5 DEF Touches, Types
  <2>7. state'[s] = "closing" /\ lock'[s] = t /\ waiters'[s] = queue
        /\ \A r \in Ids \ {s} : /\ waiters'[r] = waiters[r] /\ lock'[r] = lock[r]
                                /\ state'[r] = state[r]
    BY <1>t, <1>0, <2>1 DEF Types
  <2>8. Queued' /\ WokenFirst' /\ Held'
    <3>1. \A u \in Tasks : u \in ToSet(waiters'[s]) <=>
                             IF u = t THEN task'[t] = "waiting" ELSE u \in ToSet(waiters[s])
      BY <2>5, <2>7
    <3>2. LockMoves(t, s)
      BY <1>n, <2>5, <2>7, <3>1 DEF LockMoves
    <3>3. waiters' \in [Ids -> Seq(Tasks)]
      BY <2>4 DEF Types
    <3>. QED  BY <3>2, <3>3, LockStep
  <2>9. Accounted'
    BY <1>t, <1>0, <1>2, <2>1 DEF Accounted, Types
  <2>10. ReturnedMeansClosed'
    BY <1>t, <2>5, <2>6, ReturnedKeeps
  <2>. QED  BY <2>4, <2>5, <2>6, <2>7, <2>8, <2>9, <2>10
<1>. QED  BY <1>1, <1>2

\* `async with` at the close lock: t gets it or joins the end of the line.
LEMMA BeginsKeeps ==
    ASSUME TypeOK, Core, NEW t \in Tasks, NEW s \in Ids, target[t] = s,
           task[t] \in {"idle", "starting"}, Begins(t, s), UNCHANGED <<target, added>>
    PROVE  /\ Types' /\ Core' /\ Touches(t, s)
           /\ task'[t] \in {"waiting", "unwinding", "returned"}
           /\ state'[s] \in {"closing", "closed"}
<1> USE DEF Core
<1>t. Types
  BY DEF TypeOK, Types, Statuses
<1>q. /\ waiters[s] \in Seq(Tasks) /\ t \notin ToSet(waiters[s])
      /\ IsInjective(waiters[s])
  <2>1. waiters[s] \in Seq(Tasks)
    BY <1>t DEF Types
  <2>2. t \notin ToSet(waiters[s])
    BY DEF Queued, InLine
  <2>. QED  BY <2>1, <2>2 DEF Queued
<1>1. CASE Free(s)
  <2>1. lock[s] = Nobody /\ Entered(t, s, waiters[s])
    BY <1>1 DEF Begins, Free
  <2>2. ASSUME NEW u \in Tasks, target[u] = s
        PROVE  task[u] # "woken"
    <3>1. u \in ToSet(waiters[s]) => task[u] = "waiting"
      BY <1>1 DEF Free, ToSet
    <3>. QED  BY <2>2, <3>1 DEF Queued, InLine
  <2>3. ToSet(waiters[s]) = ToSet(waiters[s]) \ {t}
    BY <1>q
  <2>. QED  BY <1>q, <2>1, <2>2, <2>3, EnteredKeeps
<1>2. CASE ~Free(s)
  <2>1. /\ waiters' = [waiters EXCEPT ![s] = Append(@, t)]
        /\ task' = [task EXCEPT ![t] = "waiting"]
        /\ UNCHANGED <<state, hooks, todo, ran, lock>>
    BY <1>2 DEF Begins, sessionVars
  <2>2. waiters'[s] = Append(waiters[s], t) /\ task'[t] = "waiting"
        /\ \A u \in Tasks \ {t} : task'[u] = task[u]
        /\ \A r \in Ids \ {s} : waiters'[r] = waiters[r]
    BY <1>t, <2>1 DEF Types
  <2>3. Types'
    <3>1. task' \in [Tasks -> Statuses]
      BY <1>t, <2>1 DEF Types, Statuses, InFlight
    <3>2. waiters' \in [Ids -> Seq(Tasks)]
      BY <1>t, <1>q, <2>1 DEF Types
    <3>. QED  BY <1>t, <2>1, <3>1, <3>2 DEF Types
  <2>4. /\ ToSet(waiters'[s]) = ToSet(waiters[s]) \cup {t}
        /\ IsInjective(waiters'[s])
        /\ waiters'[s] # <<>>
        /\ waiters[s] # <<>> => waiters'[s][1] = waiters[s][1]
    <3>1. ASSUME NEW r, r = Append(waiters[s], t)
          PROVE  /\ ToSet(r) = ToSet(waiters[s]) \cup {t}
                 /\ IsInjective(r)
                 /\ r # <<>>
                 /\ waiters[s] # <<>> => r[1] = waiters[s][1]
      <4> DEFINE q == waiters[s]
      <4>0. q \in Seq(Tasks) /\ t \notin ToSet(q) /\ IsInjective(q) /\ r = Append(q, t)
        BY <1>q, <3>1
      <4> HIDE DEF q
      <4>1. ToSet(r) = ToSet(q) \cup {t} /\ IsInjective(r)
        BY <4>0, JoinLine
      <4>3. r # <<>> /\ (waiters[s] # <<>> => r[1] = waiters[s][1])
        BY <1>q, <3>1
      <4>. QED  BY <4>1, <4>3 DEF q
    <3>2. waiters'[s] = Append(waiters[s], t)
      BY <2>2
    <3>. QED  BY <3>1, <3>2 DEF ToSet
  <2>5. state[s] \in {"closing", "closed"}
    <3>1. lock[s] # Nobody \/ waiters[s] # <<>>
      BY <1>2 DEF Free
    <3>. QED  BY <3>1 DEF Held
  <2>6. \A u \in Tasks \ {t} : task[u] = "woken" /\ target[u] = s =>
              /\ lock'[s] = Nobody
              /\ waiters'[s] # <<>> /\ waiters'[s][1] = u
    BY <2>1, <2>4 DEF WokenFirst
  <2>7. IF task'[t] = "unwinding" THEN lock[s] \in {t, Nobody} /\ lock'[s] = t
        ELSE lock'[s] = IF lock[s] = t THEN Nobody ELSE lock[s]
    BY <2>1, <2>2 DEF Held
  <2>8. /\ lock'[s] # Nobody <=> state'[s] = "closing"
        /\ state'[s] \in {"closing", "closed"}
    BY <2>1, <2>5 DEF Held
  <2>9. Queued' /\ WokenFirst' /\ Held'
    <3>1. \A u \in Tasks : u \in ToSet(waiters'[s]) <=>
                             IF u = t THEN task'[t] = "waiting" ELSE u \in ToSet(waiters[s])
      BY <2>2, <2>4
    <3>0. \A r \in Ids \ {s} : waiters'[r] = waiters[r] /\ lock'[r] = lock[r] /\ state'[r] = state[r]
      BY <2>1, <2>2
    <3>2. LockMoves(t, s)
      BY <2>2, <2>4, <2>6, <2>7, <2>8, <3>0, <3>1 DEF LockMoves
    <3>3. waiters' \in [Ids -> Seq(Tasks)]
      BY <2>3 DEF Types
    <3>. QED  BY <3>2, <3>3, LockStep
  <2>10. Touches(t, s)
    BY <2>1, <2>2 DEF Touches
  <2>11. Accounted'
    BY <2>1 DEF Accounted
  <2>12. ReturnedMeansClosed'
    BY <1>t, <2>2, <2>10, ReturnedKeeps
  <2>. QED  BY <2>2, <2>3, <2>8, <2>9, <2>10, <2>11, <2>12
<1>. QED  BY <1>1, <1>2

\* A waiter that was woken has the lock to itself.
LEMMA LockAcquiredKeeps ==
    ASSUME TypeOK, Core, NEW t \in Tasks, NEW s \in Ids, target[t] = s, LockAcquired(t)
    PROVE  /\ Types' /\ Core' /\ Touches(t, s)
           /\ task'[t] \in {"unwinding", "returned"} /\ state'[s] \in {"closing", "closed"}
<1>1. /\ task[t] = "woken" /\ Entered(t, s, RemoveFirst(waiters[s], t))
      /\ UNCHANGED <<target, added>>
  BY DEF LockAcquired
<1>2. waiters[s] \in Seq(Tasks) /\ lock[s] = Nobody /\ waiters[s][1] = t
      /\ IsInjective(waiters[s])
  BY <1>1 DEF TypeOK, Core, WokenFirst, Queued
<1>3. \A u \in Tasks \ {t} : target[u] = s => task[u] # "woken"
  BY <1>2 DEF Core, WokenFirst
<1>4. ASSUME NEW queue, queue = RemoveFirst(waiters[s], t)
      PROVE  /\ queue \in Seq(Tasks) /\ ToSet(queue) = ToSet(waiters[s]) \ {t}
             /\ IsInjective(queue)
  BY <1>2, <1>4, LeaveLine
<1>5. ASSUME NEW queue, queue = RemoveFirst(waiters[s], t)
      PROVE  /\ Types' /\ Core' /\ Touches(t, s)
             /\ task'[t] \in {"unwinding", "returned"} /\ state'[s] \in {"closing", "closed"}
  BY <1>1, <1>2, <1>3, <1>4, <1>5, EnteredKeeps
<1>. QED  BY <1>5

\* A hook is over; after the last one the session is closed.
LEMMA UnwindsKeeps ==
    ASSUME TypeOK, Core, NEW t \in Tasks, NEW s \in Ids, target[t] = s,
           task[t] = "unwinding", Unwinds(t)
    PROVE  /\ Types' /\ Core' /\ Touches(t, s)
           /\ task'[t] \in {"unwinding", "returned"} /\ state'[s] \in {"closing", "closed"}
<1> USE DEF Core
<1>t. Types
  BY DEF TypeOK, Types, Statuses
<1>n. Nobody \notin Tasks
  BY TasksAssumption
<1>0. /\ ran' = [ran EXCEPT ![s] = Append(@, todo[s])]
      /\ todo' = [todo EXCEPT ![s] = @ - 1]
      /\ UNCHANGED <<hooks, waiters, target, added>>
  BY DEF Unwinds
<1>1. /\ lock[s] = t /\ state[s] = "closing" /\ hooks[s] = 0
      /\ todo[s] \in 1 .. MaxHooks /\ Len(ran[s]) = added[s] - todo[s]
      /\ added[s] \in Nat /\ ran[s] \in Seq(1 .. MaxHooks)
  <2>1. todo[s] \in 0 .. MaxHooks /\ added[s] \in 0 .. MaxHooks /\ ran[s] \in Seq(1 .. MaxHooks)
    BY <1>t DEF Types
  <2>2. lock[s] = t /\ state[s] = "closing"
    BY <1>n DEF Held
  <2>. QED  BY <2>1, <2>2, MaxHooksAssumption DEF Accounted
<1>2. /\ Len(ran'[s]) = added[s] - todo'[s] /\ todo'[s] = todo[s] - 1
      /\ \A i \in DOMAIN ran'[s] : ran'[s][i] = added[s] - i + 1
      /\ ran' \in [Ids -> Seq(1 .. MaxHooks)] /\ todo' \in [Ids -> 0 .. MaxHooks]
      /\ \A r \in Ids \ {s} : ran'[r] = ran[r] /\ todo'[r] = todo[r]
  <2>1. ran'[s] = Append(ran[s], todo[s]) /\ todo'[s] = todo[s] - 1
        /\ \A r \in Ids \ {s} : ran'[r] = ran[r] /\ todo'[r] = todo[r]
    BY <1>t, <1>0 DEF Types
  <2>2. Len(ran'[s]) = Len(ran[s]) + 1
    BY <1>1, <2>1
  <2>3. ASSUME NEW i \in DOMAIN ran'[s]
        PROVE  ran'[s][i] = added[s] - i + 1
    <3>1. i \in 1 .. Len(ran[s]) + 1
      BY <1>1, <2>1, <2>3
    <3>2. CASE i = Len(ran[s]) + 1
      <4>1. ran'[s][i] = todo[s]
        BY <1>1, <2>1, <3>2
      <4>. QED  BY <1>1, <3>2, <4>1
    <3>3. CASE i \in 1 .. Len(ran[s])
      <4>1. ran'[s][i] = ran[s][i] /\ i \in DOMAIN ran[s]
        BY <1>1, <2>1, <3>3
      <4>. QED  BY <4>1 DEF Accounted
    <3>. QED  BY <1>1, <3>1, <3>2, <3>3
  <2>4. ran' \in [Ids -> Seq(1 .. MaxHooks)]
    <3>1. Append(ran[s], todo[s]) \in Seq(1 .. MaxHooks)
      BY <1>1
    <3>. QED  BY <1>t, <1>0, <3>1 DEF Types
  <2>5. todo' \in [Ids -> 0 .. MaxHooks]
    <3>1. todo[s] - 1 \in 0 .. MaxHooks
      BY <1>1, MaxHooksAssumption
    <3>. QED  BY <1>t, <1>0, <3>1 DEF Types
  <2>. QED  BY <1>1, <2>1, <2>2, <2>3, <2>4, <2>5
<1>3. CASE todo[s] > 1
  <2>1. UNCHANGED <<state, task, lock>>
    BY <1>3 DEF Unwinds
  <2>2. Types'
    <3>1. /\ state' = state /\ task' = task /\ lock' = lock
          /\ ran' \in [Ids -> Seq(1 .. MaxHooks)] /\ todo' \in [Ids -> 0 .. MaxHooks]
      BY <1>2, <2>1
    <3>. QED  BY <1>t, <1>0, <3>1 DEF Types
  <2>3. Queued' /\ WokenFirst' /\ Held' /\ ReturnedMeansClosed'
    BY <1>0, <2>1 DEF Queued, WokenFirst, Held, ReturnedMeansClosed
  <2>4. Accounted'
    <3>1. todo'[s] > 0
      BY <1>1, <1>2, <1>3
    <3>. QED  BY <1>0, <1>1, <1>2, <2>1, <3>1 DEF Accounted
  <2>5. Touches(t, s)
    BY <2>1 DEF Touches
  <2>. QED  BY <1>1, <2>1, <2>2, <2>3, <2>4, <2>5
<1>4. CASE ~(todo[s] > 1)
  <2> DEFINE tk == [task EXCEPT ![t] = "returned"]
  <2>1. /\ state' = [state EXCEPT ![s] = "closed"]
        /\ task' = Woken(tk, waiters[s], doomed \ {t})
        /\ lock' = [lock EXCEPT ![s] = Nobody]
    BY <1>4 DEF Unwinds
  <2>0. "woken" \in Statuses /\ "returned" \in Statuses /\ waiters[s] \in Seq(Tasks)
    BY <1>t DEF Statuses, InFlight, Ended, Types
  <2>2. /\ tk \in [Tasks -> Statuses]
        /\ tk[t] = "returned" /\ \A u \in Tasks \ {t} : tk[u] = task[u]
    BY <1>t, <2>0 DEF Types
  <2> HIDE DEF tk
  <2>3. /\ task' \in [Tasks -> Statuses]
        /\ \A u \in Tasks : \/ task'[u] = tk[u]
                            \/ /\ tk[u] = "waiting" /\ task'[u] = "woken"
                               /\ waiters[s] # <<>> /\ waiters[s][1] = u
    BY <2>0, <2>1, <2>2, WokenIs
  <2>4. Types'
    BY <1>t, <1>0, <1>2, <2>1, <2>3 DEF Types
  <2>5. task'[t] = "returned"
    BY <2>2, <2>3
  <2>7. state'[s] = "closed" /\ lock'[s] = Nobody /\ waiters'[s] = waiters[s]
        /\ \A r \in Ids \ {s} : /\ waiters'[r] = waiters[r] /\ lock'[r] = lock[r]
                                /\ state'[r] = state[r]
    BY <1>t, <1>0, <2>1 DEF Types
  <2>6. Touches(t, s)
    BY <2>2, <2>3, <2>7 DEF Touches
  <2>8. Queued' /\ WokenFirst' /\ Held'
    <3>1. \A u \in Tasks : u \in ToSet(waiters'[s]) <=>
                             IF u = t THEN task'[t] = "waiting" ELSE u \in ToSet(waiters[s])
      BY <2>5, <2>7 DEF Queued, InLine
    <3>2. \A u \in Tasks \ {t} : task[u] = "woken" => target[u] # s
      BY <1>n, <1>1 DEF WokenFirst
    <3>3. IsInjective(waiters'[s])
      BY <2>7 DEF Queued
    <3>4. LockMoves(t, s)
      BY <1>n, <1>1, <2>2, <2>3, <2>5, <2>7, <3>1, <3>2, <3>3 DEF LockMoves
    <3>5. waiters' \in [Ids -> Seq(Tasks)]
      BY <2>4 DEF Types
    <3>. QED  BY <1>0, <3>4, <3>5, LockStep
  <2>9. Accounted'
    <3>1. todo'[s] = 0 /\ Len(ran'[s]) = added[s]
      BY <1>1, <1>2, <1>4
    <3>2. hooks'[s] = 0 /\ added'[s] = added[s]
      BY <1>0, <1>1
    <3>3. ASSUME NEW r \in Ids \ {s}
          PROVE  UNCHANGED <<state[r], hooks[r], todo[r], ran[r], added[r]>>
      BY <1>0, <1>2, <2>7
    <3>4. \A i \in DOMAIN ran'[s] : ran'[s][i] = added'[s] - i + 1
      BY <1>2, <3>2
    <3>5. \A r \in Ids \ {s} : \A i \in DOMAIN ran[r] : ran[r][i] = added[r] - i + 1
      BY DEF Accounted
    <3>. QED  BY <2>7, <3>1, <3>2, <3>3, <3>4, <3>5 DEF Accounted
  <2>10. ReturnedMeansClosed'
    BY <1>t, <1>0, <2>6, <2>7, ReturnedKeeps
  <2>. QED  BY <2>4, <2>5, <2>6, <2>7, <2>8, <2>9, <2>10
<1>. QED  BY <1>3, <1>4

\* A waiter is cancelled: it leaves the line and hands the wakeup on.
LEMMA WaitAbandonedKeeps ==
    ASSUME TypeOK, Core, NEW t \in Tasks, NEW s \in Ids, target[t] = s, WaitAbandoned(t)
    PROVE  Types' /\ Core' /\ Touches(t, s) /\ task'[t] = "cancelled"
<1> USE DEF Core
<1>t. Types
  BY DEF TypeOK, Types, Statuses
<1>n. Nobody \notin Tasks
  BY TasksAssumption
<1> DEFINE queue == RemoveFirst(waiters[s], t)
           tk == [task EXCEPT ![t] = "cancelled"]
<1>0. /\ task[t] \in {"waiting", "woken"}
      /\ waiters' = [waiters EXCEPT ![s] = queue]
      /\ task' = IF lock[s] = Nobody THEN Woken(tk, queue, doomed) ELSE tk
      /\ UNCHANGED <<state, hooks, todo, ran, lock, target, added>>
  BY DEF WaitAbandoned, sessionVars
<1>1. /\ queue \in Seq(Tasks)
      /\ ToSet(queue) = ToSet(waiters[s]) \ {t}
      /\ IsInjective(queue)
      /\ waiters[s] # <<>> /\ waiters[s][1] # t => queue # <<>> /\ queue[1] = waiters[s][1]
  <2>1. waiters[s] \in Seq(Tasks)
        /\ IsInjective(waiters[s])
    BY <1>t DEF Types, Queued
  <2> HIDE DEF queue
  <2>2. queue = RemoveFirst(waiters[s], t)
    BY DEF queue
  <2>. QED  BY <2>1, <2>2, LeaveLine
<1>2. /\ tk \in [Tasks -> Statuses]
      /\ tk[t] = "cancelled" /\ \A u \in Tasks \ {t} : tk[u] = task[u]
  BY <1>t DEF Types, Statuses, Ended
<1> HIDE DEF queue, tk
<1>w. "woken" \in Statuses
  BY DEF Statuses, InFlight
<1>3. /\ task' \in [Tasks -> Statuses]
      /\ \A u \in Tasks : \/ task'[u] = tk[u]
                          \/ /\ tk[u] = "waiting" /\ task'[u] = "woken"
                             /\ queue # <<>> /\ queue[1] = u /\ lock[s] = Nobody
  <2>1. CASE lock[s] = Nobody
    BY <1>0, <1>1, <1>2, <1>w, <2>1, WokenIs
  <2>2. CASE lock[s] # Nobody
    BY <1>0, <1>2, <2>2
  <2>. QED  BY <2>1, <2>2
<1>4. Types'
  BY <1>t, <1>0, <1>1, <1>3 DEF Types
<1>5. task'[t] = "cancelled"
  BY <1>2, <1>3
<1>6. Touches(t, s)
  BY <1>t, <1>0, <1>2, <1>3 DEF Touches, Types
<1>7. waiters'[s] = queue /\ \A r \in Ids \ {s} : waiters'[r] = waiters[r]
  BY <1>t, <1>0 DEF Types
<1>8. Queued' /\ WokenFirst' /\ Held'
  <2>1. \A u \in Tasks : u \in ToSet(waiters'[s]) <=>
                           IF u = t THEN task'[t] = "waiting" ELSE u \in ToSet(waiters[s])
    BY <1>1, <1>5, <1>7
  <2>2. ASSUME NEW u \in Tasks \ {t}, task[u] = "woken" /\ target[u] = s
        PROVE  /\ lock'[s] = Nobody
               /\ waiters'[s] # <<>> /\ waiters'[s][1] = u
    BY <1>0, <1>1, <1>7, <2>2 DEF WokenFirst
  <2>3. lock[s] # t
    BY <1>0 DEF Held
  <2>4. waiters'[s] # <<>> => state'[s] \in {"closing", "closed"}
    <3>1. queue # <<>> => waiters[s] # <<>>
      BY <1>1 DEF ToSet
    <3>. QED  BY <1>0, <1>7, <3>1 DEF Held
  <2>5. lock'[s] # Nobody <=> state'[s] = "closing"
    BY <1>0 DEF Held
  <2>6. LockMoves(t, s)
    BY <1>0, <1>1, <1>2, <1>3, <1>5, <1>7, <2>1, <2>2, <2>3, <2>4, <2>5 DEF LockMoves
  <2>7. waiters' \in [Ids -> Seq(Tasks)]
    BY <1>4 DEF Types
  <2>. QED  BY <1>0, <2>6, <2>7, LockStep
<1>9. Accounted'
  BY <1>0 DEF Accounted
<1>10. ReturnedMeansClosed'
  BY <1>t, <1>0, <1>5, <1>6, ReturnedKeeps
<1>. QED  BY <1>4, <1>5, <1>6, <1>8, <1>9, <1>10

\* Tasks that are created, or end, without coming to a close lock.
Outside == {"idle", "starting", "refused", "dropped"}

LEMMA QuietKeeps ==
    ASSUME TypeOK, Core, UNCHANGED <<state, hooks, todo, ran, lock, waiters, target, added>>,
           task' \in [Tasks -> Statuses],
           \A u \in Tasks : task'[u] = task[u] \/ (task[u] \in Outside /\ task'[u] \in Outside)
    PROVE  Types' /\ Core'
<1> USE DEF Core, Outside
<1>1. Types'
  BY DEF TypeOK, Types, Statuses
<1>2. \A u \in Tasks : /\ task'[u] \in InLine <=> task[u] \in InLine
                       /\ task'[u] = "woken" <=> task[u] = "woken"
                       /\ task'[u] = "unwinding" <=> task[u] = "unwinding"
                       /\ task'[u] = "returned" <=> task[u] = "returned"
  BY DEF InLine
<1>3. Queued'
  BY <1>2 DEF Queued
<1>4. WokenFirst' /\ Held' /\ ReturnedMeansClosed'
  BY <1>2 DEF WokenFirst, Held, ReturnedMeansClosed
<1>5. Accounted'
  BY DEF Accounted
<1>. QED  BY <1>1, <1>3, <1>4, <1>5

-----------------------------------------------------------------------------
(* Every step keeps the invariant.                                         *)

\* The rest of the types.
Rest ==
    /\ registry \subseteq {s \in Ids : state[s] # "none"}
    /\ closed \in BOOLEAN
    /\ doomed \subseteq {t \in Tasks : task[t] \in InFlight}
    /\ reaper \in {"sleeping", "gathering", "cancelling", "done"}
    /\ lifespan \in {"serving", "stopping", "closing", "stopped"}
    /\ idle \in [Ids -> 0 .. IdleTimeout] /\ age \in [Ids -> 0 .. MaxDuration]

LEMMA TypesAndRest == TypeOK <=> Types /\ Rest
BY DEF TypeOK, Types, Rest, Statuses

LEMMA TypesAndRestNext == TypeOK' <=> Types' /\ Rest'
BY DEF TypeOK, Types, Rest, Statuses

\* Who is who among the tasks.
LEMMA TaskNames ==
    /\ \A s \in Ids : Reaping(s) \in Tasks /\ Stopping(s) \in Tasks
    /\ \A c \in Callers, s \in Ids : c \in Tasks /\ c # Reaping(s) /\ c # Stopping(s)
    /\ \A r, s \in Ids : /\ Reaping(r) # Stopping(s)
                         /\ Reaping(r) = Reaping(s) => r = s
                         /\ Stopping(r) = Stopping(s) => r = s
BY TasksAssumption DEF Tasks, Children, Reaping, Stopping

\* A step of a task inside aclose(), or of a caller that comes to it.
LEMMA AcloseStep ==
    ASSUME IInv, NEW t \in Tasks, NEW s \in Ids, target[t] = s,
           Types', Core', Touches(t, s), UNCHANGED <<closed, reaper, lifespan, idle, age, target>>,
           registry' \in {registry, registry \ {s}},
           task[t] \in InFlight \/ t \in Callers,
           task'[t] \in {"waiting", "unwinding", "returned", "cancelled"},
           doomed' \in {doomed, doomed \ {t}}, t \in doomed' => task'[t] \in InFlight,
           state'[s] \in {"closing", "closed"}
    PROVE  IInv'
<1> USE DEF IInv
<1>t. Types /\ Rest
  BY TypesAndRest
<1>1. Rest'
  <2>1. registry' \subseteq {r \in Ids : state'[r] # "none"}
    BY <1>t DEF Rest, Touches
  <2>2. doomed' \subseteq {u \in Tasks : task'[u] \in InFlight}
    BY <1>t DEF Rest, Touches, InFlight
  <2>. QED  BY <1>t, <2>1, <2>2 DEF Rest
<1>2. Serving'
  <2>1. ASSUME NEW r \in Ids
        PROVE  lifespan \in {"serving", "stopping"} => task'[Stopping(r)] = "idle"
    BY TaskNames DEF Serving, Touches, InFlight
  <2>2. ASSUME NEW r \in Ids, Reaping(r) # t
        PROVE  \/ task'[Reaping(r)] = task[Reaping(r)]
               \/ task[Reaping(r)] = "waiting" /\ task'[Reaping(r)] = "woken"
    <3>1. Reaping(r) \in Tasks \ {t}
      BY <2>2, TaskNames
    <3>. QED  BY <3>1 DEF Touches
  <2>3. ASSUME NEW r \in Ids
        PROVE  reaper \in {"sleeping", "done"} => task'[Reaping(r)] \notin InFlight
    BY <2>2, TaskNames DEF Serving, InFlight
  <2>4. ASSUME NEW r \in Ids, lifespan = "serving", task'[Reaping(r)] = "starting"
        PROVE  Reaping(r) \notin doomed'
    BY <2>2, <2>4 DEF Serving
  <2>5. ASSUME NEW r \in Ids, lifespan = "serving", state'[r] = "active"
        PROVE  r \in registry' \/ task'[Reaping(r)] = "starting"
    <3>1. r # s /\ state[r] = "active"
      BY <2>5 DEF Touches
    <3>2. Reaping(r) # t
      BY <3>1 DEF Serving
    <3>. QED  BY <2>2, <2>5, <3>1, <3>2 DEF Serving
  <2>6. \A c \in Callers : task'[c] # "starting"
    BY TaskNames DEF Serving, Touches
  <2>7. ASSUME NEW r \in Ids, r \in registry' \/ state'[r] = "none"
        PROVE  task'[Reaping(r)] = "idle"
    <3>1. r \in registry \/ state[r] = "none"
      BY <2>7 DEF Touches
    <3>2. task[Reaping(r)] = "idle"
      BY <3>1 DEF Serving
    <3>3. Reaping(r) # t
      BY <3>2, TaskNames DEF InFlight
    <3>. QED  BY <2>2, <3>2, <3>3
  <2>. QED  BY <2>1, <2>3, <2>4, <2>5, <2>6, <2>7 DEF Serving
<1>. QED  BY <1>1, <1>2, TypesAndRestNext

\* A task takes a step.
LEMMA TaskStepKeeps ==
    ASSUME IInv, NEW t \in Tasks, TaskStep(t)
    PROVE  IInv'
<1> USE DEF IInv
<1> DEFINE s == target[t]
<1>0. s \in Ids
  BY DEF TypeOK
<1> HIDE DEF s
<1>s. target[t] = s
  BY DEF s
<1>1. CASE ChildStarts(t)
  <2>1. /\ task[t] = "starting" /\ t \notin doomed /\ Begins(t, s)
        /\ UNCHANGED <<registry, closed, reaper, lifespan, idle, age, target, doomed, added>>
    BY <1>1, <1>s DEF ChildStarts, registryVars, clockVars
  <2>2. /\ Types' /\ Core' /\ Touches(t, s)
        /\ task'[t] \in {"waiting", "unwinding", "returned"}
        /\ state'[s] \in {"closing", "closed"}
    BY <1>0, <1>s, <2>1, BeginsKeeps
  <2>. QED  BY <1>0, <1>s, <2>1, <2>2, AcloseStep DEF InFlight
<1>2. CASE LockAcquired(t)
  <2>1. /\ task[t] = "woken" /\ t \notin doomed
        /\ UNCHANGED <<registry, closed, reaper, lifespan, idle, age, target, doomed>>
    BY <1>2 DEF LockAcquired, registryVars, clockVars
  <2>2. /\ Types' /\ Core' /\ Touches(t, s)
        /\ task'[t] \in {"unwinding", "returned"} /\ state'[s] \in {"closing", "closed"}
    BY <1>0, <1>2, <1>s, LockAcquiredKeeps
  <2>. QED  BY <1>0, <1>s, <2>1, <2>2, AcloseStep DEF InFlight
<1>3. CASE HookEnds(t) \/ HookCutShort(t)
  <2>1. task[t] = "unwinding" /\ Unwinds(t)
    BY <1>3 DEF HookEnds, HookCutShort
  <2>2. /\ doomed' = doomed \ {t}
        /\ UNCHANGED <<registry, closed, reaper, lifespan, idle, age, target>>
    BY <2>1 DEF Unwinds, registryVars, clockVars
  <2>3. /\ Types' /\ Core' /\ Touches(t, s)
        /\ task'[t] \in {"unwinding", "returned"} /\ state'[s] \in {"closing", "closed"}
    BY <1>0, <1>s, <2>1, UnwindsKeeps
  <2>. QED  BY <1>0, <1>s, <2>1, <2>2, <2>3, AcloseStep DEF InFlight
<1>4. CASE WaitAbandoned(t)
  <2>1. /\ task[t] \in {"waiting", "woken"} /\ doomed' = doomed \ {t}
        /\ UNCHANGED <<registry, closed, reaper, lifespan, idle, age, target, state>>
    BY <1>4 DEF WaitAbandoned, registryVars, sessionVars, clockVars
  <2>2. Types' /\ Core' /\ Touches(t, s) /\ task'[t] = "cancelled"
    BY <1>0, <1>4, <1>s, WaitAbandonedKeeps
  <2>3. state'[s] \in {"closing", "closed"}
    <3>1. t \in ToSet(waiters[s])
      BY <1>0, <1>s, <2>1 DEF Core, Queued, InLine
    <3>2. waiters[s] # <<>>
      BY <3>1 DEF ToSet
    <3>. QED  BY <1>0, <2>1, <3>2 DEF Core, Held
  <2>. QED  BY <1>0, <1>s, <2>1, <2>2, <2>3, AcloseStep DEF InFlight
<1>5. CASE NeverStarted(t)
  <2>1. /\ task[t] = "starting" /\ t \in doomed /\ doomed' = doomed \ {t}
        /\ task' = [task EXCEPT ![t] = "dropped"]
        /\ UNCHANGED <<registry, closed, reaper, lifespan, idle, age, target, added>>
        /\ UNCHANGED <<state, hooks, todo, ran, lock, waiters>>
    BY <1>5 DEF NeverStarted, registryVars, sessionVars, clockVars
  <2>t. Types /\ Rest
    BY TypesAndRest
  <2>2. task' \in [Tasks -> Statuses]
        /\ task'[t] = "dropped" /\ \A u \in Tasks \ {t} : task'[u] = task[u]
    BY <2>1, <2>t DEF Types, Statuses, Ended
  <2>3. Types' /\ Core'
    <3>1. UNCHANGED <<state, hooks, todo, ran, lock, waiters, target, added>>
      BY <2>1
    <3>2. \A u \in Tasks : task'[u] = task[u] \/ (task[u] \in Outside /\ task'[u] \in Outside)
      BY <2>1, <2>2 DEF Outside
    <3>. QED  BY <2>2, <3>1, <3>2, QuietKeeps
  <2>4. Rest'
    BY <2>1, <2>2, <2>t DEF Rest
  <2>5. Serving'
    <3>1. lifespan # "serving" \/ \A r \in Ids : t # Reaping(r)
      BY <2>1 DEF Serving
    <3>2. \A r \in Ids : task'[Reaping(r)] = task[Reaping(r)] \/ Reaping(r) = t
      BY <2>2, TaskNames
    <3>3. \A r \in Ids : lifespan \in {"serving", "stopping"} => task'[Stopping(r)] = "idle"
      BY <2>1, <2>2, TaskNames DEF Serving
    <3>4. \A c \in Callers : task'[c] # "starting"
      BY <2>1, <2>2, TaskNames DEF Serving
    <3>5. \A r \in Ids : reaper \in {"sleeping", "done"} => task'[Reaping(r)] \notin InFlight
      BY <2>1, <2>2, <3>2 DEF Serving, InFlight
    <3>6. \A r \in Ids : r \in registry \/ state[r] = "none" => task'[Reaping(r)] = "idle"
      BY <2>1, <3>2 DEF Serving
    <3>. QED  BY <2>1, <3>1, <3>2, <3>3, <3>4, <3>5, <3>6 DEF Serving
  <2>. QED  BY <2>3, <2>4, <2>5, TypesAndRestNext
<1>. QED  BY <1>1, <1>2, <1>3, <1>4, <1>5 DEF TaskStep

\* A session is closed by a call of the manager or of the session itself.
LEMMA CallKeeps ==
    ASSUME IInv, NEW c \in Callers, CallClose(c) \/ CallAclose(c)
    PROVE  IInv'
<1> USE DEF IInv
<1> DEFINE s == target[c]
<1>c. c \in Tasks /\ s \in Ids
  BY DEF TypeOK, Tasks
<1> HIDE DEF s
<1>s. target[c] = s
  BY DEF s
<1>0. /\ task[c] = "idle" /\ state[s] # "none"
      /\ UNCHANGED <<closed, reaper, lifespan, idle, age, target, doomed, added>>
      /\ registry' \in {registry, registry \ {s}}
  BY <1>s DEF CallClose, CallAclose, registryVars, clockVars
<1>t. Types /\ Rest
  BY TypesAndRest
<1>1. CASE Begins(c, s)
  <2>1. /\ Types' /\ Core' /\ Touches(c, s)
        /\ task'[c] \in {"waiting", "unwinding", "returned"}
        /\ state'[s] \in {"closing", "closed"}
    BY <1>0, <1>1, <1>c, <1>s, BeginsKeeps
  <2>2. c \notin doomed
    BY <1>0 DEF TypeOK, InFlight
  <2>. QED  BY <1>0, <1>c, <1>s, <2>1, <2>2, AcloseStep DEF InFlight
<1>2. CASE ~Begins(c, s)
  <2>1. /\ s \notin registry /\ task' = [task EXCEPT ![c] = "refused"]
        /\ UNCHANGED <<state, hooks, todo, ran, lock, waiters>>
        /\ registry' = registry \ {s}
    BY <1>2, <1>s DEF CallClose, CallAclose, sessionVars
  <2>2. task' \in [Tasks -> Statuses]
        /\ task'[c] = "refused" /\ \A u \in Tasks \ {c} : task'[u] = task[u]
    BY <1>c, <1>t, <2>1 DEF Types, Statuses, Ended
  <2>3. Types' /\ Core'
    <3>1. UNCHANGED <<state, hooks, todo, ran, lock, waiters, target, added>>
      BY <1>0, <2>1
    <3>2. \A u \in Tasks : task'[u] = task[u] \/ (task[u] \in Outside /\ task'[u] \in Outside)
      BY <1>0, <2>2 DEF Outside
    <3>. QED  BY <2>2, <3>1, <3>2, QuietKeeps
  <2>4. Rest'
    <3>1. \A u \in doomed : task'[u] \in InFlight
      BY <1>0, <1>t, <2>2 DEF Rest, InFlight
    <3>. QED  BY <1>0, <1>t, <2>1, <3>1 DEF Rest
  <2>5. Serving'
    <3>1. \A r \in Ids : UNCHANGED <<task[Reaping(r)], task[Stopping(r)]>>
      BY <2>2, TaskNames
    <3>2. \A d \in Callers : task'[d] # "starting"
      BY <2>2 DEF Serving, Tasks
    <3>3. registry' = registry
      BY <2>1
    <3>. QED  BY <1>0, <2>1, <3>1, <3>2, <3>3 DEF Serving
  <2>. QED  BY <2>3, <2>4, <2>5, TypesAndRestNext
<1>. QED  BY <1>1, <1>2

\* Everything but the life of the sessions: the clock, the reaper, the server.
LEMMA CoreUntouched ==
    ASSUME TypeOK, Core, UNCHANGED <<state, hooks, todo, ran, lock, waiters, target, added, task>>
    PROVE  Types' /\ Core'
<1>1. task' \in [Tasks -> Statuses] /\ \A u \in Tasks : task'[u] = task[u]
  BY DEF TypeOK, Statuses
<1>. QED  BY <1>1, QuietKeeps

LEMMA ClockKeeps ==
    ASSUME IInv, Tick \/ (\E s \in Ids : Touch(s))
    PROVE  IInv'
<1> USE DEF IInv
<1>1. UNCHANGED <<state, hooks, todo, ran, lock, waiters, target, added, task,
                  registry, closed, reaper, lifespan, doomed>>
  BY DEF Tick, Touch, registryVars, sessionVars
<1>2. Types' /\ Core'
  BY <1>1, CoreUntouched
<1>3. idle' \in [Ids -> 0 .. IdleTimeout] /\ age' \in [Ids -> 0 .. MaxDuration]
  <2>1. CASE Tick
    <3>1. \A s \in Ids : /\ idle[s] \in 0 .. IdleTimeout /\ age[s] \in 0 .. MaxDuration
                         /\ idle[s] < IdleTimeout => idle[s] + 1 \in 0 .. IdleTimeout
                         /\ age[s] < MaxDuration => age[s] + 1 \in 0 .. MaxDuration
      BY TimeoutsAssumption DEF TypeOK
    <3>. QED  BY <2>1, <3>1 DEF Tick
  <2>2. ASSUME NEW s \in Ids, Touch(s)
        PROVE  idle' \in [Ids -> 0 .. IdleTimeout] /\ age' \in [Ids -> 0 .. MaxDuration]
    <3>1. 0 \in 0 .. IdleTimeout
      BY TimeoutsAssumption
    <3>. QED  BY <2>2, <3>1 DEF Touch, TypeOK
  <2>. QED  BY <2>1, <2>2
<1>4. Rest'
  BY <1>1, <1>3, TypesAndRest DEF Rest
<1>5. Serving'
  BY <1>1 DEF Serving
<1>. QED  BY <1>2, <1>4, <1>5, TypesAndRestNext

LEMMA ServerKeeps ==
    ASSUME IInv, SweepEnds \/ Shutdown \/ Stopped \/ (\E c \in Callers : CancelCaller(c))
    PROVE  IInv'
<1> USE DEF IInv
<1>1. UNCHANGED <<state, hooks, todo, ran, lock, waiters, target, added, task,
                  registry, closed, idle, age>>
  BY DEF SweepEnds, Shutdown, Stopped, CancelCaller, registryVars, sessionVars, clockVars
<1>2. Types' /\ Core'
  BY <1>1, CoreUntouched
<1>3. Rest'
  <2>1. doomed' \subseteq {t \in Tasks : task[t] \in InFlight}
    <3>1. CASE Shutdown
      BY <3>1, TaskNames, TypesAndRest DEF Shutdown, Rest
    <3>2. CASE \E c \in Callers : CancelCaller(c)
      BY <3>2, TaskNames, TypesAndRest DEF CancelCaller, Rest, Tasks
    <3>3. CASE SweepEnds \/ Stopped
      BY <3>3, TypesAndRest DEF SweepEnds, Stopped, Rest
    <3>. QED  BY <3>1, <3>2, <3>3
  <2>2. /\ reaper' \in {"sleeping", "gathering", "cancelling", "done"}
        /\ lifespan' \in {"serving", "stopping", "closing", "stopped"}
    BY TypesAndRest
       DEF Rest, SweepEnds, Shutdown, Stopped, CancelCaller, registryVars
  <2>. QED  BY <1>1, <2>1, <2>2, TypesAndRest DEF Rest
<1>4. Serving'
  <2>1. CASE SweepEnds
    BY <1>1, <2>1 DEF Serving, SweepEnds
  <2>2. CASE Shutdown
    BY <1>1, <2>2 DEF Serving, Shutdown
  <2>3. CASE Stopped
    BY <1>1, <2>3 DEF Serving, Stopped
  <2>4. ASSUME NEW c \in Callers, CancelCaller(c)
        PROVE  Serving'
    <3>1. doomed' = doomed \cup {c} /\ reaper' = reaper /\ lifespan' = lifespan
      BY <2>4 DEF CancelCaller, registryVars
    <3>2. \A s \in Ids : Reaping(s) \in doomed' <=> Reaping(s) \in doomed
      BY <3>1, TaskNames
    <3>. QED  BY <1>1, <3>1, <3>2 DEF Serving
  <2>. QED  BY <2>1, <2>2, <2>3, <2>4
<1>. QED  BY <1>2, <1>3, <1>4, TypesAndRestNext

\* The children of a gather are created: the reaper's and the shutdown's.
LEMMA GatherKeeps ==
    ASSUME IInv, Sweep \/ CloseAll
    PROVE  IInv'
<1> USE DEF IInv
<1>t. Types /\ Rest
  BY TypesAndRest
<1>0. UNCHANGED <<state, hooks, todo, ran, lock, waiters, target, added, idle, age, doomed>>
  BY DEF Sweep, CloseAll, sessionVars, clockVars
<1>1. CASE Sweep
  <2> DEFINE expired == {s \in registry : Expired(s)}
  <2>1. /\ reaper = "sleeping" /\ reaper' = "gathering" /\ registry' = registry \ expired
        /\ task' = [t \in Tasks |-> IF t \in {Reaping(s) : s \in expired}
                                    THEN "starting" ELSE task[t]]
        /\ UNCHANGED <<closed, lifespan>>
    BY <1>1 DEF Sweep
  <2>2. expired \subseteq registry /\ expired \subseteq Ids
    BY <1>t DEF Rest
  <2> HIDE DEF expired
  <2>3. \A t \in Tasks : \/ task'[t] = task[t] /\ \A s \in expired : t # Reaping(s)
                         \/ /\ \E s \in expired : t = Reaping(s)
                            /\ task[t] = "idle" /\ task'[t] = "starting"
    BY <2>1, <2>2 DEF Serving
  <2>4. task' \in [Tasks -> Statuses]
    BY <1>t, <2>1 DEF Types, Statuses, InFlight
  <2>5. Types' /\ Core'
    <3>1. \A u \in Tasks : task'[u] = task[u] \/ (task[u] \in Outside /\ task'[u] \in Outside)
      BY <2>3 DEF Outside
    <3>. QED  BY <1>0, <2>4, <3>1, QuietKeeps
  <2>6. Rest'
    <3>1. doomed \subseteq {t \in Tasks : task'[t] \in InFlight}
      BY <1>t, <2>3 DEF Rest, InFlight
    <3>. QED  BY <1>0, <1>t, <2>1, <2>2, <3>1 DEF Rest
  <2>7. Serving'
    <3>1. \A s \in Ids : \/ s \in expired /\ task'[Reaping(s)] = "starting"
                         \/ s \notin expired /\ task'[Reaping(s)] = task[Reaping(s)]
      BY <2>2, <2>3, TaskNames
    <3>2. \A s \in Ids : task'[Stopping(s)] = task[Stopping(s)]
      BY <2>2, <2>3, TaskNames
    <3>3. \A c \in Callers : task'[c] = task[c]
      BY <2>2, <2>3, TaskNames DEF Tasks
    <3>4. \A s \in Ids : Reaping(s) \notin doomed
      BY <1>t, <2>1 DEF Rest, Serving
    <3>5. \A s \in Ids : s \in registry' \/ state[s] = "none" => task'[Reaping(s)] = "idle"
      BY <1>t, <2>1, <2>2, <3>1 DEF Serving, Rest
    <3>6. \A s \in Ids : lifespan = "serving" /\ state[s] = "active" =>
                            s \in registry' \/ task'[Reaping(s)] = "starting"
      BY <2>1, <3>1 DEF Serving
    <3>. QED  BY <1>0, <2>1, <3>2, <3>3, <3>4, <3>5, <3>6 DEF Serving
  <2>. QED  BY <2>5, <2>6, <2>7, TypesAndRestNext
<1>2. CASE CloseAll
  <2>1. /\ lifespan = "stopping" /\ reaper = "done" /\ lifespan' = "closing"
        /\ closed' = TRUE /\ registry' = {} /\ reaper' = reaper
        /\ task' = [t \in Tasks |-> IF t \in {Stopping(s) : s \in registry}
                                    THEN "starting" ELSE task[t]]
    BY <1>2 DEF CloseAll
  <2>2. registry \subseteq Ids
    BY <1>t DEF Rest
  <2>3. \A t \in Tasks : \/ task'[t] = task[t] /\ \A s \in registry : t # Stopping(s)
                         \/ /\ \E s \in registry : t = Stopping(s)
                            /\ task[t] = "idle" /\ task'[t] = "starting"
    BY <2>1, <2>2 DEF Serving
  <2>4. task' \in [Tasks -> Statuses]
    BY <1>t, <2>1 DEF Types, Statuses, InFlight
  <2>5. Types' /\ Core'
    <3>1. \A u \in Tasks : task'[u] = task[u] \/ (task[u] \in Outside /\ task'[u] \in Outside)
      BY <2>3 DEF Outside
    <3>. QED  BY <1>0, <2>4, <3>1, QuietKeeps
  <2>6. Rest'
    <3>1. doomed \subseteq {t \in Tasks : task'[t] \in InFlight}
      BY <1>t, <2>3 DEF Rest, InFlight
    <3>. QED  BY <1>0, <1>t, <2>1, <3>1 DEF Rest
  <2>7. Serving'
    <3>1. \A s \in Ids : task'[Reaping(s)] = task[Reaping(s)]
      BY <2>2, <2>3, TaskNames
    <3>2. \A c \in Callers : task'[c] = task[c]
      BY <2>2, <2>3, TaskNames DEF Tasks
    <3>. QED  BY <1>0, <2>1, <3>1, <3>2 DEF Serving
  <2>. QED  BY <2>5, <2>6, <2>7, TypesAndRestNext
<1>. QED  BY <1>1, <1>2

\* A session is created, or a hook registered.
LEMMA OpenKeeps ==
    ASSUME IInv, NEW s \in Ids, Create(s) \/ AddCleanup(s)
    PROVE  IInv'
<1> USE DEF IInv
<1>t. Types /\ Rest
  BY TypesAndRest
<1>0. UNCHANGED <<todo, ran, lock, waiters, task, target, doomed, closed, reaper, lifespan,
                  idle, age>>
  BY DEF Create, AddCleanup, registryVars, clockVars
<1>1. CASE Create(s)
  <2>1. /\ lifespan = "serving" /\ state[s] = "none" /\ registry' = registry \cup {s}
        /\ state' = [state EXCEPT ![s] = "active"]
        /\ UNCHANGED <<hooks, added>>
    BY <1>1 DEF Create
  <2>2. state'[s] = "active" /\ \A r \in Ids \ {s} : state'[r] = state[r]
    BY <1>t, <2>1 DEF Types
  <2>3. Types'
    BY <1>t, <1>0, <2>1 DEF Types
  <2>4. Queued' /\ WokenFirst'
    BY <1>0 DEF Core, Queued, WokenFirst
  <2>5. Held'
    BY <1>0, <2>1, <2>2 DEF Core, Held
  <2>6. Accounted'
    BY <1>0, <2>1, <2>2 DEF Core, Accounted
  <2>7. ReturnedMeansClosed'
    BY <1>0, <1>t, <2>1, <2>2 DEF Core, ReturnedMeansClosed, Types
  <2>8. Rest'
    BY <1>0, <1>t, <2>1, <2>2 DEF Rest
  <2>9. Serving'
    <3>1. \A r \in Ids : r \in registry' \/ state'[r] = "none" => r \in registry \/ state[r] = "none"
      BY <2>1, <2>2
    <3>2. \A r \in Ids : state'[r] = "active" => r \in registry' \/ state[r] = "active"
      BY <2>1, <2>2
    <3>. QED  BY <1>0, <2>1, <3>1, <3>2 DEF Serving
  <2>. QED  BY <2>3, <2>4, <2>5, <2>6, <2>7, <2>8, <2>9, TypesAndRestNext DEF Core
<1>2. CASE AddCleanup(s)
  <2>1. /\ state[s] = "active" /\ added[s] < MaxHooks
        /\ hooks' = [hooks EXCEPT ![s] = @ + 1] /\ added' = [added EXCEPT ![s] = @ + 1]
        /\ UNCHANGED <<registry, state>>
    BY <1>2 DEF AddCleanup, registryVars
  <2>2. hooks[s] = added[s] /\ Len(ran[s]) = 0 /\ added[s] + 1 \in 0 .. MaxHooks
    <3>1. added[s] \in 0 .. MaxHooks
      BY <1>t DEF Types
    <3>. QED  BY <2>1, <3>1, MaxHooksAssumption DEF Core, Accounted
  <2>3. Types'
    BY <1>0, <1>t, <2>1, <2>2 DEF Types
  <2>4. Queued' /\ WokenFirst' /\ Held' /\ ReturnedMeansClosed'
    BY <1>0, <2>1 DEF Core, Queued, WokenFirst, Held, ReturnedMeansClosed
  <2>5. Accounted'
    <3>1. hooks'[s] = added'[s] /\ \A r \in Ids \ {s} : hooks'[r] = hooks[r] /\ added'[r] = added[r]
      BY <1>t, <2>1, <2>2 DEF Types
    <3>2. DOMAIN ran[s] = {}
      BY <1>t, <2>2 DEF Types
    <3>. QED  BY <1>0, <2>1, <2>2, <3>1, <3>2 DEF Core, Accounted
  <2>6. Rest' /\ Serving'
    BY <1>0, <1>t, <2>1 DEF Rest, Serving
  <2>. QED  BY <2>3, <2>4, <2>5, <2>6, TypesAndRestNext DEF Core
<1>. QED  BY <1>1, <1>2

LEMMA InitIInv == Init => IInv
<1> SUFFICES ASSUME Init PROVE IInv
  OBVIOUS
<1>1. TypeOK
  <2>1. 0 \in 0 .. MaxHooks /\ 0 \in 0 .. IdleTimeout /\ 0 \in 0 .. MaxDuration
    BY MaxHooksAssumption, TimeoutsAssumption
  <2>2. Types
    BY <2>1 DEF Init, Types, Statuses
  <2>3. Rest
    BY <2>1 DEF Init, Rest
  <2>. QED  BY <2>2, <2>3, TypesAndRest
<1>2. Core
  <2>1. Queued
    BY DEF Init, Queued, InLine, ToSet, IsInjective
  <2>2. WokenFirst /\ Held /\ ReturnedMeansClosed
    BY TasksAssumption DEF Init, WokenFirst, Held, ReturnedMeansClosed
  <2>3. Accounted
    BY DEF Init, Accounted
  <2>. QED  BY <2>1, <2>2, <2>3 DEF Core
<1>3. Serving
  <2>1. \A t \in Tasks : task[t] = "idle"
    BY DEF Init
  <2>2. /\ lifespan = "serving" /\ reaper = "sleeping" /\ doomed = {}
        /\ \A s \in Ids : /\ state[s] = "none"
                         /\ target[Reaping(s)] = s /\ target[Stopping(s)] = s
    BY DEF Init
  <2>3. /\ \A s \in Ids : task[Reaping(s)] = "idle" /\ task[Stopping(s)] = "idle"
        /\ \A c \in Callers : task[c] = "idle"
    BY <2>1, TaskNames DEF Tasks
  <2>. QED  BY <2>2, <2>3 DEF Serving, InFlight
<1>. QED  BY <1>1, <1>2, <1>3 DEF IInv

LEMMA StepIInv == IInv /\ [Next]_vars => IInv'
<1> SUFFICES ASSUME IInv, [Next]_vars PROVE IInv'
  OBVIOUS
<1>1. CASE UNCHANGED vars
  <2>1. UNCHANGED <<state, hooks, todo, ran, lock, waiters, target, added, task,
                    registry, closed, reaper, lifespan, doomed, idle, age>>
    BY <1>1 DEF vars, registryVars, sessionVars, clockVars
  <2>2. Types' /\ Core'
    BY <2>1, CoreUntouched DEF IInv
  <2>3. Rest' /\ Serving'
    BY <2>1, TypesAndRest DEF IInv, Rest, Serving
  <2>. QED  BY <2>2, <2>3, TypesAndRestNext DEF IInv
<1>2. CASE Next
  BY <1>2, TaskStepKeeps, CallKeeps, ClockKeeps, ServerKeeps, GatherKeeps, OpenKeeps DEF Next
<1>. QED  BY <1>1, <1>2

LEMMA AlwaysIInv == Spec => []IInv
BY InitIInv, StepIInv, PTL DEF Spec

-----------------------------------------------------------------------------
(* The theorems.                                                           *)

\* The variables keep their types: the registry holds sessions that exist, and
\* only a task that is inside aclose() has a cancellation to see.
THEOREM SessionTypeCorrect == Spec => []TypeOK
<1>1. IInv => TypeOK
  BY DEF IInv
<1>. QED  BY <1>1, AlwaysIInv, PTL

\* Deterministic teardown: every hook runs once, the last registered first, and
\* a session is CLOSED only after all of them, whoever closes it and whoever of
\* them is cancelled.
THEOREM TeardownDeterministic == Spec => []UnwoundOnce
<1>1. IInv => UnwoundOnce
  <2> SUFFICES ASSUME IInv, NEW s \in Ids
               PROVE  /\ Len(ran[s]) <= added[s]
                      /\ \A i \in DOMAIN ran[s] : ran[s][i] = added[s] - i + 1
                      /\ state[s] = "closed" => Len(ran[s]) = added[s]
    BY DEF UnwoundOnce
  <2>1. state[s] \in {"none", "active", "closing", "closed"} /\ added[s] \in Nat /\ todo[s] \in Nat
    BY MaxHooksAssumption DEF IInv, TypeOK
  <2>. QED  BY <2>1 DEF IInv, Core, Accounted
<1>. QED  BY <1>1, AlwaysIInv, PTL

\* A caller of aclose() that is told it is done finds the session CLOSED, though
\* another task may have run the hooks.
THEOREM CloseWaitsForTeardown == Spec => []ReturnedMeansClosed
<1>1. IInv => ReturnedMeansClosed
  BY DEF IInv, Core
<1>. QED  BY <1>1, AlwaysIInv, PTL

\* No zombies: a session that is open while the server runs is in the registry
\* or has a task on its way to close it.
THEOREM NoZombies == Spec => []NoOrphanSession
<1>1. IInv => NoOrphanSession
  <2> SUFFICES ASSUME IInv, NEW s \in Ids, lifespan = "serving",
                      state[s] \in {"active", "closing"}, s \notin registry
               PROVE  \E t \in Tasks : target[t] = s /\ task[t] \in InFlight
    BY DEF NoOrphanSession
  <2>1. CASE state[s] = "active"
    <3>1. task[Reaping(s)] = "starting" /\ target[Reaping(s)] = s
      BY <2>1 DEF IInv, Serving
    <3>. QED  BY <3>1, TaskNames DEF InFlight
  <2>2. CASE state[s] = "closing"
    <3>1. lock[s] \in Tasks
      BY <2>2 DEF IInv, Core, Held, TypeOK
    <3>2. task[lock[s]] = "unwinding" /\ target[lock[s]] = s
      BY <3>1 DEF IInv, Core, Held
    <3>. QED  BY <3>1, <3>2 DEF InFlight
  <2>. QED  BY <2>1, <2>2
<1>. QED  BY <1>1, AlwaysIInv, PTL
=============================================================================
