--------------------------- MODULE WorkerPoolProofs ---------------------------
(***************************************************************************)
(* Proofs about WorkerPool, for every finite set of workers, capacity and  *)
(* number of items, with submitters that cancel their futures or not.      *)
(***************************************************************************)
EXTENDS WorkerPool, DataLemmas, FiniteSetTheorems, TLAPS

\* A nonempty part of the queue has a most urgent item.
LEMMA MostUrgentPrecedes ==
    ASSUME NEW S \in SUBSET Items, S # {}
    PROVE  /\ MostUrgent(S) \in S
           /\ \A j \in S \ {MostUrgent(S)} : Precedes(MostUrgent(S), j)
<1> DEFINE R == {ij \in S \X S : Precedes(ij[1], ij[2])}
<1>1. IsFiniteSet(S)
  <2>1. IsFiniteSet(Items)
    BY MaxItemsAssumption, FS_Interval DEF Items
  <2>. QED  BY <2>1, FS_Subset
<1>2. \A i \in S : i \in Int /\ PriorityOf[i] \in Int
  BY PriorityOfAssumption, MaxItemsAssumption DEF Items
<1>3. \A i, j : <<i, j>> \in R <=> i \in S /\ j \in S /\ Precedes(i, j)
  OBVIOUS
<1> HIDE DEF R
<1>4. \A i \in S : <<i, i>> \notin R
  BY <1>2, <1>3 DEF Precedes
<1>5. \A i, j, k \in S : <<i, j>> \in R /\ <<j, k>> \in R => <<i, k>> \in R
  BY <1>2, <1>3 DEF Precedes
<1>6. PICK i \in S : \A j \in S : <<j, i>> \notin R
  BY <1>1, <1>4, <1>5, FiniteMinimal
<1>7. ASSUME NEW j \in S \ {i}
      PROVE  Precedes(i, j)
  <2>1. ~Precedes(j, i)
    BY <1>3, <1>6
  <2>2. {i, j, PriorityOf[i], PriorityOf[j]} \subseteq Int /\ i # j
    BY <1>2
  <2>. QED  BY <2>1, <2>2 DEF Precedes
<1>8. MostUrgent(S) = CHOOSE k \in S : \A j \in S \ {k} : Precedes(k, j)
  BY DEF MostUrgent
<1>. QED  BY <1>6, <1>7, <1>8, Zenon

-----------------------------------------------------------------------------
\* What waits has not run; what is not submitted yet is nowhere.
Waiting ==
    /\ \A i \in queued : operation[i] = "none" /\ future[i] \in {"pending", "cancelled"}
    /\ \A i \in Items : i > submitted =>
          i \notin queued /\ future[i] = "none" /\ operation[i] = "none"

\* A busy worker's item was started; any other worker has none.
Employed == \A w \in Workers : IF worker[w] = "busy"
                                THEN job[w] \in Items /\ operation[job[w]] # "none"
                                ELSE job[w] = 0

\* start() makes all the workers, or none.
AllOrNone == Started \/ \A w \in Workers : worker[w] = "off"

\* The inductive invariant, together with AllOrNone.
IInv == TypeOK /\ Waiting /\ Employed /\ RegistryExact /\ FutureTellsTruth

Busy(v) == worker[v] = "busy"

\* What is left of the queue fits.
LEMMA FewerQueued ==
    ASSUME TypeOK, NEW rest \in SUBSET queued
    PROVE  Cardinality(rest) <= Capacity
<1>1. IsFiniteSet(Items)
  BY MaxItemsAssumption, FS_Interval DEF Items
<1>2. IsFiniteSet(queued)
  BY <1>1, FS_Subset DEF TypeOK
<1>3. IsFiniteSet(rest) /\ Cardinality(rest) <= Cardinality(queued)
  BY <1>2, FS_Subset
<1>4. Cardinality(rest) \in Nat /\ Cardinality(queued) \in Nat
  BY <1>2, <1>3, FS_CardinalityType
<1>. QED  BY <1>3, <1>4, CapacityAssumption DEF TypeOK

\* Round the loop: w has let go of what it had, fut tells the truth about it,
\* and reg holds what the other workers run; whether w then starts the next
\* item, parks, returns or dies, the invariant holds again.
LEMMA LoopKeeps ==
    ASSUME IInv, NEW w \in Workers, NEW fut \in [Items -> Futures], NEW reg,
           Loop(w, fut, reg), future' = fut,
           UNCHANGED <<submitted, closed, closer>>, mustCancel' \subseteq Workers,
           reg = {job[v] : v \in {u \in Workers \ {w} : Busy(u)}},
           \A i \in queued : fut[i] \in {"pending", "cancelled"},
           \A i \in Items : i > submitted => fut[i] = "none",
           \A i \in Items : operation[i] \in InProgress => i \in reg,
           \A i \in Items :
              /\ fut[i] = "resolved" => operation[i] = "ok"
              /\ fut[i] = "failed" => operation[i] = "error"
              /\ fut[i] = "pending" /\ operation[i] \in {"ok", "error", "cancelled"}
                   => \E v \in Workers \ {w} : Busy(v) /\ job[v] = i
    PROVE  IInv'
<1> USE DEF IInv
<1> DEFINE live == {i \in queued : fut[i] # "cancelled"}
           next == MostUrgent(live)
<1>t. /\ queued \subseteq Items /\ operation \in [Items -> Operations]
      /\ worker \in [Workers -> {"off", "ready", "parked", "busy", "returned", "died"}]
      /\ job \in [Workers -> Items \cup {0}]
  BY DEF TypeOK
<1>r. reg \subseteq Items
  BY DEF Employed, Busy
<1>z. 0 \notin Items
  BY MaxItemsAssumption DEF Items
<1>q. queued' \subseteq queued /\ Cardinality(queued') <= Capacity
  <2>1. queued' \subseteq queued
    <3>1. CASE live = {}
      BY <3>1 DEF Loop
    <3>2. CASE live # {}
      BY <3>2 DEF Loop
    <3>. QED  BY <3>1, <3>2
  <2>. QED  BY <2>1, FewerQueued
<1>1. ASSUME NEW x \in {"returned", "parked", "died"},
             worker' = [worker EXCEPT ![w] = x], job' = [job EXCEPT ![w] = 0],
             running' = reg, operation' = operation
      PROVE  IInv'
  <2>1. /\ worker' = [worker EXCEPT ![w] = x]
        /\ job' = [job EXCEPT ![w] = 0] /\ queued' \subseteq queued
        /\ running' = reg /\ operation' = operation
    BY <1>1, <1>q
  <2>2. \A v \in Workers : (worker'[v] = "busy" <=> v # w /\ Busy(v))
                           /\ job'[v] = IF v = w THEN 0 ELSE job[v]
    BY <2>1, <1>t DEF Busy
  <2>3. TypeOK'
    <3>1. worker' \in [Workers -> {"off", "ready", "parked", "busy", "returned", "died"}]
      BY <2>1, <1>t
    <3>2. job' \in [Workers -> Items \cup {0}]
      BY <2>1, <1>t
    <3>. QED  BY <2>1, <1>q, <1>r, <3>1, <3>2 DEF TypeOK
  <2>4. Waiting'
    BY <2>1, <1>t DEF Waiting
  <2>5. Employed'
    BY <2>1, <2>2 DEF Employed, Busy
  <2>6. RegistryExact'
    <3>1. running' = {job'[v] : v \in {u \in Workers : worker'[u] = "busy"}}
      BY <2>1, <2>2
    <3>2. ASSUME NEW u \in Workers, NEW v \in Workers,
                 worker'[v] = "busy", job'[v] = job'[u]
          PROVE  v = u
      <4>1. Busy(v) /\ job'[v] = job[v] /\ job[v] \in Items
        BY <3>2, <2>2 DEF Employed, Busy
      <4>2. u # w
        BY <4>1, <3>2, <2>2, <1>z
      <4>3. job[v] = job[u]
        BY <3>2, <4>1, <4>2, <2>2
      <4>. QED  BY <4>1, <4>3 DEF RegistryExact, Busy
    <3>. QED  BY <2>1, <3>1, <3>2 DEF RegistryExact
  <2>7. FutureTellsTruth'
    BY <2>1, <2>2 DEF FutureTellsTruth
  <2>. QED  BY <2>3, <2>4, <2>5, <2>6, <2>7
<1>2. CASE /\ live # {} /\ queued' = {j \in queued : Precedes(next, j)}
           /\ worker' = [worker EXCEPT ![w] = "busy"]
           /\ job' = [job EXCEPT ![w] = next]
           /\ operation' = [operation EXCEPT ![next] = "running"]
           /\ running' = reg \cup {next}
  <2>1. next \in queued /\ fut[next] = "pending"
    <3>1. live \in SUBSET Items
      BY <1>t
    <3>2. next \in live
      BY <3>1, <1>2, MostUrgentPrecedes
    <3>. QED  BY <3>2
  <2>2. /\ worker' = [worker EXCEPT ![w] = "busy"]
        /\ job' = [job EXCEPT ![w] = next]
        /\ queued' = {j \in queued : Precedes(next, j)}
        /\ operation' = [operation EXCEPT ![next] = "running"]
        /\ running' = reg \cup {next}
    BY <1>2
  <2> HIDE DEF next
  <2>3. next \in Items /\ operation[next] = "none" /\ ~(next > submitted)
        /\ next \notin reg /\ next \notin queued'
    <3>1. next \in Items /\ operation[next] = "none" /\ ~(next > submitted)
      BY <2>1, <1>t DEF Waiting
    <3>2. next \notin reg
      BY <3>1 DEF Employed, Busy
    <3>3. ~Precedes(next, next)
      BY <3>1, PriorityOfAssumption, MaxItemsAssumption DEF Precedes, Items
    <3>. QED  BY <3>1, <3>2, <3>3, <2>2
  <2>4. \A v \in Workers : (worker'[v] = "busy" <=> v = w \/ Busy(v))
                           /\ job'[v] = IF v = w THEN next ELSE job[v]
    BY <2>2, <1>t DEF Busy
  <2>5. \A i \in Items : operation'[i] = IF i = next THEN "running" ELSE operation[i]
    BY <2>2, <1>t
  <2>6. TypeOK'
    <3>1. worker' \in [Workers -> {"off", "ready", "parked", "busy", "returned", "died"}]
      BY <2>2, <1>t
    <3>2. job' \in [Workers -> Items \cup {0}]
      BY <2>2, <2>3, <1>t
    <3>3. operation' \in [Items -> Operations]
      BY <2>2, <1>t DEF Operations
    <3>. QED  BY <2>2, <2>3, <1>q, <1>r, <3>1, <3>2, <3>3 DEF TypeOK
  <2>7. Waiting'
    <3>1. ASSUME NEW i \in queued'
          PROVE  operation'[i] = "none" /\ future'[i] \in {"pending", "cancelled"}
      BY <2>2, <2>3, <2>5, <1>t DEF Waiting
    <3>2. ASSUME NEW i \in Items, i > submitted'
          PROVE  i \notin queued' /\ future'[i] = "none" /\ operation'[i] = "none"
      BY <3>2, <2>2, <2>3, <2>5 DEF Waiting
    <3>. QED  BY <3>1, <3>2 DEF Waiting
  <2>8. Employed'
    BY <2>3, <2>4, <2>5 DEF Employed, Busy
  <2>9. RegistryExact'
    <3>1. running' = {job'[v] : v \in {u \in Workers : worker'[u] = "busy"}}
      BY <2>2, <2>4
    <3>2. ASSUME NEW u \in Workers, NEW v \in Workers,
                 worker'[v] = "busy", job'[v] = job'[u]
          PROVE  v = u
      <4>1. CASE v = w /\ u # w
        <5>1. job[u] = next
          BY <3>2, <4>1, <2>4
        <5>2. CASE Busy(u)
          BY <4>1, <5>1, <5>2, <2>3
        <5>3. CASE ~Busy(u)
          BY <5>1, <5>3, <2>3, <1>z DEF Employed, Busy
        <5>. QED  BY <5>2, <5>3
      <4>2. CASE v # w
        <5>1. Busy(v) /\ job'[v] = job[v] /\ job[v] \in reg
          BY <3>2, <4>2, <2>4
        <5>2. u # w
          <6>1. CASE u = w
            <7>1. job'[u] = next
              BY <6>1, <2>4
            <7>. QED  BY <3>2, <5>1, <7>1, <2>3, Zenon
          <6>. QED  BY <6>1
        <5>3. job[v] = job[u]
          BY <3>2, <5>1, <5>2, <2>4
        <5>. QED  BY <5>1, <5>3 DEF RegistryExact, Busy
      <4>. QED  BY <4>1, <4>2
    <3>. QED  BY <3>1, <3>2, <2>2, <2>5 DEF RegistryExact
  <2>10. FutureTellsTruth'
    BY <2>1, <2>4, <2>5 DEF FutureTellsTruth
  <2>. QED  BY <2>6, <2>7, <2>8, <2>9, <2>10
<1>3. CASE live = {}
  <2>1. \E x \in {"returned", "parked", "died"} :
           /\ worker' = [worker EXCEPT ![w] = x] /\ job' = [job EXCEPT ![w] = 0]
           /\ running' = reg /\ operation' = operation
    BY <1>3 DEF Loop
  <2>. QED  BY <2>1, <1>1
<1>4. CASE live # {}
  <2>1. CASE /\ worker' = [worker EXCEPT ![w] = "died"] /\ job' = [job EXCEPT ![w] = 0]
             /\ running' = reg /\ operation' = operation
    BY <2>1, <1>1
  <2>. QED  BY <1>2, <1>4, <2>1 DEF Loop
<1>. QED  BY <1>3, <1>4

\* The registry without a worker's item is what the other workers run.
LEMMA LetGo ==
    ASSUME IInv, NEW w \in Workers
    PROVE  (IF Busy(w) THEN running \ {job[w]} ELSE running)
              = {job[v] : v \in {u \in Workers \ {w} : Busy(u)}}
<1>1. running = {job[v] : v \in {u \in Workers : Busy(u)}}
  BY DEF IInv, RegistryExact, Busy
<1>2. \A u, v \in Workers : Busy(v) /\ job[v] = job[u] => v = u
  BY DEF IInv, RegistryExact, Busy
<1>3. CASE ~Busy(w)
  BY <1>1, <1>3
<1>4. CASE Busy(w)
  <2>1. running \ {job[w]} \subseteq {job[v] : v \in {u \in Workers \ {w} : Busy(u)}}
    BY <1>1
  <2>2. {job[v] : v \in {u \in Workers \ {w} : Busy(u)}} \subseteq running \ {job[w]}
    BY <1>1, <1>2
  <2>. QED  BY <1>4, <2>1, <2>2
<1>. QED  BY <1>3, <1>4

\* A worker that was started or woken goes round its loop.
LEMMA WakesKeeps ==
    ASSUME IInv, NEW w \in Workers, WorkerWakes(w)
    PROVE  IInv'
<1>1. /\ ~Busy(w) /\ Loop(w, future, running) /\ future' = future
      /\ UNCHANGED <<submitted, closed, closer>> /\ mustCancel' \subseteq Workers
  BY DEF WorkerWakes, Busy, IInv, TypeOK
<1>2. running = {job[v] : v \in {u \in Workers \ {w} : Busy(u)}}
  BY <1>1, LetGo
<1>3. future \in [Items -> Futures] /\ \A i \in queued : future[i] \in {"pending", "cancelled"}
  BY DEF IInv, TypeOK, Waiting
<1>4. /\ \A i \in Items : i > submitted => future[i] = "none"
      /\ \A i \in Items : operation[i] \in InProgress => i \in running
  BY DEF IInv, Waiting, RegistryExact
<1>5. \A i \in Items :
         /\ future[i] = "resolved" => operation[i] = "ok"
         /\ future[i] = "failed" => operation[i] = "error"
         /\ future[i] = "pending" /\ operation[i] \in {"ok", "error", "cancelled"}
              => \E v \in Workers \ {w} : Busy(v) /\ job[v] = i
  BY <1>1 DEF IInv, FutureTellsTruth, Busy
<1>. QED  BY <1>1, <1>2, <1>3, <1>4, <1>5, LoopKeeps

\* A worker whose item is over settles its future, one way or the other, and
\* goes round its loop.
LEMMA SettlesKeeps ==
    ASSUME IInv, NEW w \in Workers, WorkerSeesCancellation(w) \/ WorkerSettles(w)
    PROVE  IInv'
<1> DEFINE i == job[w]
           fut == IF WorkerSettles(w) THEN Settled(w)
                  ELSE [future EXCEPT ![i] = IF @ = "pending" THEN "cancelled" ELSE @]
<1>t. future \in [Items -> Futures] /\ mustCancel \subseteq Workers /\ queued \subseteq Items
  BY DEF IInv, TypeOK
<1>1. Finished(w) /\ Busy(w)
  BY DEF WorkerSeesCancellation, WorkerSettles, Settling, Finished, Busy
<1>2. i \in Items /\ operation[i] \in {"ok", "error", "cancelled"}
  BY <1>1 DEF IInv, Employed, Busy, Finished, TypeOK, Operations, InProgress
<1>3. /\ Loop(w, fut, running \ {i}) /\ future' = fut
      /\ UNCHANGED <<submitted, closed, closer>> /\ mustCancel' \subseteq Workers
  BY <1>t DEF WorkerSeesCancellation, WorkerSettles
<1>4. fut \in [Items -> Futures]
  BY <1>t DEF Settled, Futures
<1>5. /\ \A j \in Items : j # i => fut[j] = future[j]
      /\ fut[i] # "pending"
      /\ fut[i] = "resolved" => operation[i] = "ok"
      /\ fut[i] = "failed" => operation[i] = "error"
  <2>1. CASE WorkerSettles(w)
    <3>1. operation[i] \in {"ok", "error"}
      BY <1>2, <2>1 DEF WorkerSettles, Settling, Cancelled
    <3>. QED  BY <1>t, <1>2, <2>1, <3>1 DEF Settled
  <2>2. CASE ~WorkerSettles(w)
    BY <1>t, <1>2, <2>2 DEF IInv, FutureTellsTruth
  <2>. QED  BY <2>1, <2>2
<1> HIDE DEF fut
<1>6. running \ {i} = {job[v] : v \in {u \in Workers \ {w} : Busy(u)}}
  BY <1>1, LetGo
<1>7. \A j \in queued : fut[j] \in {"pending", "cancelled"}
  BY <1>t, <1>2, <1>5 DEF IInv, Waiting
<1>8. /\ \A j \in Items : j > submitted => fut[j] = "none"
      /\ \A j \in Items : operation[j] \in InProgress => j \in running \ {i}
  BY <1>2, <1>5 DEF IInv, Waiting, RegistryExact, InProgress
<1>9. \A j \in Items :
         /\ fut[j] = "resolved" => operation[j] = "ok"
         /\ fut[j] = "failed" => operation[j] = "error"
         /\ fut[j] = "pending" /\ operation[j] \in {"ok", "error", "cancelled"}
              => \E v \in Workers \ {w} : Busy(v) /\ job[v] = j
  BY <1>5 DEF IInv, FutureTellsTruth, Busy
<1>. QED  BY <1>3, <1>4, <1>6, <1>7, <1>8, <1>9, LoopKeeps

\* A worker that dies leaves a future its submitter has cancelled.
LEMMA DiesKeeps ==
    ASSUME IInv, NEW w \in Workers, WorkerDies(w)
    PROVE  IInv'
<1> USE DEF IInv
<1>1. Busy(w) /\ future[job[w]] # "pending" /\ operation[job[w]] \notin InProgress
  BY DEF WorkerDies, Finished, Busy
<1>2. \A v \in Workers : (worker'[v] = "busy" <=> v # w /\ Busy(v))
                         /\ job'[v] = IF v = w THEN 0 ELSE job[v]
  BY DEF WorkerDies, TypeOK, Busy
<1>3. running' = {job[v] : v \in {u \in Workers \ {w} : Busy(u)}}
  BY <1>1, LetGo DEF WorkerDies
<1>4. UNCHANGED <<submitted, queued, closed, future, operation, mustCancel, closer>>
  BY DEF WorkerDies, queueVars
<1>5. TypeOK'
  <2>1. worker' \in [Workers -> {"off", "ready", "parked", "busy", "returned", "died"}]
        /\ job' \in [Workers -> Items \cup {0}]
    BY DEF WorkerDies, TypeOK
  <2>2. running' \subseteq Items
    BY DEF WorkerDies, TypeOK
  <2>. QED  BY <1>4, <2>1, <2>2 DEF TypeOK
<1>6. Waiting'
  BY <1>4 DEF Waiting
<1>7. Employed'
  BY <1>2, <1>4 DEF Employed, Busy
<1>8. RegistryExact'
  <2>1. running' = {job'[v] : v \in {u \in Workers : worker'[u] = "busy"}}
    BY <1>2, <1>3
  <2>2. ASSUME NEW u \in Workers, NEW v \in Workers,
               worker'[v] = "busy", job'[v] = job'[u]
        PROVE  v = u
    <3>1. Busy(v) /\ job'[v] = job[v] /\ job[v] \in Items
      BY <2>2, <1>2 DEF Employed, Busy
    <3>2. u # w
      <4>1. 0 \notin Items
        BY MaxItemsAssumption DEF Items
      <4>2. u = w => job'[u] = 0
        BY <1>2
      <4>. QED  BY <2>2, <3>1, <4>1, <4>2, Zenon
    <3>3. job[v] = job[u]
      BY <2>2, <3>1, <3>2, <1>2
    <3>. QED  BY <3>1, <3>3 DEF RegistryExact, Busy
  <2>3. \A i \in Items : operation[i] \in InProgress => i \in running'
    BY <1>1 DEF RegistryExact, WorkerDies
  <2>. QED  BY <1>4, <2>1, <2>2, <2>3 DEF RegistryExact
<1>9. FutureTellsTruth'
  BY <1>1, <1>2, <1>4 DEF FutureTellsTruth, Busy
<1>. QED  BY <1>5, <1>6, <1>7, <1>8, <1>9

\* Steps that leave busy workers at their items, and the registry as it is.
\* What happens to an operation in progress leaves it with its worker.
LEMMA OthersKeep ==
    ASSUME IInv, TypeOK', Waiting', UNCHANGED <<running, job>>,
           \A w \in Workers : worker'[w] = "busy" <=> worker[w] = "busy",
           \A i \in Items :
              /\ operation'[i] # operation[i]
                   => operation[i] \in InProgress /\ operation'[i] # "none"
              /\ future'[i] # future[i] => future'[i] \in {"pending", "cancelled"}
              /\ future'[i] # future[i] /\ future'[i] = "pending" => operation[i] = "none"
    PROVE  IInv'
<1> USE DEF IInv
<1>1. Employed'
  <2> SUFFICES ASSUME NEW w \in Workers
               PROVE  IF worker'[w] = "busy"
                      THEN job'[w] \in Items /\ operation'[job'[w]] # "none"
                      ELSE job'[w] = 0
    BY DEF Employed
  <2>1. job'[w] = job[w]
    OBVIOUS
  <2>. QED  BY <2>1 DEF Employed
<1>2. RegistryExact'
  BY DEF RegistryExact, InProgress, TypeOK
<1>3. FutureTellsTruth'
  BY DEF FutureTellsTruth, RegistryExact, TypeOK, InProgress
<1>. QED  BY <1>1, <1>2, <1>3

\* Starting, submitting, and giving up on a future.
LEMMA SubmittersKeep ==
    ASSUME IInv, AllOrNone, Start \/ Submit \/ SubmitRefused \/ \E i \in Items : CallerCancels(i)
    PROVE  IInv'
<1> USE DEF IInv
<1>1. CASE Start
  <2>1. TypeOK' /\ Waiting'
    BY <1>1 DEF Start, queueVars, operationVars, TypeOK, Waiting
  <2>2. \A w \in Workers : worker'[w] = "busy" <=> worker[w] = "busy"
    BY <1>1 DEF Start, AllOrNone
  <2>. QED  BY <1>1, <2>1, <2>2, OthersKeep DEF Start, queueVars, operationVars
<1>2. CASE Submit
  <2> DEFINE i == submitted + 1
  <2>1. /\ submitted < MaxItems /\ submitted' = i /\ queued' = queued \cup {i}
        /\ future' = [future EXCEPT ![i] = "pending"]
        /\ UNCHANGED <<operation, running, closed, job, mustCancel, closer>>
    BY <1>2 DEF Submit, operationVars
  <2>w. worker' = worker
        \/ \E w \in Workers : worker[w] = "parked" /\ worker' = [worker EXCEPT ![w] = "ready"]
    BY <1>2, Zenon DEF Submit
  <2>2. i \in Items /\ future[i] = "none" /\ operation[i] = "none"
    BY <2>1, MaxItemsAssumption DEF TypeOK, Items, Waiting
  <2>3. \A j \in Items : future'[j] = IF j = i THEN "pending" ELSE future[j]
    BY <2>1 DEF TypeOK
  <2>4. TypeOK'
    <3>1. worker' \in [Workers -> {"off", "ready", "parked", "busy", "returned", "died"}]
      BY <2>w DEF TypeOK
    <3>2. submitted' \in 0 .. MaxItems
      BY <2>1, MaxItemsAssumption DEF TypeOK
    <3>3. future' \in [Items -> Futures]
      BY <2>1 DEF TypeOK, Futures
    <3>4. Cardinality(queued') <= Capacity
      <4>1. Cardinality(queued) < Capacity
        BY <1>2 DEF Submit
      <4>2. IsFiniteSet(Items)
        BY MaxItemsAssumption, FS_Interval DEF Items
      <4>3. IsFiniteSet(queued)
        BY <4>2, FS_Subset DEF TypeOK
      <4>4. Cardinality(queued \cup {i}) \in {Cardinality(queued), Cardinality(queued) + 1}
            /\ Cardinality(queued) \in Nat
        BY <4>3, FS_AddElement, FS_CardinalityType
      <4>. QED  BY <2>1, <4>1, <4>4, CapacityAssumption
    <3>. QED  BY <2>1, <2>2, <3>1, <3>2, <3>3, <3>4 DEF TypeOK
  <2>5. Waiting'
    BY <2>1, <2>2, <2>3, MaxItemsAssumption DEF TypeOK, Waiting, Items
  <2>6. \A w \in Workers : worker'[w] = "busy" <=> worker[w] = "busy"
    BY <2>w DEF TypeOK
  <2>. QED  BY <2>1, <2>2, <2>3, <2>4, <2>5, <2>6, OthersKeep
<1>3. CASE SubmitRefused
  <2>1. submitted' = submitted + 1 /\ submitted < MaxItems
        /\ UNCHANGED <<queued, closed, future, operation, running, worker, job, mustCancel, closer>>
    BY <1>3 DEF SubmitRefused, operationVars, workerVars
  <2>2. TypeOK'
    BY <2>1, MaxItemsAssumption DEF TypeOK
  <2>3. Waiting'
    BY <2>1, MaxItemsAssumption DEF TypeOK, Waiting, Items
  <2>. QED  BY <2>1, <2>2, <2>3, OthersKeep
<1>4. ASSUME NEW i \in Items, CallerCancels(i)
      PROVE  IInv'
  <2>1. future[i] = "pending" /\ future' = [future EXCEPT ![i] = "cancelled"]
        /\ UNCHANGED <<submitted, queued, closed, operation, running, worker, job, mustCancel, closer>>
    BY <1>4 DEF CallerCancels, queueVars, operationVars, workerVars
  <2>2. \A j \in Items : future'[j] = IF j = i THEN "cancelled" ELSE future[j]
    BY <2>1 DEF TypeOK
  <2>3. TypeOK'
    BY <2>1 DEF TypeOK, Futures
  <2>4. Waiting'
    BY <2>1, <2>2 DEF TypeOK, Waiting
  <2>. QED  BY <2>1, <2>2, <2>3, <2>4, OthersKeep
<1>. QED  BY <1>1, <1>2, <1>3, <1>4

\* An operation's task ends, or is told to stop with its session.
LEMMA OperationsKeep ==
    ASSUME IInv, (\E i \in Items : OperationEnds(i)) \/ (\E s \in Sessions : CancelSession(s))
    PROVE  IInv'
<1> USE DEF IInv
<1>1. ASSUME NEW i \in Items, OperationEnds(i)
      PROVE  IInv'
  <2>1. /\ UNCHANGED <<submitted, queued, closed, future, running, worker, job, mustCancel, closer>>
        /\ operation[i] \in InProgress
        /\ \E r \in {"ok", "error", "cancelled"} : operation' = [operation EXCEPT ![i] = r]
    BY <1>1 DEF OperationEnds, queueVars, workerVars, InProgress
  <2>2. /\ \A j \in Items : j # i => operation'[j] = operation[j]
        /\ operation'[i] \in {"ok", "error", "cancelled"}
        /\ operation' \in [Items -> Operations]
    BY <2>1 DEF TypeOK, Operations
  <2>3. TypeOK'
    BY <2>1, <2>2 DEF TypeOK
  <2>4. Waiting'
    BY <2>1, <2>2 DEF TypeOK, Waiting, InProgress
  <2>. QED  BY <2>1, <2>2, <2>3, <2>4, OthersKeep
<1>2. ASSUME NEW s \in Sessions, CancelSession(s)
      PROVE  IInv'
  <2> DEFINE dropped == {i \in queued : SessionOf[i] = s}
             started == {i \in running : SessionOf[i] = s}
  <2>1. /\ queued' = queued \ dropped
        /\ future' = [i \in Items |-> IF i \in dropped THEN "cancelled" ELSE future[i]]
        /\ operation' = [i \in Items |-> IF i \in started /\ operation[i] = "running"
                                         THEN "cancelling" ELSE operation[i]]
        /\ UNCHANGED <<submitted, closed, running, worker, job, mustCancel, closer>>
    BY <1>2 DEF CancelSession, workerVars
  <2>2. \A i \in Items :
           /\ operation'[i] # operation[i] => operation[i] = "running" /\ operation'[i] = "cancelling"
           /\ future'[i] # future[i] => i \in queued /\ future'[i] = "cancelled"
    BY <2>1
  <2>3. TypeOK'
    <3>1. future' \in [Items -> Futures] /\ operation' \in [Items -> Operations]
      BY <2>1 DEF TypeOK, Futures, Operations
    <3>2. queued' \subseteq queued /\ Cardinality(queued') <= Capacity
      BY <2>1, FewerQueued
    <3>. QED  BY <2>1, <3>1, <3>2 DEF TypeOK
  <2>4. Waiting'
    <3>1. queued' \subseteq queued /\ queued \subseteq Items
      BY <2>1 DEF TypeOK
    <3>. QED  BY <2>1, <2>2, <3>1 DEF Waiting
  <2>. QED  BY <2>1, <2>2, <2>3, <2>4, OthersKeep DEF InProgress
<1>. QED  BY <1>1, <1>2

\* The close, its deadline and its end.
LEMMA CloseKeeps ==
    ASSUME IInv, Close \/ Deadline \/ CloseReturns \/ CloseRaises \/ Quiescent
    PROVE  IInv'
<1> USE DEF IInv
<1>1. CASE Close
  <2>1. /\ worker' = [w \in Workers |-> IF worker[w] = "parked" THEN "ready" ELSE worker[w]]
        /\ closed' = TRUE /\ closer' \in {"draining", "done"}
        /\ UNCHANGED <<submitted, queued, future, operation, running, job, mustCancel>>
    BY <1>1 DEF Close, operationVars
  <2>2. TypeOK'
    <3>1. worker' \in [Workers -> {"off", "ready", "parked", "busy", "returned", "died"}]
      BY <2>1 DEF TypeOK
    <3>. QED  BY <2>1, <3>1 DEF TypeOK
  <2>3. Waiting'
    BY <2>1 DEF Waiting
  <2>. QED  BY <2>1, <2>2, <2>3, OthersKeep
<1>2. CASE Deadline
  <2>1. /\ \A i \in Items : operation'[i] # operation[i]
                              => operation[i] = "running" /\ operation'[i] = "cancelling"
        /\ operation' \in [Items -> Operations] /\ mustCancel' \subseteq Workers
        /\ closer' \in {"expired", "recancelled"}
        /\ UNCHANGED <<submitted, queued, closed, future, running, worker, job>>
    BY <1>2 DEF Deadline, queueVars, TypeOK, Operations
  <2>2. TypeOK'
    BY <2>1 DEF TypeOK
  <2>3. Waiting'
    BY <2>1 DEF Waiting, TypeOK
  <2>. QED  BY <2>1, <2>2, <2>3, OthersKeep DEF InProgress
<1>3. CASE CloseReturns \/ CloseRaises \/ Quiescent
  <2>1. /\ closer' \in {"done", "raised", closer}
        /\ UNCHANGED <<submitted, queued, closed, future, operation, running, worker, job, mustCancel>>
    BY <1>3 DEF CloseReturns, CloseRaises, Quiescent, queueVars, operationVars, workerVars, vars
  <2>2. TypeOK' /\ Waiting'
    BY <2>1 DEF TypeOK, Waiting
  <2>. QED  BY <2>1, <2>2, OthersKeep
<1>. QED  BY <1>1, <1>2, <1>3

-----------------------------------------------------------------------------
\* A pool that has not been started has nothing.
LEMMA InitIInv == Init => IInv
<1> SUFFICES ASSUME Init
             PROVE  IInv
  OBVIOUS
<1>1. TypeOK
  <2>1. /\ future \in [Items -> Futures] /\ operation \in [Items -> Operations]
        /\ worker \in [Workers -> {"off", "ready", "parked", "busy", "returned", "died"}]
        /\ job \in [Workers -> Items \cup {0}]
    BY DEF Init, Futures, Operations
  <2>2. submitted \in 0 .. MaxItems
    BY MaxItemsAssumption DEF Init
  <2>3. Cardinality(queued) <= Capacity
    BY FS_EmptySet, CapacityAssumption DEF Init
  <2>. QED  BY <2>1, <2>2, <2>3 DEF Init, TypeOK
<1>2. Waiting /\ FutureTellsTruth
  BY DEF Init, Waiting, FutureTellsTruth
<1>3. Employed /\ RegistryExact
  BY DEF Init, Employed, RegistryExact, InProgress
<1>. QED  BY <1>1, <1>2, <1>3 DEF IInv

\* No step makes some workers only.
LEMMA NoneLeftOut ==
    ASSUME TypeOK, AllOrNone, [Next]_vars
    PROVE  AllOrNone'
<1>1. worker \in [Workers -> {"off", "ready", "parked", "busy", "returned", "died"}]
  BY DEF TypeOK
<1>2. CASE Start
  BY <1>2, WorkersAssumption DEF Start, AllOrNone, Started
<1>3. CASE UNCHANGED worker
  BY <1>3 DEF AllOrNone, Started
<1>4. CASE \E w \in Workers, x \in {"ready", "parked", "busy", "returned", "died"} :
              worker[w] # "off" /\ worker' = [worker EXCEPT ![w] = x]
  BY <1>1, <1>4 DEF AllOrNone, Started
<1>5. CASE Close
  BY <1>1, <1>5 DEF Close, AllOrNone, Started
<1>6. ASSUME NEW w \in Workers, WorkerStep(w)
      PROVE  \E x \in {"ready", "parked", "busy", "returned", "died"} :
                worker[w] # "off" /\ worker' = [worker EXCEPT ![w] = x]
  <2>1. worker[w] \in {"ready", "busy"}
    BY <1>6 DEF WorkerStep, WorkerWakes, WorkerSeesCancellation, WorkerSettles, Settling,
                WorkerDies, Finished
  <2>2. CASE WorkerDies(w)
    BY <2>1, <2>2 DEF WorkerDies
  <2>3. ASSUME NEW fut, NEW reg, Loop(w, fut, reg)
        PROVE  \E x \in {"parked", "busy", "returned", "died"} : worker' = [worker EXCEPT ![w] = x]
    BY <2>3 DEF Loop
  <2>4. CASE ~WorkerDies(w)
    <3>1. \E x \in {"parked", "busy", "returned", "died"} : worker' = [worker EXCEPT ![w] = x]
      BY <1>6, <2>3, <2>4 DEF WorkerStep, WorkerWakes, WorkerSeesCancellation, WorkerSettles
    <3>. QED  BY <2>1, <3>1
  <2>. QED  BY <2>2, <2>4
<1>7. CASE Submit
  <2>1. worker' = worker
        \/ \E w \in Workers : worker[w] = "parked" /\ worker' = [worker EXCEPT ![w] = "ready"]
    BY <1>7, Zenon DEF Submit
  <2>. QED  BY <2>1, <1>3, <1>4
<1>8. [Next]_vars => \/ Start \/ UNCHANGED worker \/ Close \/ Submit
                     \/ \E w \in Workers : WorkerStep(w)
  BY DEF Next, vars, workerVars, SubmitRefused, CallerCancels, OperationEnds, CancelSession,
         Deadline, CloseReturns, CloseRaises, Quiescent
<1>. QED  BY <1>2, <1>3, <1>4, <1>5, <1>6, <1>7, <1>8

\* Every step keeps the invariant.
LEMMA StepKeeps == IInv /\ AllOrNone /\ [Next]_vars => (IInv /\ AllOrNone)'
<1> SUFFICES ASSUME IInv, AllOrNone, [Next]_vars
             PROVE  (IInv /\ AllOrNone)'
  OBVIOUS
<1>1. ASSUME UNCHANGED vars
      PROVE  IInv'
  <2>1. UNCHANGED <<submitted, queued, closed, future, operation, running, worker, job,
                    mustCancel, closer>>
    BY <1>1 DEF vars, queueVars, operationVars, workerVars
  <2>2. TypeOK' /\ Waiting'
    BY <2>1 DEF IInv, TypeOK, Waiting
  <2>. QED  BY <2>1, <2>2, OthersKeep
<1>2. ASSUME NEW w \in Workers, WorkerStep(w)
      PROVE  IInv'
  BY <1>2, WakesKeeps, SettlesKeeps, DiesKeeps DEF WorkerStep
<1>3. ASSUME Next
      PROVE  IInv'
  BY <1>2, <1>3, SubmittersKeep, OperationsKeep, CloseKeeps DEF Next
<1>4. AllOrNone'
  BY NoneLeftOut DEF IInv
<1>. QED  BY <1>1, <1>3, <1>4

LEMMA AlwaysIInv == Spec => []IInv
<1>1. Init => AllOrNone
  BY DEF Init, AllOrNone
<1>. QED  BY <1>1, InitIInv, StepKeeps, PTL DEF Spec

-----------------------------------------------------------------------------
\* The pool's fields have their types.
THEOREM PoolTypeCorrect == Spec => []TypeOK
<1>1. IInv => TypeOK
  BY DEF IInv
<1>. QED  BY <1>1, AlwaysIInv, PTL

\* _running holds exactly the items that workers await, each by one worker,
\* whatever submitters, cancel_session() and the drain timeout do.
THEOREM RegistryAlwaysExact == Spec => []RegistryExact
<1>1. IInv => RegistryExact
  BY DEF IInv
<1>. QED  BY <1>1, AlwaysIInv, PTL

\* No future says something else than its operation did, and none is left
\* pending by an operation that has ended and has no worker to settle it.
THEOREM FuturesTellTheTruth == Spec => []FutureTellsTruth
<1>1. IInv => FutureTellsTruth
  BY DEF IInv
<1>. QED  BY <1>1, AlwaysIInv, PTL

-----------------------------------------------------------------------------
(* Graceful draining.                                                      *)

\* A worker returns only from a closed queue with nothing left in it; nothing
\* that waits for an answer is dropped on the way, but what a worker dies of; and aclose() of a started
\* pool returns when no worker is left.
Drained ==
    /\ closer # "idle" => closed
    /\ \A w \in Workers : worker[w] = "returned" => closed /\ queued = {}
    /\ \A i \in Items : future[i] = "pending" /\ operation[i] = "none"
                         => i \in queued \/ SomeoneDied
    /\ closer = "done" /\ Started => \A w \in Workers : worker[w] \in {"returned", "died"}

\* Round the loop nothing is dropped but what was cancelled and what w dies of.
LEMMA LoopDrains ==
    ASSUME IInv, Drained, NEW w \in Workers, worker[w] \in {"ready", "busy"},
           NEW fut \in [Items -> Futures], NEW reg,
           Loop(w, fut, reg), future' = fut, UNCHANGED <<closed, closer>>,
           \A i \in Items : fut[i] = "pending" => future[i] = "pending"
    PROVE  Drained'
<1> DEFINE live == {i \in queued : fut[i] # "cancelled"}
           next == MostUrgent(live)
<1>t. /\ queued \subseteq Items /\ operation \in [Items -> Operations]
      /\ worker \in [Workers -> {"off", "ready", "parked", "busy", "returned", "died"}]
  BY DEF IInv, TypeOK
<1>1. queued' \subseteq queued
  <2>1. CASE live = {}
    BY <2>1 DEF Loop
  <2>2. CASE live # {}
    BY <2>2 DEF Loop
  <2>. QED  BY <2>1, <2>2
<1>2. \A v \in Workers : worker'[v] = "returned" => closed' /\ queued' = {}
  <2>1. CASE live = {}
    BY <2>1, <1>t DEF Loop, Drained
  <2>2. CASE live # {}
    BY <2>2, <1>1, <1>t DEF Loop, Drained
  <2>. QED  BY <2>1, <2>2
<1>3. ASSUME NEW i \in Items, future'[i] = "pending", operation'[i] = "none"
      PROVE  i \in queued' \/ SomeoneDied'
  <2>d. SomeoneDied => SomeoneDied'
    <3>1. \E x \in {"parked", "busy", "returned", "died"} : worker' = [worker EXCEPT ![w] = x]
      BY DEF Loop
    <3>. QED  BY <3>1, <1>t DEF SomeoneDied
  <2>1. CASE live = {}
    <3>1. i \in queued \/ SomeoneDied
      BY <1>3, <2>1 DEF Loop, Drained
    <3>. QED  BY <1>3, <2>1, <2>d, <3>1
  <2>2. CASE live # {}
    <3>1. next \in live /\ \A j \in live \ {next} : Precedes(next, j)
      BY <2>2, <1>t, MostUrgentPrecedes
    <3> HIDE DEF next
    <3>2. CASE worker' = [worker EXCEPT ![w] = "died"]
      BY <1>t, <3>2 DEF SomeoneDied
    <3>3. CASE /\ queued' = {j \in queued : Precedes(next, j)}
               /\ operation' = [operation EXCEPT ![next] = "running"]
      <4>1. i # next /\ operation[i] = "none"
        BY <1>3, <3>1, <3>3, <1>t
      <4>2. i \in live \/ SomeoneDied
        BY <1>3, <4>1 DEF Drained
      <4>. QED  BY <2>d, <3>1, <3>3, <4>1, <4>2
    <3>. QED  BY <2>2, <3>2, <3>3 DEF Loop, next
  <2>. QED  BY <2>1, <2>2
<1>4. closer' # "done" \/ ~Started'
  <2>1. \A v \in Workers : worker'[v] = "off" <=> worker[v] = "off"
    <3>1. \E x \in {"parked", "busy", "returned", "died"} : worker' = [worker EXCEPT ![w] = x]
      BY DEF Loop
    <3>. QED  BY <3>1, <1>t
  <2>. QED  BY <2>1 DEF Drained, Started, SomeoneDied
<1>. QED  BY <1>2, <1>3, <1>4 DEF Drained

\* Every step keeps it.
LEMMA DrainedKeeps == IInv /\ AllOrNone /\ Drained /\ [Next]_vars => Drained'
<1> SUFFICES ASSUME IInv, AllOrNone, Drained, [Next]_vars
             PROVE  Drained'
  OBVIOUS
<1>t. /\ queued \subseteq Items /\ operation \in [Items -> Operations]
      /\ future \in [Items -> Futures] /\ submitted \in 0 .. MaxItems
      /\ worker \in [Workers -> {"off", "ready", "parked", "busy", "returned", "died"}]
  BY DEF IInv, TypeOK
<1>1. ASSUME NEW w \in Workers, WorkerWakes(w)
      PROVE  Drained'
  BY <1>1, <1>t, LoopDrains DEF WorkerWakes
<1>2. ASSUME NEW w \in Workers, WorkerSeesCancellation(w)
      PROVE  Drained'
  <2> DEFINE fut == [future EXCEPT ![job[w]] = IF @ = "pending" THEN "cancelled" ELSE @]
  <2>1. /\ worker[w] = "busy" /\ Loop(w, fut, running \ {job[w]}) /\ future' = fut
        /\ UNCHANGED <<closed, closer>>
    BY <1>2 DEF WorkerSeesCancellation, Finished
  <2>2. fut \in [Items -> Futures] /\ \A i \in Items : fut[i] = "pending" => future[i] = "pending"
    BY <1>t DEF Futures
  <2> HIDE DEF fut
  <2>. QED  BY <2>1, <2>2, LoopDrains
<1>3. ASSUME NEW w \in Workers, WorkerSettles(w)
      PROVE  Drained'
  <2>1. /\ worker[w] = "busy" /\ Loop(w, Settled(w), running \ {job[w]}) /\ future' = Settled(w)
        /\ UNCHANGED <<closed, closer>>
    BY <1>3 DEF WorkerSettles, Settling, Finished
  <2>2. /\ Settled(w) \in [Items -> Futures]
        /\ \A i \in Items : Settled(w)[i] = "pending" => future[i] = "pending"
    BY <1>t DEF Settled, Futures
  <2>. QED  BY <2>1, <2>2, LoopDrains
<1>4. ASSUME NEW w \in Workers, WorkerDies(w)
      PROVE  Drained'
  <2>1. /\ worker[w] = "busy" /\ worker' = [worker EXCEPT ![w] = "died"]
        /\ UNCHANGED <<queued, closed, future, operation, closer>>
    BY <1>4 DEF WorkerDies, Finished, queueVars
  <2>2. \A v \in Workers : worker'[v] = IF v = w THEN "died" ELSE worker[v]
    BY <2>1, <1>t
  <2>. QED  BY <2>1, <2>2 DEF Drained, Started, SomeoneDied
<1>5. CASE Start
  <2>1. ~closed /\ UNCHANGED <<queued, closed, future, operation, closer>>
        /\ \A w \in Workers : worker'[w] = "ready"
    BY <1>5 DEF Start, queueVars, operationVars
  <2>2. ~SomeoneDied
    BY <1>5 DEF Start, AllOrNone, SomeoneDied
  <2>. QED  BY <2>1, <2>2 DEF Drained
<1>6. CASE Submit
  <2> DEFINE i == submitted + 1
  <2>1. /\ ~closed /\ queued' = queued \cup {i}
        /\ future' = [future EXCEPT ![i] = "pending"]
        /\ UNCHANGED <<operation, closed, closer>>
    BY <1>6 DEF Submit, operationVars
  <2>w. worker' = worker
        \/ \E w \in Workers : worker[w] = "parked" /\ worker' = [worker EXCEPT ![w] = "ready"]
    BY <1>6, Zenon DEF Submit
  <2>2. \A w \in Workers : worker'[w] = "returned" => worker[w] = "returned"
    BY <2>w, <1>t
  <2>3. \A j \in Items : j # i => future'[j] = future[j]
    BY <2>1, <1>t
  <2>4. SomeoneDied => SomeoneDied'
    BY <2>w, <1>t DEF SomeoneDied
  <2>. QED  BY <2>1, <2>2, <2>3, <2>4 DEF Drained
<1>7. CASE Close
  <2>1. /\ \A w \in Workers : worker'[w] = IF worker[w] = "parked" THEN "ready" ELSE worker[w]
        /\ closed' = TRUE /\ closer' = (IF Started THEN "draining" ELSE "done")
        /\ UNCHANGED <<queued, future, operation>>
    BY <1>7 DEF Close, operationVars
  <2>2. Started' => Started
    BY <2>1 DEF Started
  <2>3. SomeoneDied => SomeoneDied'
    BY <2>1 DEF SomeoneDied
  <2>. QED  BY <2>1, <2>2, <2>3 DEF Drained
<1>8. CASE CloseReturns
  BY <1>8 DEF CloseReturns, Drained, SomeoneDied, queueVars, operationVars, workerVars
<1>9. CASE CloseRaises \/ Deadline
  <2>1. /\ closer # "idle" /\ closer' \notin {"idle", "done"}
        /\ UNCHANGED <<queued, closed, future, worker>>
    BY <1>9 DEF CloseRaises, Deadline, queueVars, operationVars, workerVars
  <2>2. \A i \in Items : operation'[i] = "none" => operation[i] = "none"
    BY <1>9 DEF CloseRaises, Deadline, operationVars
  <2>. QED  BY <2>1, <2>2 DEF Drained, SomeoneDied
<1>10. ASSUME NEW s \in Sessions, CancelSession(s)
       PROVE  Drained'
  <2>1. /\ UNCHANGED <<closed, closer, worker>>
        /\ \E D \in SUBSET queued :
              /\ queued' = queued \ D
              /\ future' = [i \in Items |-> IF i \in D THEN "cancelled" ELSE future[i]]
        /\ \A i \in Items : operation'[i] = "none" => operation[i] = "none"
    BY <1>10 DEF CancelSession, workerVars
  <2>. QED  BY <2>1 DEF Drained, Started, SomeoneDied
<1>11. ASSUME NEW i \in Items, CallerCancels(i) \/ OperationEnds(i)
       PROVE  Drained'
  <2>1. /\ UNCHANGED <<queued, closed, closer, worker>>
        /\ \A j \in Items : /\ future'[j] = "pending" => future[j] = "pending"
                            /\ operation'[j] = "none" => operation[j] = "none"
    BY <1>11, <1>t DEF CallerCancels, OperationEnds, queueVars, operationVars, workerVars
  <2>. QED  BY <2>1 DEF Drained, Started, SomeoneDied
<1>12. CASE SubmitRefused \/ Quiescent \/ UNCHANGED vars
  <2>1. UNCHANGED <<queued, closed, closer, worker, future, operation>>
    BY <1>12 DEF SubmitRefused, Quiescent, vars, queueVars, operationVars, workerVars
  <2>. QED  BY <2>1 DEF Drained, Started, SomeoneDied
<1>. QED  BY <1>1, <1>2, <1>3, <1>4, <1>5, <1>6, <1>7, <1>8, <1>9, <1>10, <1>11, <1>12
          DEF Next, WorkerStep

\* When aclose() of a started pool returns, nothing is queued, nothing runs
\* and every future is settled, unless a worker has died: whether or not the
\* drain timed out, and whatever submitters do meanwhile.
THEOREM ClosesGracefully == Spec => []GracefulClose
<1>1. Init => AllOrNone /\ Drained
  BY DEF Init, AllOrNone, Drained
<1>2. IInv /\ Drained => GracefulClose
  <2> SUFFICES ASSUME IInv, Drained, closer = "done", Started, ~SomeoneDied
               PROVE  /\ queued = {} /\ running = {}
                      /\ \A i \in Items : future[i] # "pending" /\ operation[i] \notin InProgress
    BY DEF GracefulClose
  <2>1. \A w \in Workers : worker[w] = "returned"
    BY DEF Drained, SomeoneDied
  <2>2. queued = {}
    BY <2>1, WorkersAssumption DEF Drained
  <2>3. running = {}
    BY <2>1 DEF IInv, RegistryExact
  <2>4. ASSUME NEW i \in Items
        PROVE  future[i] # "pending" /\ operation[i] \notin InProgress
    <3>1. operation[i] \notin InProgress
      BY <2>3 DEF IInv, RegistryExact
    <3>2. CASE operation[i] = "none"
      BY <2>2, <3>1, <3>2 DEF Drained
    <3>3. CASE operation[i] \in {"ok", "error", "cancelled"}
      BY <2>1, <3>1, <3>3 DEF IInv, FutureTellsTruth
    <3>4. operation[i] \in Operations
      BY DEF IInv, TypeOK
    <3>. QED  BY <3>1, <3>2, <3>3, <3>4 DEF Operations, InProgress
  <2>. QED  BY <2>2, <2>3, <2>4
<1>. QED  BY <1>1, <1>2, InitIInv, StepKeeps, DrainedKeeps, PTL DEF Spec

\* Once cancelled before it started, by its submitter or by cancel_session(),
\* an item never starts, whoever comes round the loop.
THEOREM CancelledStaysDown == Spec => CancelledNeverStarts
<1> DEFINE StaysDown == \A i \in Items : future[i] = "cancelled" /\ operation[i] = "none"
                                            => operation'[i] = "none"
<1>1. IInv /\ [Next]_vars => [StaysDown]_vars
  <2> SUFFICES ASSUME IInv, [Next]_vars, NEW i \in Items,
                      future[i] = "cancelled", operation[i] = "none"
               PROVE  operation'[i] = "none"
    OBVIOUS
  <2>t. /\ queued \subseteq Items /\ operation \in [Items -> Operations]
        /\ future \in [Items -> Futures] /\ job \in [Workers -> Items \cup {0}]
    BY DEF IInv, TypeOK
  <2>1. ASSUME NEW w \in Workers, NEW fut, NEW reg, Loop(w, fut, reg),
               fut[i] = "cancelled"
        PROVE  operation'[i] = "none"
    <3> DEFINE live == {j \in queued : fut[j] # "cancelled"}
               next == MostUrgent(live)
    <3>1. CASE live = {}
      BY <2>1, <3>1 DEF Loop
    <3>2. CASE live # {}
      <4>1. next \in live
        BY <3>2, <2>t, MostUrgentPrecedes
      <4> HIDE DEF next
      <4>2. operation' = operation \/ operation' = [operation EXCEPT ![next] = "running"]
        BY <2>1, <3>2 DEF Loop, next
      <4>3. i # next
        BY <2>1, <4>1
      <4>. QED  BY <2>t, <4>2, <4>3
    <3>. QED  BY <3>1, <3>2
  <2>2. ASSUME NEW w \in Workers, WorkerStep(w)
        PROVE  operation'[i] = "none"
    <3>1. CASE WorkerWakes(w)
      BY <3>1, <2>1 DEF WorkerWakes
    <3>2. CASE WorkerSeesCancellation(w)
      <4> DEFINE fut == [future EXCEPT ![job[w]] = IF @ = "pending" THEN "cancelled" ELSE @]
      <4>1. Loop(w, fut, running \ {job[w]})
        BY <3>2 DEF WorkerSeesCancellation
      <4>2. fut[i] = "cancelled"
        BY <2>t
      <4> HIDE DEF fut
      <4>. QED  BY <4>1, <4>2, <2>1
    <3>3. CASE WorkerSettles(w)
      <4>1. Loop(w, Settled(w), running \ {job[w]}) /\ future[job[w]] = "pending"
        BY <3>3 DEF WorkerSettles, Settling
      <4>2. Settled(w)[i] = "cancelled"
        BY <4>1, <2>t DEF Settled
      <4>. QED  BY <4>1, <4>2, <2>1
    <3>4. CASE WorkerDies(w)
      BY <3>4 DEF WorkerDies
    <3>. QED  BY <2>2, <3>1, <3>2, <3>3, <3>4 DEF WorkerStep
  <2>3. CASE OperationEnds(i) \/ \E j \in Items : OperationEnds(j)
    BY <2>3, <2>t DEF OperationEnds, InProgress
  <2>4. CASE Deadline
    BY <2>4, <2>t DEF Deadline, InProgress
  <2>5. CASE \E s \in Sessions : CancelSession(s)
    BY <2>5, <2>t DEF CancelSession, InProgress
  <2>6. CASE UNCHANGED operation
    BY <2>6
  <2>7. [Next]_vars => \/ UNCHANGED operation
                       \/ Deadline
                       \/ \E w \in Workers : WorkerStep(w)
                       \/ \E j \in Items : OperationEnds(j)
                       \/ \E s \in Sessions : CancelSession(s)
    BY DEF Next, vars, operationVars, Start, Submit, SubmitRefused, CallerCancels, Close,
           CloseReturns, CloseRaises, Quiescent
  <2>. QED  BY <2>2, <2>3, <2>4, <2>5, <2>6, <2>7
<1>. QED  BY <1>1, AlwaysIInv, PTL DEF Spec, CancelledNeverStarts
==============================================================================
