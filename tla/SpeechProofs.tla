------------------------------ MODULE SpeechProofs ------------------------------
(***************************************************************************)
(* Proofs about the parts of a voice pipeline: its cancellation token      *)
(* stops a turn's tasks and nothing else, the breaker of the Grok provider *)
(* counts what it should, transcriptions that run at once do not disturb   *)
(* each other, the detector reports each caller's utterances, and speech   *)
(* tokens are decoded in the windows of their order.                       *)
(***************************************************************************)
EXTENDS CancellationToken, SpeechDetector, GrokProvider, SpeechRecognizer, SpeechDecoder,
        DataLemmas

-----------------------------------------------------------------------------
(* The cancellation token. *)

\* The tasks of the turn that is on are bound to the token until they stop or
\* it fires, and it binds no others: bind() and reset() keep the two in step.
BoundToTurn ==
    /\ \A t \in bound : turn[t] = generation
    /\ \A t \in Tasks : turn[t] <= generation
    /\ \A t \in Tasks : task[t] = "running" /\ turn[t] = generation => ~fired /\ t \in bound
    /\ fired => generation \in firedTurns

\* A guard's task runs only while guard() awaits it, and only one whose caller
\* is cancelled is interrupted.
GuardedOnly ==
    /\ \A g \in Guards : guard[g] # "awaiting" => task[g] \notin InProgress
    /\ \A g \in Guards : guard[g] = "interrupted" => g \in torn

\* The turn that is on is not among those that fired while the token is armed.
FiredBefore == firedTurns \subseteq 0 .. generation /\ (~fired => generation \notin firedTurns)

\* The inductive invariant.
TokenInv == TypeOK /\ BoundToTurn /\ GuardedOnly /\ NoLateKill /\ FiredBefore /\ GuardOutcome
        /\ \A l \in Listeners : told[l] <= IF fired THEN 1 ELSE 0

\* A new token has bound nothing.
LEMMA InitToken == Init => TokenInv
<1> SUFFICES ASSUME Init
             PROVE  TokenInv
  OBVIOUS
<1> USE GuardsAssumption, MaxTurnAssumption DEF Init, InProgress
<1>1. TypeOK
  <2>1. task \in [Tasks -> {"none", "running", "cancelling", "finished", "cancelled"}]
        /\ guard \in [Guards -> {"idle", "awaiting", "interrupted", "returned"} \cup Raised]
        /\ waiter \in [Waiters -> {"idle", "waiting", "woken", "told", "default"}]
    OBVIOUS
  <2>2. told \in [Listeners -> Nat] /\ turn \in [Tasks -> 0 .. MaxTurn] /\ generation \in 0 .. MaxTurn
    OBVIOUS
  <2>3. /\ fired \in BOOLEAN /\ reason \in Reasons \cup {"none"}
        /\ bound \subseteq {t \in Tasks : task[t] \in InProgress}
        /\ callbacks \subseteq Listeners /\ torn \subseteq Guards
        /\ firedTurns \subseteq 0 .. MaxTurn
    OBVIOUS
  <2>. QED  BY <2>1, <2>2, <2>3 DEF TypeOK
<1>2. BoundToTurn /\ GuardedOnly /\ NoLateKill
  BY DEF BoundToTurn, GuardedOnly, NoLateKill
<1>3. \A l \in Listeners : told[l] <= IF fired THEN 1 ELSE 0
  OBVIOUS
<1>4. FiredBefore /\ GuardOutcome
  BY DEF FiredBefore, GuardOutcome, Raised
<1>. QED  BY <1>1, <1>2, <1>3, <1>4 DEF TokenInv

\* Firing stops the turn's tasks and adds the turn to those that fired.
LEMMA TokenCancelKeeps ==
    ASSUME TokenInv, NEW r \in Reasons, Cancel(r)
    PROVE  TokenInv'
<1> USE GuardsAssumption, ReasonsAssumption, MaxTurnAssumption DEF Cancel, TokenInv, InProgress
<1>1. TypeOK'
  BY DEF TypeOK, BoundToTurn
<1>2. BoundToTurn' /\ NoLateKill'
  BY DEF TypeOK, BoundToTurn, NoLateKill
<1>3. GuardedOnly'
  BY DEF TypeOK, GuardedOnly
<1>4. (\A l \in Listeners : told[l] <= IF fired THEN 1 ELSE 0)'
  BY DEF TypeOK
<1>5. FiredBefore'
  BY DEF TypeOK, FiredBefore
<1>6. GuardOutcome'
  BY DEF TypeOK, GuardOutcome
<1>. QED  BY <1>1, <1>2, <1>3, <1>4, <1>5, <1>6

\* Re-arming starts a turn no task belongs to yet.
LEMMA ResetKeeps ==
    ASSUME TokenInv, Reset
    PROVE  TokenInv'
<1> USE GuardsAssumption, MaxTurnAssumption DEF Reset, TokenInv, InProgress
<1>1. TypeOK'
  <2>1. generation' \in 0 .. MaxTurn /\ told' \in [Listeners -> Nat]
    BY DEF TypeOK
  <2>2. bound' \subseteq {t \in Tasks : task'[t] \in InProgress}
    OBVIOUS
  <2>. QED  BY <2>1, <2>2 DEF TypeOK
<1>2. BoundToTurn' /\ NoLateKill'
  BY DEF TypeOK, BoundToTurn, NoLateKill
<1>3. GuardedOnly' /\ (\A l \in Listeners : told[l] <= IF fired THEN 1 ELSE 0)'
  BY DEF TypeOK, GuardedOnly
<1>4. FiredBefore'
  BY DEF TypeOK, FiredBefore
<1>5. GuardOutcome'
  BY DEF TypeOK, GuardOutcome, BoundToTurn
<1>. QED  BY <1>1, <1>2, <1>3, <1>4, <1>5

\* A task is created and bound: to a token that has fired it is bound no more,
\* and told to stop at once.
LEMMA BindKeeps ==
    ASSUME TokenInv, NEW t \in Tasks, Bind(t)
    PROVE  TokenInv'
<1> USE GuardsAssumption, MaxTurnAssumption DEF Bind, Bound, TokenInv, InProgress
<1>1. TypeOK'
  BY DEF TypeOK
<1>2. BoundToTurn' /\ NoLateKill'
  BY DEF TypeOK, BoundToTurn, NoLateKill
<1>3. GuardedOnly' /\ (\A l \in Listeners : told[l] <= IF fired THEN 1 ELSE 0)'
  BY DEF TypeOK, GuardedOnly
<1>4. FiredBefore'
  BY DEF FiredBefore
<1>5. GuardOutcome'
  BY DEF TypeOK, GuardOutcome
<1>. QED  BY <1>1, <1>2, <1>3, <1>4, <1>5

\* A task that is over leaves the token's set, and nothing else.
LEMMA TaskEndsKeeps ==
    ASSUME TokenInv, NEW t \in Tasks, TaskEnds(t)
    PROVE  TokenInv'
<1> USE GuardsAssumption, MaxTurnAssumption DEF TaskEnds, TokenInv, InProgress
<1>1. TypeOK'
  BY DEF TypeOK
<1>2. BoundToTurn' /\ NoLateKill'
  BY DEF TypeOK, BoundToTurn, NoLateKill
<1>3. GuardedOnly' /\ (\A l \in Listeners : told[l] <= IF fired THEN 1 ELSE 0)'
  BY DEF TypeOK, GuardedOnly
<1>4. FiredBefore'
  BY DEF FiredBefore
<1>5. GuardOutcome'
  BY DEF TypeOK, GuardOutcome
<1>. QED  BY <1>1, <1>2, <1>3, <1>4, <1>5

\* guard() binds its task and does not let go of it before it is over.
LEMMA GuardKeeps ==
    ASSUME TokenInv, NEW g \in Guards,
           GuardRefuses(g) \/ GuardStarts(g) \/ CallerCancelled(g) \/ GuardResumes(g)
    PROVE  TokenInv'
<1> USE GuardsAssumption, MaxTurnAssumption DEF TokenInv, InProgress
<1>1. CASE GuardRefuses(g)
  BY <1>1 DEF GuardRefuses, TypeOK, BoundToTurn, NoLateKill, GuardedOnly, FiredBefore,
              GuardOutcome, Raised
<1>2. CASE GuardStarts(g)
  <2> USE <1>2 DEF GuardStarts, Bound
  <2>1. TypeOK'
    BY DEF TypeOK
  <2>2. BoundToTurn' /\ NoLateKill'
    BY DEF TypeOK, BoundToTurn, NoLateKill
  <2>3. GuardedOnly' /\ (\A l \in Listeners : told[l] <= IF fired THEN 1 ELSE 0)'
    BY DEF TypeOK, GuardedOnly
  <2>4. FiredBefore' /\ GuardOutcome'
    BY DEF TypeOK, FiredBefore, GuardOutcome, Raised
  <2>. QED  BY <2>1, <2>2, <2>3, <2>4
<1>3. CASE CallerCancelled(g)
  <2> USE <1>3 DEF CallerCancelled
  <2>1. TypeOK'
    BY DEF TypeOK
  <2>2. BoundToTurn' /\ NoLateKill'
    BY DEF TypeOK, BoundToTurn, NoLateKill
  <2>3. GuardedOnly' /\ (\A l \in Listeners : told[l] <= IF fired THEN 1 ELSE 0)'
    BY DEF TypeOK, GuardedOnly
  <2>4. FiredBefore' /\ GuardOutcome'
    BY DEF TypeOK, FiredBefore, GuardOutcome, Raised
  <2>. QED  BY <2>1, <2>2, <2>3, <2>4
<1>4. CASE GuardResumes(g)
  <2> USE <1>4 DEF GuardResumes
  <2>1. TypeOK'
    BY DEF TypeOK, Raised
  <2>2. BoundToTurn' /\ NoLateKill'
    BY DEF TypeOK, BoundToTurn, NoLateKill
  <2>3. GuardedOnly' /\ (\A l \in Listeners : told[l] <= IF fired THEN 1 ELSE 0)'
    BY DEF TypeOK, GuardedOnly
  <2>4. FiredBefore' /\ GuardOutcome'
    <3>1. FiredBefore'
      BY DEF FiredBefore
    <3>2. guard'[g] = "CancelledError" => g \in torn \/ generation > turn[g]
      <4>1. SUFFICES ASSUME guard'[g] = "CancelledError", g \notin torn
                     PROVE  generation > turn[g]
        OBVIOUS
      <4>2. ~fired /\ task[g] = "cancelled"
        BY <4>1 DEF TypeOK, GuardedOnly
      <4>3. turn[g] \in firedTurns /\ turn[g] # generation
        BY <4>1, <4>2 DEF NoLateKill, FiredBefore
      <4>4. turn[g] \in Nat /\ generation \in Nat /\ turn[g] <= generation
        BY DEF TypeOK, BoundToTurn
      <4>. QED  BY <4>3, <4>4
    <3>3. guard'[g] \in Raised \cup {"returned"} => task[g] \notin InProgress
      BY DEF TypeOK, GuardedOnly
    <3>4. \A h \in Guards \ {g} : guard'[h] = guard[h]
      BY DEF TypeOK
    <3>5. GuardOutcome'
      BY <3>2, <3>3, <3>4 DEF GuardOutcome
    <3>. QED  BY <3>1, <3>5
  <2>. QED  BY <2>1, <2>2, <2>3, <2>4
<1>. QED  BY <1>1, <1>2, <1>3, <1>4

\* Listeners come and go, and waiters read what the token says.
LEMMA OnlookersKeep ==
    ASSUME TokenInv,
           \/ \E l \in Listeners : Subscribe(l) \/ Unsubscribe(l)
           \/ \E w \in Waiters : Wait(w) \/ WaitResumes(w)
    PROVE  TokenInv'
<1>1. ASSUME NEW l \in Listeners, Subscribe(l) \/ Unsubscribe(l)
      PROVE  TokenInv'
  <2> USE <1>1 DEF Subscribe, Unsubscribe, TokenInv
  <2>1. TypeOK'
    BY DEF TypeOK, InProgress
  <2>2. (BoundToTurn /\ GuardedOnly /\ NoLateKill)'
    BY DEF BoundToTurn, GuardedOnly, NoLateKill
  <2>3. FiredBefore'
    BY DEF FiredBefore
  <2>4. GuardOutcome'
    BY DEF GuardOutcome
  <2>. QED  BY <2>1, <2>2, <2>3, <2>4
<1>2. ASSUME NEW w \in Waiters, Wait(w) \/ WaitResumes(w)
      PROVE  TokenInv'
  <2> USE <1>2 DEF Wait, WaitResumes, TokenInv
  <2>1. TypeOK'
    BY DEF TypeOK, InProgress
  <2>2. (BoundToTurn /\ GuardedOnly /\ NoLateKill)'
    BY DEF BoundToTurn, GuardedOnly, NoLateKill
  <2>3. FiredBefore'
    BY DEF FiredBefore
  <2>4. GuardOutcome'
    BY DEF GuardOutcome
  <2>. QED  BY <2>1, <2>2, <2>3, <2>4
<1>. QED  BY <1>1, <1>2

\* Every step keeps the invariant.
LEMMA StepKeeps == TokenInv /\ [Next]_vars => TokenInv'
<1> SUFFICES ASSUME TokenInv, [Next]_vars
             PROVE  TokenInv'
  OBVIOUS
<1>1. CASE UNCHANGED vars
  BY <1>1 DEF vars, TokenInv, TypeOK, BoundToTurn, NoLateKill, GuardedOnly, FiredBefore,
              GuardOutcome, InProgress
<1>2. CASE Next
  BY <1>2, TokenCancelKeeps, ResetKeeps, BindKeeps, TaskEndsKeeps, GuardKeeps, OnlookersKeep
     DEF Next
<1>. QED  BY <1>1, <1>2

\* The inductive invariant is one.
LEMMA AlwaysToken == Spec => []TokenInv
BY InitToken, StepKeeps, PTL DEF Spec

-----------------------------------------------------------------------------
\* The token's fields have their types, and no task is bound that is over.
THEOREM TokenTypeCorrect == Spec => []TypeOK
<1>1. TokenInv => TypeOK
  BY DEF TokenInv
<1>. QED  BY <1>1, AlwaysToken, PTL

\* After cancel() no task of the turn goes on running unasked, and no callback
\* has been told twice, however binds, fires, resets and ends interleave.
THEOREM FireStopsItsTurn == Spec => []TurnStopped
<1>1. TokenInv => TurnStopped
  BY DEF TokenInv, BoundToTurn, TurnStopped
<1>. QED  BY <1>1, AlwaysToken, PTL

\* cancel() never reaches the tasks of a turn in which it was not called.
THEOREM NoTurnKillsAnother == Spec => []NoLateKill
<1>1. TokenInv => NoLateKill
  BY DEF TokenInv
<1>. QED  BY <1>1, AlwaysToken, PTL

\* guard() that has returned or raised has left no task behind, and takes a
\* fire for its caller's end only after a reset.
THEOREM GuardLeavesNothing == Spec => []GuardOutcome
<1>1. TokenInv => GuardOutcome
  BY DEF TokenInv
<1>. QED  BY <1>1, AlwaysToken, PTL

-----------------------------------------------------------------------------
(* The Grok provider's retries and its circuit breaker. *)

LastOf(S) == CHOOSE i \in S : \A j \in S : j <= i

\* As InARow and Openers, of any log.
Row(l, n) == Cardinality({i \in 1 .. n : \A j \in i .. n : l[j].what = "failure"})
Openings(l) == {i \in DOMAIN l : Row(l, i) >= Threshold
                                 /\ \A j \in i .. Len(l) : l[j].what # "reset"}
OpenedBy(l) == IF Openings(l) = {} THEN NotOpen ELSE l[LastOf(Openings(l))].time

Happenings == [what : {"failure", "success", "reset"}, time : Nat]
Phases == {"idle", "streaming", "backoff"}

GrokInv ==
    /\ log \in Seq(Happenings) /\ clock \in Nat /\ failures \in Nat
    /\ failures = Row(log, Len(log))
    /\ openedAt = OpenedBy(log)
    /\ attempt \in [GrokSessions -> Nat] /\ stage \in [GrokSessions -> Phases]
    /\ \A s \in GrokSessions : /\ attempt[s] <= MaxRetries
                               /\ stage[s] = "backoff" => attempt[s] < MaxRetries

\* The failures in a row up to an entry of the log are a finite number.
LEMMA RowTyped ==
    ASSUME NEW l, NEW n \in Nat
    PROVE  Row(l, n) \in Nat
<1> DEFINE S == {i \in 1 .. n : \A j \in i .. n : l[j].what = "failure"}
<1>1. IsFiniteSet(1 .. n) /\ S \subseteq 1 .. n
  BY FS_Interval
<1>2. Cardinality(S) \in Nat
  BY <1>1, FS_Subset, FS_CardinalityType
<1>. QED  BY <1>2 DEF Row

\* What an entry adds to the row.
LEMMA RowAppend ==
    ASSUME NEW l \in Seq(Happenings), NEW e \in Happenings
    PROVE  /\ \A n \in 1 .. Len(l) : Row(Append(l, e), n) = Row(l, n)
           /\ Row(Append(l, e), Len(l) + 1)
                  = IF e.what = "failure" THEN Row(l, Len(l)) + 1 ELSE 0
<1>a. PICK more : more = Append(l, e)
  OBVIOUS
<1>n. PICK N \in Nat : N = Len(l)
  OBVIOUS
<1> SUFFICES /\ \A n \in 1 .. N : Row(more, n) = Row(l, n)
             /\ Row(more, N + 1) = IF e.what = "failure" THEN Row(l, N) + 1 ELSE 0
  BY <1>a, <1>n
<1>1. more[N + 1] = e /\ \A k \in 1 .. N : more[k] = l[k]
  BY <1>a, <1>n
<1>2. ASSUME NEW n \in 1 .. N PROVE Row(more, n) = Row(l, n)
  <2>1. \A i \in 1 .. n : \A j \in i .. n : more[j] = l[j]
    BY <1>1
  <2>2. {i \in 1 .. n : \A j \in i .. n : more[j].what = "failure"}
           = {i \in 1 .. n : \A j \in i .. n : l[j].what = "failure"}
    BY <2>1
  <2>. QED  BY <2>2 DEF Row
<1> DEFINE R == {i \in 1 .. N : \A j \in i .. N : l[j].what = "failure"}
           M == {i \in 1 .. N + 1 : \A j \in i .. N + 1 : more[j].what = "failure"}
<1>3. CASE e.what # "failure"
  <2>1. \A i \in 1 .. N + 1 : N + 1 \in i .. N + 1
    OBVIOUS
  <2>2. M = {}
    BY <1>1, <1>3, <2>1
  <2>. QED  BY <1>2, <1>3, <2>2, FS_EmptySet DEF Row
<1>4. CASE e.what = "failure"
  <2>1. \A i \in 1 .. N + 1 : i \in M <=> (i = N + 1 \/ i \in R)
    <3> SUFFICES ASSUME NEW i \in 1 .. N + 1 PROVE i \in M <=> (i = N + 1 \/ i \in R)
      OBVIOUS
    <3>1. CASE i = N + 1
      BY <1>1, <1>4, <3>1
    <3>2. CASE i \in 1 .. N
      <4>1. \A j : j \in i .. N + 1 <=> j \in i .. N \/ j = N + 1
        BY <3>2
      <4>2. \A j \in i .. N : more[j] = l[j]
        BY <1>1, <3>2
      <4>. QED  BY <1>1, <1>4, <3>2, <4>1, <4>2
    <3>. QED  BY <3>1, <3>2
  <2>2. M = R \cup {N + 1} /\ N + 1 \notin R
    BY <2>1
  <2>3. IsFiniteSet(R)
    <3>1. IsFiniteSet(1 .. N)
      BY FS_Interval
    <3>2. R \subseteq 1 .. N
      OBVIOUS
    <3> HIDE DEF R
    <3>. QED  BY <3>1, <3>2, FS_Subset
  <2> HIDE DEF M, R
  <2>4. Cardinality(M) = Cardinality(R) + 1
    BY <2>2, <2>3, FS_AddElement
  <2>. QED  BY <1>2, <1>4, <2>4 DEF Row, M, R
<1>. QED  BY <1>2, <1>3, <1>4

\* What an entry does to the openers.
LEMMA OpeningsAppend ==
    ASSUME NEW l \in Seq(Happenings), NEW e \in Happenings
    PROVE  /\ e.what = "reset" => Openings(Append(l, e)) = {}
           /\ e.what = "success" => Openings(Append(l, e)) = Openings(l)
           /\ e.what = "failure" =>
                 Openings(Append(l, e)) = IF Row(l, Len(l)) + 1 >= Threshold
                                          THEN Openings(l) \cup {Len(l) + 1} ELSE Openings(l)
<1>a. PICK more : more = Append(l, e)
  OBVIOUS
<1>n. PICK N \in Nat : N = Len(l)
  OBVIOUS
<1> SUFFICES /\ e.what = "reset" => Openings(more) = {}
             /\ e.what = "success" => Openings(more) = Openings(l)
             /\ e.what = "failure" =>
                   Openings(more) = IF Row(l, N) + 1 >= Threshold
                                    THEN Openings(l) \cup {N + 1} ELSE Openings(l)
  BY <1>a, <1>n
<1>1. /\ more[N + 1] = e /\ \A k \in 1 .. N : more[k] = l[k]
      /\ DOMAIN more = 1 .. N + 1 /\ Len(more) = N + 1 /\ DOMAIN l = 1 .. N
  BY <1>a, <1>n
<1>2. /\ \A n \in 1 .. N : Row(more, n) = Row(l, n)
      /\ Row(more, N + 1) = IF e.what = "failure" THEN Row(l, N) + 1 ELSE 0
  BY <1>a, <1>n, RowAppend
<1>3. Threshold \in Nat \ {0}
  BY GrokAssumption
<1>4. e.what \in {"failure", "success", "reset"}
  BY DEF Happenings
<1>5. ASSUME NEW i \in 1 .. N + 1
      PROVE  (\A j \in i .. N + 1 : more[j].what # "reset")
                <=> e.what # "reset" /\ \A j \in i .. N : l[j].what # "reset"
  <2>1. \A j : j \in i .. N + 1 <=> j \in i .. N \/ j = N + 1
    OBVIOUS
  <2>2. \A j \in i .. N : more[j] = l[j]
    BY <1>1
  <2>. QED  BY <1>1, <2>1, <2>2
<1>6. ASSUME NEW i \in 1 .. N + 1
      PROVE  i \in Openings(more) <=> /\ Row(more, i) >= Threshold
                                      /\ e.what # "reset" /\ \A j \in i .. N : l[j].what # "reset"
  BY <1>1, <1>5 DEF Openings
<1>7. \A i \in 1 .. N : i \in Openings(l) <=> /\ Row(l, i) >= Threshold
                                              /\ \A j \in i .. N : l[j].what # "reset"
  BY <1>1 DEF Openings
<1>8. \A i \in 1 .. N : i \in Openings(more) <=> e.what # "reset" /\ i \in Openings(l)
  BY <1>2, <1>6, <1>7
<1>9. N + 1 \in Openings(more) <=> e.what = "failure" /\ Row(l, N) + 1 >= Threshold
  <2>1. \A j : j \notin N + 1 .. N
    OBVIOUS
  <2>. QED  BY <1>2, <1>3, <1>4, <1>6, <2>1
<1>10. Openings(more) \subseteq 1 .. N + 1 /\ Openings(l) \subseteq 1 .. N
  BY <1>1 DEF Openings
<1>11. ASSUME e.what = "failure", Row(l, N) + 1 >= Threshold
       PROVE  Openings(more) = Openings(l) \cup {N + 1}
  <2>1. \A i \in 1 .. N + 1 : i \in 1 .. N \/ i = N + 1
    OBVIOUS
  <2>. QED  BY <1>8, <1>9, <1>10, <1>11, <2>1
<1>12. ASSUME e.what # "reset", ~ (e.what = "failure" /\ Row(l, N) + 1 >= Threshold)
       PROVE  Openings(more) = Openings(l)
  <2>1. \A i \in 1 .. N + 1 : i \in 1 .. N \/ i = N + 1
    OBVIOUS
  <2>. QED  BY <1>8, <1>9, <1>10, <1>12, <2>1
<1>13. ASSUME e.what = "reset" PROVE Openings(more) = {}
  <2>1. \A i \in 1 .. N + 1 : i \in 1 .. N \/ i = N + 1
    OBVIOUS
  <2>. QED  BY <1>8, <1>9, <1>10, <1>13, <2>1
<1>. QED  BY <1>11, <1>12, <1>13

\* An entry that opens nothing leaves the breaker's time as it was.
LEMMA OpenedAsBefore ==
    ASSUME NEW l \in Seq(Happenings), NEW e \in Happenings,
           Openings(Append(l, e)) = Openings(l)
    PROVE  OpenedBy(Append(l, e)) = OpenedBy(l)
<1>a. PICK more : more = Append(l, e)
  OBVIOUS
<1>1. CASE Openings(l) = {}
  BY <1>1 DEF OpenedBy
<1>2. CASE Openings(l) # {}
  <2>1. PICK N \in Nat : N = Len(l) /\ DOMAIN l = 1 .. N
    OBVIOUS
  <2>2. Openings(l) \in SUBSET (0 .. N)
    BY <2>1 DEF Openings
  <2>3. LastOf(Openings(l)) \in Openings(l)
    BY <1>2, <2>2, GreatestNumber DEF LastOf
  <2>4. LastOf(Openings(l)) \in 1 .. N
    BY <2>1, <2>3 DEF Openings
  <2>5. more[LastOf(Openings(l))] = l[LastOf(Openings(l))]
    BY <1>a, <2>1, <2>4
  <2>. QED  BY <1>a, <1>2, <2>5 DEF OpenedBy
<1>. QED  BY <1>1, <1>2

\* What is noted in the log keeps the count and the breaker's time right.
LEMMA NotedKeeps ==
    ASSUME GrokInv, NEW what \in {"failure", "success", "reset"}, Noted(what),
           failures' = IF what = "failure" THEN failures + 1 ELSE 0,
           openedAt' = IF what = "reset" THEN NotOpen
                       ELSE IF what = "failure" /\ failures + 1 >= Threshold THEN clock
                       ELSE openedAt
    PROVE  /\ log' \in Seq(Happenings) /\ failures' \in Nat
           /\ failures' = Row(log', Len(log')) /\ openedAt' = OpenedBy(log')
<1>1. PICK e \in Happenings : e = [what |-> what, time |-> clock]
  BY DEF Happenings, GrokInv
<1>2. PICK l \in Seq(Happenings) : l = log
  BY DEF GrokInv
<1>3. PICK more \in Seq(Happenings) : more = Append(l, e) /\ log' = more
  BY <1>1, <1>2 DEF Noted
<1>4. PICK N \in Nat : N = Len(l) /\ Len(more) = N + 1 /\ more[N + 1] = e
  BY <1>3
<1>5. Row(l, N) = failures /\ failures \in Nat /\ OpenedBy(l) = openedAt
  BY <1>2, <1>4 DEF GrokInv
<1>6. Row(more, N + 1) = IF e.what = "failure" THEN Row(l, N) + 1 ELSE 0
  <2>1. Row(Append(l, e), Len(l) + 1) = IF e.what = "failure" THEN Row(l, Len(l)) + 1 ELSE 0
    BY RowAppend
  <2>. QED  BY <1>3, <1>4, <2>1
<1>7. e.what = what /\ e.time = clock
  BY <1>1
<1>8. failures' \in Nat /\ failures' = Row(more, N + 1)
  BY <1>5, <1>6, <1>7
<1>9. /\ what = "reset" => Openings(more) = {}
      /\ what = "success" => Openings(more) = Openings(l)
      /\ what = "failure" =>
            Openings(more) = IF failures + 1 >= Threshold
                             THEN Openings(l) \cup {N + 1} ELSE Openings(l)
  <2>1. /\ e.what = "reset" => Openings(Append(l, e)) = {}
        /\ e.what = "success" => Openings(Append(l, e)) = Openings(l)
        /\ e.what = "failure" =>
              Openings(Append(l, e)) = IF Row(l, Len(l)) + 1 >= Threshold
                                       THEN Openings(l) \cup {Len(l) + 1} ELSE Openings(l)
    BY OpeningsAppend
  <2>. QED  BY <1>3, <1>4, <1>5, <1>7, <2>1
<1>10. openedAt' = OpenedBy(more)
  <2>1. CASE what = "reset"
    BY <1>9, <2>1 DEF OpenedBy
  <2>2. CASE what = "failure" /\ failures + 1 >= Threshold
    <3>1. Openings(l) \subseteq 1 .. N
      BY <1>4 DEF Openings
    <3>2. PICK S : S = Openings(more) /\ S = Openings(l) \cup {N + 1}
      BY <1>9, <2>2
    <3>3. N + 1 \in S /\ \A j \in S : j \in 1 .. N + 1
      BY <3>1, <3>2
    <3>4. LastOf(S) = N + 1
      <4>1. \A j \in S : j <= N + 1
        BY <3>3
      <4>2. \A i \in S : (\A j \in S : j <= i) => i = N + 1
        BY <3>3
      <4>. QED  BY <3>3, <4>1, <4>2 DEF LastOf
    <3>. QED  BY <1>4, <1>7, <2>2, <3>2, <3>3, <3>4 DEF OpenedBy
  <2>3. CASE what = "success" \/ (what = "failure" /\ ~ (failures + 1 >= Threshold))
    <3>1. Openings(Append(l, e)) = Openings(l)
      BY <1>3, <1>9, <2>3
    <3>2. OpenedBy(Append(l, e)) = OpenedBy(l)
      BY <3>1, OpenedAsBefore
    <3>. QED  BY <1>3, <1>5, <2>3, <3>2
  <2>. QED  BY <2>1, <2>2, <2>3
<1>. QED  BY <1>3, <1>4, <1>8, <1>10

\* A breaker that lets somebody pass has kept its count, or started anew.
LEMMA AvailableKeeps ==
    ASSUME GrokInv, Available
    PROVE  /\ log' \in Seq(Happenings) /\ failures' \in Nat
           /\ failures' = Row(log', Len(log')) /\ openedAt' = OpenedBy(log')
<1>1. CASE UNCHANGED <<failures, openedAt, log>>
  BY <1>1 DEF GrokInv
<1>2. CASE openedAt' = NotOpen /\ failures' = 0 /\ Noted("reset")
  BY <1>2, NotedKeeps
<1>. QED  BY <1>1, <1>2 DEF Available

\* A completion that asks the breaker is let through or refused.
LEMMA AskKeeps ==
    ASSUME GrokInv, NEW s \in GrokSessions, Ask(s)
    PROVE  GrokInv'
<1>1. /\ log' \in Seq(Happenings) /\ failures' \in Nat
      /\ failures' = Row(log', Len(log')) /\ openedAt' = OpenedBy(log')
  <2>1. CASE Available
    BY <2>1, AvailableKeeps
  <2>2. CASE UNCHANGED <<failures, openedAt, log>>
    BY <2>2 DEF GrokInv
  <2>. QED  BY <2>1, <2>2 DEF Ask
<1>2. /\ attempt' = [attempt EXCEPT ![s] = 0]
      /\ stage' = [stage EXCEPT ![s] = "streaming"] \/ stage' = stage
      /\ stage[s] = "idle" /\ clock' = clock
  BY DEF Ask
<1>3. attempt' \in [GrokSessions -> Nat] /\ stage' \in [GrokSessions -> Phases]
  BY <1>2 DEF GrokInv, Phases
<1>4. \A t \in GrokSessions : /\ attempt'[t] <= MaxRetries
                              /\ stage'[t] = "backoff" => attempt'[t] < MaxRetries
  <2>1. MaxRetries \in Nat
    BY GrokAssumption
  <2>. QED  BY <1>2, <2>1 DEF GrokInv
<1>. QED  BY <1>1, <1>2, <1>3, <1>4 DEF GrokInv

\* The other steps of a completion.
LEMMA StreamKeeps ==
    ASSUME GrokInv, NEW s \in GrokSessions,
           UsageArrives(s) \/ Done(s) \/ EndsEarly(s) \/ Breaks(s) \/ Retry(s)
    PROVE  GrokInv'
<1>1. /\ log' \in Seq(Happenings) /\ failures' \in Nat
      /\ failures' = Row(log', Len(log')) /\ openedAt' = OpenedBy(log')
  <2>1. CASE Done(s)
    <3>1. failures' = 0 /\ Noted("success") /\ openedAt' = openedAt
      BY <2>1 DEF Done
    <3>. QED  BY <3>1, NotedKeeps
  <2>2. CASE Breaks(s)
    <3>1. /\ failures' = failures + 1 /\ Noted("failure")
          /\ openedAt' = IF failures + 1 >= Threshold THEN clock ELSE openedAt
      BY <2>2 DEF Breaks, RecordFailure
    <3>. QED  BY <3>1, NotedKeeps
  <2>3. CASE UsageArrives(s) \/ EndsEarly(s) \/ Retry(s)
    <3>1. UNCHANGED <<failures, openedAt, log>>
      BY <2>3 DEF UsageArrives, EndsEarly, Retry
    <3>. QED  BY <3>1 DEF GrokInv
  <2>. QED  BY <2>1, <2>2, <2>3
<1>2. /\ clock' = clock /\ \/ attempt' = attempt
                           \/ stage[s] = "backoff" /\ attempt' = [attempt EXCEPT ![s] = @ + 1]
                              /\ stage' = [stage EXCEPT ![s] = "streaming"]
      /\ \/ stage' = stage
         \/ \E p \in {"idle", "streaming"} : stage' = [stage EXCEPT ![s] = p]
         \/ ~ (attempt[s] >= MaxRetries) /\ attempt' = attempt
            /\ stage' = [stage EXCEPT ![s] = "backoff"]
  BY DEF UsageArrives, Done, EndsEarly, Breaks, Retry, Ends
<1>3. attempt' \in [GrokSessions -> Nat] /\ stage' \in [GrokSessions -> Phases]
  <2>1. attempt' \in [GrokSessions -> Nat]
    BY <1>2 DEF GrokInv
  <2>2. stage' \in [GrokSessions -> Phases]
    BY <1>2 DEF GrokInv, Phases
  <2>. QED  BY <2>1, <2>2
<1>4. \A t \in GrokSessions : /\ attempt'[t] <= MaxRetries
                              /\ stage'[t] = "backoff" => attempt'[t] < MaxRetries
  <2>1. MaxRetries \in Nat
    BY GrokAssumption
  <2>. QED  BY <1>2, <2>1 DEF GrokInv
<1>. QED  BY <1>1, <1>2, <1>3, <1>4 DEF GrokInv

\* Every step keeps the breaker's invariant.
LEMMA GrokStep == GrokInv /\ [GrokNext]_grokVars => GrokInv'
<1> SUFFICES ASSUME GrokInv, [GrokNext]_grokVars PROVE GrokInv'
  OBVIOUS
<1>1. CASE UNCHANGED grokVars
  BY <1>1 DEF grokVars, GrokInv
<1>2. CASE ProbeGrok
  <2>1. /\ log' \in Seq(Happenings) /\ failures' \in Nat
        /\ failures' = Row(log', Len(log')) /\ openedAt' = OpenedBy(log')
    BY <1>2, AvailableKeeps DEF ProbeGrok
  <2>. QED  BY <1>2, <2>1 DEF ProbeGrok, GrokInv
<1>3. CASE TimePasses
  BY <1>3 DEF TimePasses, GrokInv
<1>4. ASSUME NEW s \in GrokSessions, Ask(s) PROVE GrokInv'
  BY <1>4, AskKeeps
<1>5. ASSUME NEW s \in GrokSessions,
             UsageArrives(s) \/ Done(s) \/ EndsEarly(s) \/ Breaks(s) \/ Retry(s)
      PROVE  GrokInv'
  BY <1>5, StreamKeeps
<1>. QED  BY <1>1, <1>2, <1>3, <1>4, <1>5 DEF GrokNext

\* A new breaker is closed, and its log empty.
LEMMA InitGrok == GrokInit => GrokInv
<1> SUFFICES ASSUME GrokInit PROVE GrokInv
  OBVIOUS
<1>1. log = <<>> /\ Len(log) = 0 /\ DOMAIN log = {} /\ log \in Seq(Happenings)
  BY DEF GrokInit
<1>2. Row(log, 0) = 0
  <2>1. {i \in 1 .. 0 : \A j \in i .. 0 : log[j].what = "failure"} = {}
    OBVIOUS
  <2>. QED  BY <2>1, FS_EmptySet DEF Row
<1>3. OpenedBy(log) = NotOpen
  BY <1>1 DEF OpenedBy, Openings
<1>. QED  BY <1>1, <1>2, <1>3, GrokAssumption DEF GrokInit, GrokInv, Phases

\* See BreakerCounts: the breaker is what its constants say, however many
\* completions fail, succeed and are retried at once.
THEOREM BreakerExact == GrokSpec => []BreakerCounts
<1>1. GrokInv => BreakerCounts
  <2> SUFFICES ASSUME GrokInv PROVE BreakerCounts
    OBVIOUS
  <2>1. InARow(Len(log)) = Row(log, Len(log)) /\ Openers = Openings(log)
    BY DEF InARow, Row, Openers, Openings
  <2>. QED  BY <2>1 DEF GrokInv, BreakerCounts, OpenedBy, LastOf
<1>. QED  BY InitGrok, GrokStep, <1>1, PTL DEF GrokSpec

-----------------------------------------------------------------------------
(* Speech recognition. *)

Requests == {"idle", "waiting", "woken", "thread"}
Threads == {"none", "submitted", "generating", "done", "failed"}

\* Who stands in the gate's line, and who has a permit, with these requests.
InLine(requests) == {c \in AsrCalls : requests[c] \in {"waiting", "woken"}}
Holding(requests) == {c \in AsrCalls : requests[c] \in {"woken", "thread"}}

\* A line and requests that agree, with free permits besides those held.
Balanced(line, requests, free) ==
    /\ line \in Seq(AsrCalls) /\ IsInjective(line)
    /\ requests \in [AsrCalls -> Requests]
    /\ ToSet(line) = InLine(requests)
    /\ IsFiniteSet(Holding(requests))
    /\ free \in Nat /\ free + Cardinality(Holding(requests)) = MaxBatch

Gate ==
    /\ Balanced(waiters, request, permits)
    /\ permits > 0 => \/ \A c \in AsrCalls : request[c] # "waiting"
                      \/ \E c \in AsrCalls : request[c] = "woken"

\* A thread that generates has the model object of its own call, and its own
\* state on it.
Generating ==
    /\ thread \in [AsrCalls -> Threads]
    /\ DOMAIN view = AsrCalls /\ view = [c \in AsrCalls |-> view[c]]
    /\ DOMAIN workingState = Models /\ workingState = [m \in Models |-> workingState[m]]
    /\ \A c \in AsrCalls : thread[c] = "generating" => view[c] = c /\ workingState[c] = c

\* A handler that is not in flush() is about no audio.
Frames ==
    /\ {chunks, audio, settled} \subseteq [AsrCalls -> Seq(Nat)]
    /\ pushed \in [AsrCalls -> Nat]
    /\ \A c \in AsrCalls : request[c] = "idle" => audio[c] = <<>>
    /\ FramesOnce

AsrInv == Gate /\ Generating /\ Frames

\* The places that are woken are as many as there are permits for, at most, and
\* one of them at least while somebody sleeps.
LEMMA FirstAsleepIs ==
    ASSUME NEW line \in Seq(AsrCalls), NEW requests, NEW n \in Nat,
           NEW given, given = FirstAsleep(line, requests, n)
    PROVE  /\ given \subseteq DOMAIN line /\ IsFiniteSet(given) /\ Cardinality(given) \in 0 .. n
           /\ \A k \in given : requests[line[k]] = "waiting"
           /\ n > 0 /\ (\E k \in DOMAIN line : requests[line[k]] = "waiting") => given # {}
<1> DEFINE asleep == {k \in DOMAIN line : requests[line[k]] = "waiting"}
           Upto(k) == {j \in 1 .. k : requests[line[j]] = "waiting"}
<1>n. PICK L \in Nat : L = Len(line) /\ DOMAIN line = 1 .. L
  OBVIOUS
<1>f. IsFiniteSet(1 .. L)
  BY FS_Interval
<1>u. \A k \in 1 .. L : IsFiniteSet(Upto(k)) /\ Cardinality(Upto(k)) \in Nat
  <2> TAKE k \in 1 .. L
  <2>1. IsFiniteSet(1 .. k) /\ Upto(k) \subseteq 1 .. k
    BY FS_Interval
  <2>. QED  BY <2>1, FS_Subset, FS_CardinalityType
<1>1. /\ given \subseteq asleep /\ asleep \subseteq 1 .. L
      /\ \A k \in asleep : k \in given <=> Cardinality(Upto(k)) <= n
  BY <1>n DEF FirstAsleep
<1>2. IsFiniteSet(given) /\ Cardinality(given) \in Nat
  BY <1>f, <1>1, FS_Subset, FS_CardinalityType
<1>3. Cardinality(given) <= n
  <2>1. CASE given = {}
    BY <2>1, FS_EmptySet
  <2>2. CASE given # {}
    <3>1. given \in SUBSET (0 .. L)
      BY <1>1
    <3>2. PICK m \in given : \A k \in given : k <= m
      BY <2>2, <3>1, GreatestNumber
    <3>3. given \subseteq Upto(m)
      BY <1>1, <3>1, <3>2
    <3>4. m \in 1 .. L /\ Cardinality(Upto(m)) <= n
      BY <1>1, <3>2
    <3>5. Cardinality(given) <= Cardinality(Upto(m))
      BY <1>u, <3>3, <3>4, FS_Subset
    <3>6. Cardinality(Upto(m)) \in Nat
      BY <1>u, <3>4
    <3> HIDE DEF Upto
    <3>. QED  BY <1>2, <3>4, <3>5, <3>6
  <2>. QED  BY <2>1, <2>2
<1>4. ASSUME n > 0, asleep # {} PROVE given # {}
  <2>1. asleep \in SUBSET Nat
    BY <1>1
  <2>2. PICK k \in asleep : \A j \in asleep : k <= j
    BY <1>4, <2>1, LeastNumber
  <2>3. k \in 1 .. L
    BY <1>1
  <2>4. Upto(k) \subseteq {k}
    <3> SUFFICES ASSUME NEW j \in Upto(k) PROVE j = k
      OBVIOUS
    <3>0. j \in 1 .. k /\ requests[line[j]] = "waiting"
      OBVIOUS
    <3>1. j \in asleep /\ j <= k
      BY <1>n, <2>3, <3>0
    <3>. QED  BY <2>1, <2>2, <3>1
  <2>5. Cardinality(Upto(k)) <= 1
    <3>1. IsFiniteSet({k}) /\ Cardinality({k}) = 1
      BY FS_Singleton
    <3>. QED  BY <2>4, <3>1, FS_Subset
  <2>6. Cardinality(Upto(k)) <= n
    <3>1. Cardinality(Upto(k)) \in Nat
      BY <1>u, <2>3
    <3> HIDE DEF Upto
    <3>. QED  BY <1>4, <2>5, <3>1
  <2>. QED  BY <1>1, <2>2, <2>6
<1>5. \A k \in asleep : requests[line[k]] = "waiting"
  OBVIOUS
<1>. QED  BY <1>n, <1>1, <1>2, <1>3, <1>4, <1>5

\* The permits that are handed out change hands, and no more; while one is
\* left, nobody sleeps but behind a waiter that was woken.
LEMMA HandKeeps ==
    ASSUME NEW line, NEW requests, NEW free, NEW limit \in Nat \ {0},
           Balanced(line, requests, free), Hand(line, requests, free, limit)
    PROVE  Gate' /\ \A c \in AsrCalls : request'[c] = "idle" <=> requests[c] = "idle"
<1>1. /\ line \in Seq(AsrCalls) /\ IsInjective(line) /\ requests \in [AsrCalls -> Requests]
      /\ ToSet(line) = InLine(requests) /\ IsFiniteSet(Holding(requests))
      /\ free \in Nat /\ free + Cardinality(Holding(requests)) = MaxBatch
  BY DEF Balanced
<1>2. PICK n \in Nat : n = Min({free, limit}) /\ n <= free /\ (free > 0 => n > 0)
  <2>1. \E x \in {free, limit} : \A y \in {free, limit} : x <= y
    BY <1>1
  <2>2. Min({free, limit}) \in {free, limit} /\ \A y \in {free, limit} : Min({free, limit}) <= y
    BY <2>1 DEF Min
  <2>3. /\ Min({free, limit}) \in Nat /\ Min({free, limit}) <= free
        /\ free > 0 => Min({free, limit}) > 0
    BY <1>1, <2>2
  <2>. QED  BY <2>3
<1>3. PICK given : given = FirstAsleep(line, requests, n)
  OBVIOUS
<1>4. /\ given \subseteq DOMAIN line /\ IsFiniteSet(given) /\ Cardinality(given) \in 0 .. n
      /\ \A k \in given : requests[line[k]] = "waiting"
      /\ n > 0 /\ (\E k \in DOMAIN line : requests[line[k]] = "waiting") => given # {}
  BY <1>1, <1>3, FirstAsleepIs
<1>5. PICK new : new = [d \in AsrCalls |-> IF \E k \in given : line[k] = d THEN "woken" ELSE requests[d]]
  OBVIOUS
<1>6. waiters' = line /\ permits' = free - Cardinality(given) /\ request' = new
  BY <1>2, <1>3, <1>5 DEF Hand
<1> DEFINE W == {line[k] : k \in given}
<1>7. /\ W \subseteq AsrCalls /\ \A d \in W : requests[d] = "waiting"
      /\ \A d \in AsrCalls : new[d] = IF d \in W THEN "woken" ELSE requests[d]
  BY <1>1, <1>4, <1>5
<1>8. IsFiniteSet(W) /\ Cardinality(W) = Cardinality(given)
  <2> DEFINE f == [k \in given |-> line[k]]
  <2>1. f \in [given -> W] /\ \A x, y \in given : f[x] = f[y] => x = y
    BY <1>1, <1>4 DEF IsInjective
  <2>2. \A d \in W : \E k \in given : f[k] = d
    OBVIOUS
  <2>3. f \in Bijection(given, W)
    BY <2>1, <2>2 DEF Bijection, Injection, Surjection, IsInjective
  <2>4. ExistsBijection(given, W)
    BY <2>3 DEF ExistsBijection
  <2>. QED  BY <1>4, <2>4, FS_Bijection
<1> HIDE DEF W
<1>9. Holding(new) = Holding(requests) \cup W /\ Holding(requests) \cap W = {}
  BY <1>7 DEF Holding
<1>10. /\ IsFiniteSet(Holding(new))
       /\ Cardinality(Holding(new)) = Cardinality(Holding(requests)) + Cardinality(W)
  <2>1. /\ IsFiniteSet(Holding(requests) \cup W)
        /\ Cardinality(Holding(requests) \cup W)
              = Cardinality(Holding(requests)) + Cardinality(W) - Cardinality(Holding(requests) \cap W)
    BY <1>1, <1>8, FS_Union
  <2>2. Cardinality(Holding(requests)) \in Nat /\ Cardinality(W) \in Nat
    BY <1>1, <1>8, FS_CardinalityType
  <2>3. Cardinality(Holding(requests) \cap W) = 0
    BY <1>9, FS_EmptySet
  <2>. QED  BY <1>9, <2>1, <2>2, <2>3
<1>11. new \in [AsrCalls -> Requests] /\ InLine(new) = InLine(requests)
  BY <1>1, <1>5, <1>7 DEF InLine, Requests
<1>12. /\ free - Cardinality(given) \in Nat
       /\ free - Cardinality(given) + Cardinality(Holding(new)) = MaxBatch
  <2>1. Cardinality(Holding(requests)) \in Nat /\ Cardinality(given) \in Nat /\ Cardinality(given) <= free
    BY <1>1, <1>2, <1>4, FS_CardinalityType
  <2>. QED  BY <1>1, <1>8, <1>10, <2>1
<1>13. Balanced(line, new, free - Cardinality(given))
  BY <1>1, <1>10, <1>11, <1>12 DEF Balanced
<1>14. ASSUME free - Cardinality(given) > 0, NEW c \in AsrCalls, new[c] = "waiting"
       PROVE  \E d \in AsrCalls : new[d] = "woken"
  <2>1. c \in ToSet(line) /\ requests[c] = "waiting"
    BY <1>1, <1>7, <1>11, <1>14 DEF InLine
  <2>2. \E k \in DOMAIN line : requests[line[k]] = "waiting"
    BY <2>1 DEF ToSet
  <2>3. free > 0
    BY <1>1, <1>4, <1>14
  <2>4. PICK k \in given : TRUE
    BY <1>2, <1>4, <2>2, <2>3
  <2>5. line[k] \in W
    BY <2>4 DEF W
  <2>. QED  BY <1>7, <2>5
<1>15. Gate'
  <2>1. Balanced(waiters, request, permits)'
    BY <1>6, <1>13 DEF Balanced
  <2>2. permits' > 0 => \/ \A c \in AsrCalls : request'[c] # "waiting"
                        \/ \E c \in AsrCalls : request'[c] = "woken"
    BY <1>6, <1>14
  <2>. QED  BY <2>1, <2>2 DEF Gate
<1>16. \A c \in AsrCalls : new[c] = "idle" <=> requests[c] = "idle"
  BY <1>7
<1>. QED  BY <1>6, <1>15, <1>16

\* A handler that leaves the line, for its transcription or for good, leaves
\* line and requests in agreement.
LEMMA StepsOut ==
    ASSUME Gate, NEW c \in AsrCalls, NEW s \in {"thread", "idle"},
           s = "thread" => request[c] = "woken",
           NEW line \in Seq(AsrCalls), IsInjective(line), ToSet(line) = ToSet(waiters) \ {c},
           NEW free, free = permits + IF request[c] \in {"woken", "thread"} /\ s = "idle" THEN 1 ELSE 0
    PROVE  Balanced(line, [request EXCEPT ![c] = s], free)
<1>1. /\ request \in [AsrCalls -> Requests] /\ ToSet(waiters) = InLine(request)
      /\ IsFiniteSet(Holding(request)) /\ Cardinality(Holding(request)) \in Nat
      /\ permits \in Nat /\ permits + Cardinality(Holding(request)) = MaxBatch
  BY FS_CardinalityType DEF Gate, Balanced
<1>2. PICK new : new = [request EXCEPT ![c] = s]
  OBVIOUS
<1>3. new \in [AsrCalls -> Requests] /\ InLine(new) = ToSet(line)
  BY <1>1, <1>2 DEF InLine, Requests
<1>4. CASE request[c] \in {"woken", "thread"} /\ s = "idle"
  <2>1. Holding(new) = Holding(request) \ {c} /\ c \in Holding(request)
    BY <1>1, <1>2, <1>4 DEF Holding
  <2>2. IsFiniteSet(Holding(new)) /\ Cardinality(Holding(new)) = Cardinality(Holding(request)) - 1
    BY <1>1, <2>1, FS_RemoveElement
  <2>3. free = permits + 1
    BY <1>4
  <2>4. free \in Nat /\ free + Cardinality(Holding(new)) = MaxBatch
    BY <1>1, <2>2, <2>3
  <2>5. Balanced(line, new, free)
    BY <1>3, <2>2, <2>4 DEF Balanced
  <2>. QED  BY <1>2, <2>5
<1>5. CASE ~ (request[c] \in {"woken", "thread"} /\ s = "idle")
  <2>1. Holding(new) = Holding(request)
    BY <1>1, <1>2, <1>5 DEF Holding
  <2>2. free = permits
    BY <1>1, <1>5
  <2>3. Balanced(line, new, free)
    BY <1>1, <1>3, <2>1, <2>2 DEF Balanced
  <2>. QED  BY <1>2, <2>3
<1>. QED  BY <1>4, <1>5

\* The steps through the gate.
LEMMA FlushGate ==
    ASSUME Gate, NEW c \in AsrCalls, FlushSpeech(c)
    PROVE  Gate'
<1>1. /\ waiters \in Seq(AsrCalls) /\ IsInjective(waiters)
      /\ request \in [AsrCalls -> Requests] /\ ToSet(waiters) = InLine(request)
      /\ IsFiniteSet(Holding(request)) /\ Cardinality(Holding(request)) \in Nat
      /\ permits \in Nat /\ permits + Cardinality(Holding(request)) = MaxBatch
  BY FS_CardinalityType DEF Gate, Balanced
<1>2. request[c] = "idle" /\ c \notin Holding(request) /\ c \notin InLine(request)
  BY DEF FlushSpeech, Holding, InLine
<1>3. CASE permits > 0 /\ waiters = <<>>
  <2>1. permits' = permits - 1 /\ waiters' = <<>>
    BY <1>3 DEF FlushSpeech
  <2>2. PICK new : new = [request EXCEPT ![c] = "thread"] /\ request' = new
    BY <1>3 DEF FlushSpeech
  <2>3. InLine(request) = {} /\ ToSet(<<>>) = {}
    BY <1>1, <1>3 DEF ToSet
  <2>4. InLine(new) = {} /\ new \in [AsrCalls -> Requests]
    BY <1>1, <2>2, <2>3 DEF InLine, Requests
  <2>5. Holding(new) = Holding(request) \cup {c}
    BY <1>1, <2>2 DEF Holding
  <2>6. /\ IsFiniteSet(Holding(new))
        /\ Cardinality(Holding(new)) = Cardinality(Holding(request)) + 1
    BY <1>1, <1>2, <2>5, FS_AddElement
  <2>7. permits - 1 \in Nat /\ permits - 1 + Cardinality(Holding(new)) = MaxBatch
    BY <1>1, <1>3, <2>6
  <2>8. Balanced(<<>>, new, permits - 1)
    BY <1>1, <1>3, <2>3, <2>4, <2>6, <2>7 DEF Balanced
  <2>9. \A d \in AsrCalls : new[d] # "waiting"
    BY <2>4 DEF InLine
  <2>10. Balanced(waiters, request, permits)'
    BY <2>1, <2>2, <2>8 DEF Balanced
  <2>. QED  BY <2>2, <2>9, <2>10 DEF Gate
<1>4. CASE ~ (permits > 0 /\ waiters = <<>>)
  <2>1. permits' = permits
    BY <1>4 DEF FlushSpeech
  <2>2. PICK line : line = Append(waiters, c) /\ waiters' = line
    BY <1>4 DEF FlushSpeech
  <2>3. PICK new : new = [request EXCEPT ![c] = "waiting"] /\ request' = new
    BY <1>4 DEF FlushSpeech
  <2>4. ToSet(line) = ToSet(waiters) \cup {c} /\ IsInjective(line) /\ line \in Seq(AsrCalls)
    <3>1. waiters \in Seq(AsrCalls) /\ IsInjective(waiters) /\ c \notin ToSet(waiters)
      BY <1>1, <1>2
    <3>2. ToSet(line) = ToSet(waiters) \cup {c} /\ IsInjective(line)
      BY <2>2, <3>1, JoinLine
    <3>3. line \in Seq(AsrCalls)
      BY <2>2, <3>1
    <3>. QED  BY <3>2, <3>3
  <2>5. /\ InLine(new) = InLine(request) \cup {c} /\ Holding(new) = Holding(request)
        /\ new \in [AsrCalls -> Requests]
    BY <1>1, <1>2, <2>3 DEF InLine, Holding, Requests
  <2>6. Balanced(line, new, permits)
    BY <1>1, <2>4, <2>5 DEF Balanced
  <2>7. ASSUME permits > 0 PROVE \E d \in AsrCalls : new[d] = "woken"
    <3>1. waiters[1] \in InLine(request)
      BY <1>1, <1>4, <2>7 DEF ToSet
    <3>2. PICK d \in AsrCalls : request[d] = "woken"
      BY <2>7, <3>1 DEF Gate, InLine
    <3>. QED  BY <1>1, <1>2, <2>3, <3>2
  <2>8. Balanced(waiters, request, permits)'
    BY <2>1, <2>2, <2>3, <2>6 DEF Balanced
  <2>. QED  BY <2>1, <2>3, <2>7, <2>8 DEF Gate
<1>. QED  BY <1>3, <1>4

\* A handler that was woken goes through the gate to its thread.
LEMMA EnterKeeps ==
    ASSUME Gate, NEW c \in AsrCalls, EnterGate(c)
    PROVE  Gate' /\ \A d \in AsrCalls : request'[d] = "idle" <=> request[d] = "idle"
<1>1. waiters \in Seq(AsrCalls) /\ IsInjective(waiters) /\ request \in [AsrCalls -> Requests]
  BY DEF Gate, Balanced
<1>2. PICK line : line = RemoveFirst(waiters, c)
  OBVIOUS
<1>3. line \in Seq(AsrCalls) /\ IsInjective(line) /\ ToSet(line) = ToSet(waiters) \ {c}
  BY <1>1, <1>2, LeaveLine
<1>4. PICK new : new = [request EXCEPT ![c] = "thread"]
  OBVIOUS
<1>5. request[c] = "woken" /\ Hand(line, new, permits, MaxBatch)
  BY <1>2, <1>4 DEF EnterGate
<1>6. permits = permits + 0
  BY DEF Gate, Balanced
<1>7. Balanced(line, new, permits)
  BY <1>3, <1>4, <1>5, <1>6, StepsOut
<1>8. Gate' /\ \A d \in AsrCalls : request'[d] = "idle" <=> new[d] = "idle"
  BY <1>5, <1>7, AsrAssumption, HandKeeps
<1>. QED  BY <1>1, <1>4, <1>5, <1>8

\* A transcription that was answered gives its permit to the next.
LEMMA AnsweredKeeps ==
    ASSUME Gate, NEW c \in AsrCalls, Answered(c)
    PROVE  Gate' /\ \A d \in AsrCalls : request'[d] = "idle" <=> d = c \/ request[d] = "idle"
<1>1. /\ waiters \in Seq(AsrCalls) /\ IsInjective(waiters) /\ request \in [AsrCalls -> Requests]
      /\ ToSet(waiters) = InLine(request)
  BY DEF Gate, Balanced
<1>4. PICK new : new = [request EXCEPT ![c] = "idle"]
  OBVIOUS
<1>5. request[c] = "thread" /\ Hand(waiters, new, permits + 1, 1)
  BY <1>4 DEF Answered
<1>6. ToSet(waiters) = ToSet(waiters) \ {c}
  BY <1>1, <1>5 DEF InLine
<1>7. Balanced(waiters, new, permits + 1)
  BY <1>1, <1>4, <1>5, <1>6, StepsOut
<1>8. Gate' /\ \A d \in AsrCalls : request'[d] = "idle" <=> new[d] = "idle"
  BY <1>5, <1>7, HandKeeps
<1>. QED  BY <1>1, <1>4, <1>8

\* A handler that is cancelled leaves the line, or gives its permit back.
LEMMA CancelKeeps ==
    ASSUME Gate, NEW c \in AsrCalls, CancelFlush(c)
    PROVE  Gate' /\ \A d \in AsrCalls : request'[d] = "idle" <=> d = c \/ request[d] = "idle"
<1>1. waiters \in Seq(AsrCalls) /\ IsInjective(waiters) /\ request \in [AsrCalls -> Requests]
  BY DEF Gate, Balanced
<1>2. PICK line : line = RemoveFirst(waiters, c)
  OBVIOUS
<1>3. line \in Seq(AsrCalls) /\ IsInjective(line) /\ ToSet(line) = ToSet(waiters) \ {c}
  BY <1>1, <1>2, LeaveLine
<1>4. PICK new : new = [request EXCEPT ![c] = "idle"]
  OBVIOUS
<1>5. PICK free : free = permits + (IF request[c] = "waiting" THEN 0 ELSE 1)
  OBVIOUS
<1>6. PICK limit \in Nat \ {0} : limit = IF request[c] = "thread" THEN 1 ELSE MaxBatch
  BY AsrAssumption
<1>7. Hand(line, new, free, limit) /\ request[c] # "idle"
  BY <1>2, <1>4, <1>5, <1>6 DEF CancelFlush
<1>8. free = permits + IF request[c] \in {"woken", "thread"} /\ "idle" = "idle" THEN 1 ELSE 0
  BY <1>1, <1>5, <1>7 DEF Requests
<1>9. Balanced(line, new, free)
  BY <1>3, <1>4, <1>8, StepsOut
<1>10. Gate' /\ \A d \in AsrCalls : request'[d] = "idle" <=> new[d] = "idle"
  BY <1>6, <1>7, <1>9, HandKeeps
<1>. QED  BY <1>1, <1>4, <1>10

\* Whatever the step, the gate stays balanced.
LEMMA GateStep == Gate /\ [AsrNext]_asrVars => Gate'
<1> SUFFICES ASSUME Gate, [AsrNext]_asrVars PROVE Gate'
  OBVIOUS
<1>1. CASE UNCHANGED <<permits, waiters, request>>
  BY <1>1 DEF Gate, Balanced
<1>2. ASSUME NEW c \in AsrCalls, FlushSpeech(c) PROVE Gate'
  BY <1>2, FlushGate
<1>3. ASSUME NEW c \in AsrCalls, EnterGate(c) PROVE Gate'
  BY <1>3, EnterKeeps
<1>4. ASSUME NEW c \in AsrCalls, Answered(c) PROVE Gate'
  BY <1>4, AnsweredKeeps
<1>5. ASSUME NEW c \in AsrCalls, CancelFlush(c) PROVE Gate'
  BY <1>5, CancelKeeps
<1>6. ASSUME NEW c \in AsrCalls,
             PushFrame(c) \/ GenerateStarts(c) \/ GenerateEnds(c) \/ CloseAsr(c)
      PROVE  UNCHANGED <<permits, waiters, request>>
  BY <1>6 DEF PushFrame, GenerateStarts, GenerateEnds, CloseAsr, gateVars
<1>7. CASE UnloadAsr \/ UNCHANGED asrVars
  BY <1>1, <1>7 DEF UnloadAsr, asrVars, gateVars
<1>. QED  BY <1>1, <1>2, <1>3, <1>4, <1>5, <1>6, <1>7 DEF AsrNext

\* Whatever the step, a generation keeps the state it works with.
LEMMA GeneratingStep == Generating /\ [AsrNext]_asrVars => Generating'
<1> SUFFICES ASSUME Generating, [AsrNext]_asrVars PROVE Generating'
  OBVIOUS
<1>1. CASE UNCHANGED <<thread, view, workingState>>
  BY <1>1 DEF Generating
<1>2. ASSUME NEW c \in AsrCalls, GenerateStarts(c) PROVE Generating'
  <2>1. CASE loaded
    <3>1. /\ thread' = [thread EXCEPT ![c] = "generating"] /\ view' = [view EXCEPT ![c] = c]
          /\ workingState' = [workingState EXCEPT ![c] = c]
      BY <1>2, <2>1 DEF GenerateStarts, ViewOf
    <3>2. thread' \in [AsrCalls -> Threads]
      BY <3>1 DEF Generating, Threads
    <3>3. /\ DOMAIN view' = AsrCalls /\ view' = [d \in AsrCalls |-> view'[d]]
          /\ DOMAIN workingState' = Models /\ workingState' = [m \in Models |-> workingState'[m]]
      BY <3>1 DEF Generating
    <3>4. \A d \in AsrCalls : thread'[d] = "generating" => view'[d] = d /\ workingState'[d] = d
      BY <3>1 DEF Generating, Models
    <3>. QED  BY <3>2, <3>3, <3>4 DEF Generating
  <2>2. CASE ~loaded
    <3>1. /\ thread' = [thread EXCEPT ![c] = "failed"] /\ UNCHANGED <<view, workingState>>
      BY <1>2, <2>2 DEF GenerateStarts
    <3>. QED  BY <3>1 DEF Generating, Threads
  <2>. QED  BY <2>1, <2>2
<1>3. ASSUME NEW c \in AsrCalls, GenerateEnds(c) PROVE Generating'
  <2>1. /\ thread[c] = "generating" /\ view' = view
        /\ workingState' = [workingState EXCEPT ![c] = NoOne]
    BY <1>3 DEF GenerateEnds, Generating
  <2>2. PICK result \in {"done", "failed"} : thread' = [thread EXCEPT ![c] = result]
    BY <1>3 DEF GenerateEnds
  <2>3. thread' \in [AsrCalls -> Threads]
    BY <2>2 DEF Generating, Threads
  <2>4. DOMAIN workingState' = Models /\ workingState' = [m \in Models |-> workingState'[m]]
    BY <2>1 DEF Generating
  <2>5. \A d \in AsrCalls : thread'[d] = "generating" => view'[d] = d /\ workingState'[d] = d
    BY <2>1, <2>2 DEF Generating, Models
  <2>. QED  BY <2>1, <2>3, <2>4, <2>5 DEF Generating
<1>4. ASSUME NEW c \in AsrCalls,
             FlushSpeech(c) \/ EnterGate(c) \/ Answered(c) \/ CancelFlush(c)
      PROVE  Generating'
  <2>1. /\ UNCHANGED <<view, workingState>>
        /\ \/ thread' = thread
           \/ \E t \in {"none", "submitted"} : thread' = [thread EXCEPT ![c] = t]
    BY <1>4 DEF FlushSpeech, EnterGate, Answered, CancelFlush, Generating
  <2>. QED  BY <2>1 DEF Generating, Threads
<1>5. ASSUME NEW c \in AsrCalls, PushFrame(c) \/ CloseAsr(c)
      PROVE  UNCHANGED <<thread, view, workingState>>
  BY <1>5 DEF PushFrame, CloseAsr, threadVars
<1>6. CASE UnloadAsr \/ UNCHANGED asrVars
  BY <1>1, <1>6 DEF UnloadAsr, asrVars
<1>. QED  BY <1>1, <1>2, <1>3, <1>4, <1>5, <1>6 DEF AsrNext

\* The frames that are settled, taken up and waiting are the first n, in order.
Told(s, a, q, n) == s \o a \o q = [k \in 1 .. n |-> k]

\* One more frame behind those that are numbered.
LEMMA NextFrame ==
    ASSUME NEW s \in Seq(Nat), NEW a \in Seq(Nat), NEW q \in Seq(Nat), NEW n \in Nat,
           Told(s, a, q, n)
    PROVE  Told(s, a, Append(q, n + 1), n + 1)
<1>1. PICK p : p = s \o a /\ p \in Seq(Nat)
  <2>1. s \o a \in Seq(Nat)
    BY ConcatProperties
  <2>. QED  BY <2>1
<1>2. PICK w : w = p \o q /\ w \in Seq(Nat) /\ w = [k \in 1 .. n |-> k]
  <2>1. p \o q \in Seq(Nat)
    BY <1>1, ConcatProperties
  <2>. QED  BY <1>1, <2>1 DEF Told
<1>3. Append(w, n + 1) = [k \in 1 .. n + 1 |-> k]
  <2>1. Len(w) = n
    BY <1>2
  <2>2. PICK r : r = Append(w, n + 1)
    OBVIOUS
  <2>3. /\ DOMAIN r = 1 .. n + 1 /\ r = [k \in 1 .. n + 1 |-> r[k]]
        /\ \A k \in 1 .. n + 1 : r[k] = IF k = n + 1 THEN n + 1 ELSE w[k]
    BY <2>1, <2>2
  <2>4. \A k \in 1 .. n : w[k] = k
    BY <1>2
  <2>5. \A k \in 1 .. n + 1 : r[k] = k
    BY <2>3, <2>4
  <2>6. r = [k \in 1 .. n + 1 |-> k]
    BY <2>3, <2>5, Zenon
  <2>. QED  BY <2>2, <2>6
<1>4. p \o Append(q, n + 1) = Append(w, n + 1)
  <2>1. <<n + 1>> \in Seq(Nat)
    OBVIOUS
  <2>2. Append(q, n + 1) = q \o <<n + 1>> /\ Append(w, n + 1) = w \o <<n + 1>>
    <3>1. n + 1 \in Nat
      OBVIOUS
    <3>2. Append(q, n + 1) = q \o <<n + 1>>
      BY <3>1, AppendIsConcat
    <3>3. w \in Seq(Nat)
      BY <1>2
    <3>4. Append(w, n + 1) = w \o <<n + 1>>
      BY <3>1, <3>3, AppendIsConcat
    <3>. QED  BY <3>2, <3>4
  <2>3. p \o (q \o <<n + 1>>) = (p \o q) \o <<n + 1>>
    <3>1. p \in Seq(Nat)
      BY <1>1
    <3>. QED  BY <2>1, <3>1, ConcatAssociative
  <2>. QED  BY <1>2, <2>2, <2>3
<1>. QED  BY <1>1, <1>3, <1>4 DEF Told

\* Frames that are handed on stay the same frames.
LEMMA HandedOn ==
    ASSUME NEW s \in Seq(Nat), NEW a \in Seq(Nat), NEW q \in Seq(Nat), NEW n, Told(s, a, q, n)
    PROVE  /\ Told(s \o a, <<>>, q, n)
           /\ Told(s \o a \o q, <<>>, <<>>, n)
           /\ a = <<>> => Told(s, q, <<>>, n) /\ Told(s \o q, <<>>, <<>>, n)
<1>1. \A x \in Seq(Nat) : x \o <<>> = x /\ <<>> \o x = x
  BY ConcatEmptySeq
<1>2. s \o a \in Seq(Nat) /\ s \o q \in Seq(Nat) /\ s \o a \o q \in Seq(Nat)
  BY ConcatProperties
<1>3. Told(s \o a, <<>>, q, n)
  BY <1>1, <1>2 DEF Told
<1>4. Told(s \o a \o q, <<>>, <<>>, n)
  BY <1>1, <1>2 DEF Told
<1>5. ASSUME a = <<>> PROVE Told(s, q, <<>>, n) /\ Told(s \o q, <<>>, <<>>, n)
  BY <1>1, <1>2, <1>5 DEF Told
<1>. QED  BY <1>3, <1>4, <1>5

\* A step that hands on the frames of one call.
LEMMA FramesOf ==
    ASSUME Frames, NEW c \in AsrCalls,
           NEW s \in Seq(Nat), NEW a \in Seq(Nat), NEW q \in Seq(Nat), NEW n \in Nat,
           Told(s, a, q, n),
           settled' = [settled EXCEPT ![c] = s], audio' = [audio EXCEPT ![c] = a],
           chunks' = [chunks EXCEPT ![c] = q], pushed' = [pushed EXCEPT ![c] = n],
           \A d \in AsrCalls : request'[d] = "idle" => IF d = c THEN a = <<>> ELSE request[d] = "idle"
    PROVE  Frames'
<1>1. PICK S : S = Seq(Nat)
  OBVIOUS
<1>2. /\ chunks \in [AsrCalls -> S] /\ audio \in [AsrCalls -> S]
      /\ settled \in [AsrCalls -> S] /\ pushed \in [AsrCalls -> Nat]
      /\ \A d \in AsrCalls : request[d] = "idle" => audio[d] = <<>>
      /\ \A d \in AsrCalls : Told(settled[d], audio[d], chunks[d], pushed[d])
  BY <1>1 DEF Frames, FramesOnce, Told
<1>3. /\ chunks' \in [AsrCalls -> S] /\ audio' \in [AsrCalls -> S]
      /\ settled' \in [AsrCalls -> S] /\ pushed' \in [AsrCalls -> Nat]
  BY <1>1, <1>2
<1>4. \A d \in AsrCalls : request'[d] = "idle" => audio'[d] = <<>>
  BY <1>2
<1>5. \A d \in AsrCalls : Told(settled'[d], audio'[d], chunks'[d], pushed'[d])
  BY <1>2
<1>. QED  BY <1>1, <1>3, <1>4, <1>5 DEF Frames, FramesOnce, Told

\* Whatever the step, no frame is forgotten, and none is at two places.
LEMMA FramesStep == Gate /\ Frames /\ [AsrNext]_asrVars => Frames'
<1> SUFFICES ASSUME Gate, Frames, [AsrNext]_asrVars PROVE Frames'
  OBVIOUS
<1>1. PICK S : S = Seq(Nat)
  OBVIOUS
<1>2. /\ chunks \in [AsrCalls -> S] /\ audio \in [AsrCalls -> S]
      /\ settled \in [AsrCalls -> S] /\ pushed \in [AsrCalls -> Nat]
      /\ \A d \in AsrCalls : request[d] = "idle" => audio[d] = <<>>
      /\ \A d \in AsrCalls : Told(settled[d], audio[d], chunks[d], pushed[d])
  BY <1>1 DEF Frames, FramesOnce, Told
<1>3. request \in [AsrCalls -> Requests]
  BY DEF Gate, Balanced
<1>4. CASE UNCHANGED <<chunks, audio, settled, pushed, request>>
  BY <1>4 DEF Frames, FramesOnce
<1> DEFINE T(c) == Told(settled[c], audio[c], chunks[c], pushed[c])
<1>e. <<>> \in S
  BY <1>1
<1>5. ASSUME NEW c \in AsrCalls, PushFrame(c) PROVE Frames'
  <2>1. PICK q : q = Append(chunks[c], pushed[c] + 1)
    OBVIOUS
  <2>2. q \in Seq(Nat) /\ Told(settled[c], audio[c], q, pushed[c] + 1)
    BY <1>1, <1>2, <2>1, NextFrame
  <2>3. /\ settled' = [settled EXCEPT ![c] = settled[c]] /\ audio' = [audio EXCEPT ![c] = audio[c]]
        /\ chunks' = [chunks EXCEPT ![c] = q] /\ pushed' = [pushed EXCEPT ![c] = pushed[c] + 1]
        /\ request' = request
    BY <1>2, <1>5, <2>1 DEF PushFrame
  <2>4. settled[c] \in Seq(Nat) /\ audio[c] \in Seq(Nat) /\ pushed[c] + 1 \in Nat
    BY <1>1, <1>2
  <2>5. \A d \in AsrCalls : request'[d] = "idle" => IF d = c THEN audio[c] = <<>> ELSE request[d] = "idle"
    BY <1>2, <2>3
  <2>. QED  BY <2>2, <2>3, <2>4, <2>5, FramesOf
<1>6. ASSUME NEW c \in AsrCalls, FlushSpeech(c) PROVE Frames'
  <2>1. Told(settled[c], chunks[c], <<>>, pushed[c])
    BY <1>1, <1>2, <1>6, HandedOn DEF FlushSpeech
  <2>2. /\ settled' = [settled EXCEPT ![c] = settled[c]] /\ audio' = [audio EXCEPT ![c] = chunks[c]]
        /\ chunks' = [chunks EXCEPT ![c] = <<>>] /\ pushed' = [pushed EXCEPT ![c] = pushed[c]]
    BY <1>2, <1>6 DEF FlushSpeech, TakeChunks
  <2>3. \A d \in AsrCalls : request'[d] = "idle" => d # c /\ request[d] = "idle"
    BY <1>3, <1>6 DEF FlushSpeech
  <2>. QED  BY <1>1, <1>2, <1>e, <2>1, <2>2, <2>3, FramesOf
<1>7. ASSUME NEW c \in AsrCalls, EnterGate(c) PROVE Frames'
  <2>1. \A d \in AsrCalls : request'[d] = "idle" <=> request[d] = "idle"
    BY <1>7, EnterKeeps
  <2>2. UNCHANGED <<chunks, audio, settled, pushed>>
    BY <1>7 DEF EnterGate
  <2>. QED  BY <1>1, <1>2, <2>1, <2>2 DEF Frames, FramesOnce
<1>8. ASSUME NEW c \in AsrCalls, Answered(c) PROVE Frames'
  <2>1. \A d \in AsrCalls : request'[d] = "idle" <=> d = c \/ request[d] = "idle"
    BY <1>8, AnsweredKeeps
  <2>2. Told(settled[c] \o audio[c], <<>>, chunks[c], pushed[c])
    BY <1>1, <1>2, HandedOn
  <2>3. /\ settled' = [settled EXCEPT ![c] = settled[c] \o audio[c]]
        /\ audio' = [audio EXCEPT ![c] = <<>>]
        /\ chunks' = [chunks EXCEPT ![c] = chunks[c]] /\ pushed' = [pushed EXCEPT ![c] = pushed[c]]
    BY <1>2, <1>8 DEF Answered
  <2>4. settled[c] \o audio[c] \in S
    BY <1>1, <1>2
  <2>. QED  BY <1>1, <1>2, <1>e, <2>1, <2>2, <2>3, <2>4, FramesOf
<1>9. ASSUME NEW c \in AsrCalls, CloseAsr(c) PROVE Frames'
  <2>1. request[c] = "idle" /\ audio[c] = <<>> /\ request' = request
    BY <1>2, <1>9 DEF CloseAsr
  <2>2. Told(settled[c] \o chunks[c], <<>>, <<>>, pushed[c])
    BY <1>1, <1>2, <2>1, HandedOn
  <2>3. /\ settled' = [settled EXCEPT ![c] = settled[c] \o chunks[c]]
        /\ audio' = [audio EXCEPT ![c] = <<>>]
        /\ chunks' = [chunks EXCEPT ![c] = <<>>] /\ pushed' = [pushed EXCEPT ![c] = pushed[c]]
    BY <1>2, <1>9, <2>1 DEF CloseAsr
  <2>4. settled[c] \o chunks[c] \in S
    BY <1>1, <1>2
  <2>. QED  BY <1>1, <1>2, <1>e, <2>1, <2>2, <2>3, <2>4, FramesOf
<1>10. ASSUME NEW c \in AsrCalls, CancelFlush(c) PROVE Frames'
  <2>1. \A d \in AsrCalls : request'[d] = "idle" <=> d = c \/ request[d] = "idle"
    BY <1>10, CancelKeeps
  <2>2. Told(settled[c] \o audio[c] \o chunks[c], <<>>, <<>>, pushed[c])
    BY <1>1, <1>2, HandedOn
  <2>3. /\ settled' = [settled EXCEPT ![c] = settled[c] \o audio[c] \o chunks[c]]
        /\ audio' = [audio EXCEPT ![c] = <<>>]
        /\ chunks' = [chunks EXCEPT ![c] = <<>>] /\ pushed' = [pushed EXCEPT ![c] = pushed[c]]
    BY <1>2, <1>10 DEF CancelFlush
  <2>4. settled[c] \o audio[c] \o chunks[c] \in S
    BY <1>1, <1>2
  <2>. QED  BY <1>1, <1>2, <1>e, <2>1, <2>2, <2>3, <2>4, FramesOf
<1>11. ASSUME NEW c \in AsrCalls, GenerateStarts(c) \/ GenerateEnds(c)
       PROVE  UNCHANGED <<chunks, audio, settled, pushed, request>>
  BY <1>11 DEF GenerateStarts, GenerateEnds
<1>12. CASE UnloadAsr \/ UNCHANGED asrVars
  BY <1>4, <1>12 DEF UnloadAsr, asrVars
<1>. QED
  BY <1>4, <1>5, <1>6, <1>7, <1>8, <1>9, <1>10, <1>11, <1>12 DEF AsrNext

\* Nothing was said yet.
LEMMA InitAsr == AsrInit => AsrInv
<1> SUFFICES ASSUME AsrInit PROVE AsrInv
  OBVIOUS
<1>1. Gate
  <2>1. /\ InLine(request) = {} /\ Holding(request) = {} /\ waiters = <<>>
        /\ request \in [AsrCalls -> Requests] /\ permits = MaxBatch
        /\ \A c \in AsrCalls : request[c] # "waiting"
    BY DEF AsrInit, InLine, Holding, Requests
  <2>2. ToSet(waiters) = {} /\ IsInjective(waiters) /\ waiters \in Seq(AsrCalls)
    BY <2>1 DEF ToSet, IsInjective
  <2>3. IsFiniteSet({}) /\ Cardinality({}) = 0
    BY FS_EmptySet
  <2>4. permits \in Nat /\ permits + 0 = MaxBatch
    BY <2>1, AsrAssumption
  <2>. QED  BY <2>1, <2>2, <2>3, <2>4 DEF Gate, Balanced
<1>2. Generating
  BY DEF AsrInit, Generating, Threads
<1>3. Frames
  <2>1. <<>> \o <<>> \o <<>> = [k \in 1 .. 0 |-> k]
    OBVIOUS
  <2>. QED  BY <2>1 DEF AsrInit, Frames, FramesOnce
<1>. QED  BY <1>1, <1>2, <1>3 DEF AsrInv

\* See TranscriptionsApart: whatever calls flush, fail, are cancelled and close
\* at once, no generation loses its working state, no permit is lost or doubled
\* and no frame is forgotten or transcribed twice.
THEOREM TranscriptionsIsolated == AsrSpec => []TranscriptionsApart
<1>1. AsrInv /\ [AsrNext]_asrVars => AsrInv'
  BY GateStep, GeneratingStep, FramesStep DEF AsrInv
<1>2. AsrInv => TranscriptionsApart
  <2> SUFFICES ASSUME AsrInv PROVE TranscriptionsApart
    OBVIOUS
  <2>1. OwnWorkingState
    BY DEF AsrInv, Generating, OwnWorkingState
  <2>2. PermitsAddUp
    BY DEF AsrInv, Gate, Balanced, Holding, PermitsAddUp
  <2>3. FramesOnce
    BY DEF AsrInv, Frames
  <2>. QED  BY <2>1, <2>2, <2>3 DEF TranscriptionsApart
<1>. QED  BY InitAsr, <1>1, <1>2, PTL DEF AsrSpec

-----------------------------------------------------------------------------
(* The detector reports what its own caller says. *)

Enough == FramesIn(MinSpeechMs)
Pause == FramesIn(MinSilenceMs)

\* As RunAt and SpeakingAt, of any verdicts.
Long(h, k, n, v) == k >= n /\ \A j \in k - n + 1 .. k : h[j] = v
Talking(h, k) ==
    \E i \in 1 .. k : /\ Long(h, i, Enough, TRUE)
                      /\ \A j \in i + 1 .. k : ~Long(h, j, Pause, FALSE)
Changes(h) == {k \in 1 .. Len(h) : ~ (Talking(h, k) <=> Talking(h, k - 1))}

\* The last s verdicts, and no more, are v.
Trailing(h, s, v) ==
    /\ s \in 0 .. Len(h)
    /\ \A j \in Len(h) - s + 1 .. Len(h) : h[j] = v
    /\ s = Len(h) \/ h[Len(h) - s] # v

Kinds == {"SPEECH_STARTED", "SPEECH_ENDED"}
KindAt(h, k) == IF Talking(h, k) THEN "SPEECH_STARTED" ELSE "SPEECH_ENDED"

\* One event for each change, and what it says.
Reported(es, h) ==
    /\ es \in Seq(Kinds \X Nat)
    /\ IsFiniteSet(Changes(h)) /\ Len(es) = Cardinality(Changes(h))
    /\ {es[i][2] : i \in DOMAIN es} = Changes(h)
    /\ \A i \in DOMAIN es : es[i][1] = KindAt(h, es[i][2])

\* Each call has a network of its own, which has seen what the call heard.
Apart ==
    /\ networkOf \in [VadCalls -> Networks] /\ remembered \in [Networks -> Nat]
    /\ \A c, d \in VadCalls : networkOf[c] = networkOf[d] /\ networkOf[c] # Template => c = d
    /\ \A c \in VadCalls : IF networkOf[c] = Template THEN heard[c] = <<>>
                           ELSE remembered[networkOf[c]] = Len(heard[c])

\* What a session counts is what its call's verdicts are.
Judged(c) ==
    /\ frameIndex[c] = Len(heard[c])
    /\ Trailing(heard[c], speechFrames[c], TRUE)
    /\ Trailing(heard[c], silenceFrames[c], FALSE)
    /\ speaking[c] <=> Talking(heard[c], Len(heard[c]))
    /\ Reported(events[c], heard[c])

VadInv ==
    /\ Apart
    /\ heard \in [VadCalls -> Seq(BOOLEAN)] /\ speaking \in [VadCalls -> BOOLEAN]
    /\ {frameIndex, speechFrames, silenceFrames} \subseteq [VadCalls -> Nat]
    /\ events \in [VadCalls -> Seq(Kinds \X Nat)]
    /\ \A c \in VadCalls : Judged(c)

\* Both thresholds are at least a frame.
LEMMA Thresholds == Enough \in Nat \ {0} /\ Pause \in Nat \ {0}
<1>1. ASSUME NEW ms \in Nat PROVE FramesIn(ms) \in Nat \ {0}
  <2>1. ms \div 32 \in Nat
    OBVIOUS
  <2>. QED  BY <2>1 DEF FramesIn
<1>. QED  BY <1>1, VadAssumption DEF Enough, Pause

\* A run is long enough if the count of the last verdicts says so.
LEMMA CountedRun ==
    ASSUME NEW h \in Seq(BOOLEAN), NEW v \in BOOLEAN, NEW s, Trailing(h, s, v), NEW n \in Nat
    PROVE  Long(h, Len(h), n, v) <=> n <= s
<1>1. PICK N \in Nat : N = Len(h)
  OBVIOUS
<1>2. /\ s \in 0 .. N /\ \A j \in N - s + 1 .. N : h[j] = v
      /\ s = N \/ h[N - s] # v
  BY <1>1 DEF Trailing
<1>3. CASE n <= s
  <2>1. \A j \in N - n + 1 .. N : j \in N - s + 1 .. N
    BY <1>2, <1>3
  <2>. QED  BY <1>1, <1>2, <1>3, <2>1 DEF Long
<1>4. CASE n > s
  <2>1. N >= n => s # N /\ N - s \in N - n + 1 .. N
    BY <1>2, <1>4
  <2>. QED  BY <1>1, <1>2, <1>4, <2>1 DEF Long
<1>. QED  BY <1>2, <1>3, <1>4

\* The counts after one more verdict.
LEMMA TrailingAppend ==
    ASSUME NEW h \in Seq(BOOLEAN), NEW v \in BOOLEAN, NEW w \in BOOLEAN, NEW s,
           Trailing(h, s, v)
    PROVE  Trailing(Append(h, w), IF w = v THEN s + 1 ELSE 0, v)
<1>1. PICK N \in Nat : N = Len(h)
  OBVIOUS
<1>2. /\ s \in 0 .. N /\ \A j \in N - s + 1 .. N : h[j] = v
      /\ s = N \/ h[N - s] # v
  BY <1>1 DEF Trailing
<1>3. PICK m : m = Append(h, w)
  OBVIOUS
<1>4. Len(m) = N + 1 /\ m[N + 1] = w /\ \A k \in 1 .. N : m[k] = h[k]
  BY <1>1, <1>3
<1>5. CASE w = v
  <2>1. \A j \in N + 1 - (s + 1) + 1 .. N + 1 : j = N + 1 \/ (j \in N - s + 1 .. N /\ j \in 1 .. N)
    BY <1>2
  <2>2. \A j \in N + 1 - (s + 1) + 1 .. N + 1 : m[j] = v
    BY <1>2, <1>4, <1>5, <2>1
  <2>3. s + 1 = N + 1 \/ m[N + 1 - (s + 1)] # v
    <3>1. s # N => N - s \in 1 .. N /\ N + 1 - (s + 1) = N - s
      BY <1>2
    <3>. QED  BY <1>2, <1>4, <3>1
  <2>4. s + 1 \in 0 .. N + 1
    BY <1>2
  <2>5. Trailing(m, s + 1, v)
    BY <1>4, <2>2, <2>3, <2>4 DEF Trailing
  <2>. QED  BY <1>3, <1>5, <2>5
<1>6. CASE w # v
  <2>1. \A j \in N + 1 - 0 + 1 .. N + 1 : FALSE
    OBVIOUS
  <2>2. 0 \in 0 .. N + 1 /\ N + 1 - 0 = N + 1
    OBVIOUS
  <2>3. Trailing(m, 0, v)
    BY <1>4, <1>6, <2>1, <2>2 DEF Trailing
  <2>. QED  BY <1>3, <1>6, <2>3
<1>. QED  BY <1>5, <1>6

\* Who speaks after one more verdict, and who spoke before.
LEMMA TalkingAppend ==
    ASSUME NEW h \in Seq(BOOLEAN), NEW v \in BOOLEAN, NEW m, m = Append(h, v),
           NEW N, N = Len(h)
    PROVE  /\ \A k \in 0 .. N : Talking(m, k) <=> Talking(h, k)
           /\ Talking(m, N + 1) <=> \/ Long(m, N + 1, Enough, TRUE)
                                    \/ Talking(h, N) /\ ~Long(m, N + 1, Pause, FALSE)
<1>1. N \in Nat /\ \A k \in 1 .. N : m[k] = h[k]
  OBVIOUS
<1>2. ASSUME NEW k \in 1 .. N, NEW n \in Nat \ {0}, NEW w
      PROVE  Long(m, k, n, w) <=> Long(h, k, n, w)
  <2>1. k >= n => \A j \in k - n + 1 .. k : j \in 1 .. N
    BY <1>1
  <2>. QED  BY <1>1, <2>1 DEF Long
<1>3. ASSUME NEW k \in 0 .. N PROVE Talking(m, k) <=> Talking(h, k)
  <2>1. \A i \in 1 .. k : i \in 1 .. N /\ \A j \in i + 1 .. k : j \in 1 .. N
    BY <1>1
  <2>2. \A i \in 1 .. N : /\ Long(m, i, Enough, TRUE) <=> Long(h, i, Enough, TRUE)
                          /\ Long(m, i, Pause, FALSE) <=> Long(h, i, Pause, FALSE)
    BY <1>2, Thresholds
  <2>. QED  BY <2>1, <2>2 DEF Talking
<1>4. ASSUME Long(m, N + 1, Enough, TRUE) PROVE Talking(m, N + 1)
  <2>1. N + 1 \in 1 .. N + 1 /\ \A j \in N + 1 + 1 .. N + 1 : FALSE
    BY <1>1
  <2>. QED  BY <1>4, <2>1 DEF Talking
<1>5. ASSUME Talking(h, N), ~Long(m, N + 1, Pause, FALSE) PROVE Talking(m, N + 1)
  <2>1. Talking(m, N)
    BY <1>1, <1>3, <1>5
  <2>2. PICK i : /\ i \in 1 .. N /\ Long(m, i, Enough, TRUE)
                 /\ \A j \in i + 1 .. N : ~Long(m, j, Pause, FALSE)
    BY <2>1 DEF Talking
  <2>3. i \in 1 .. N + 1 /\ \A j \in i + 1 .. N + 1 : j \in i + 1 .. N \/ j = N + 1
    BY <1>1, <2>2
  <2>. QED  BY <1>5, <2>2, <2>3 DEF Talking
<1>6. ASSUME Talking(m, N + 1), ~Long(m, N + 1, Enough, TRUE)
      PROVE  Talking(h, N) /\ ~Long(m, N + 1, Pause, FALSE)
  <2>1. PICK i : /\ i \in 1 .. N + 1 /\ Long(m, i, Enough, TRUE)
                 /\ \A j \in i + 1 .. N + 1 : ~Long(m, j, Pause, FALSE)
    BY <1>6 DEF Talking
  <2>2. i # N + 1
    BY <1>6, <2>1
  <2>3. i \in 1 .. N /\ N + 1 \in i + 1 .. N + 1 /\ \A j \in i + 1 .. N : j \in i + 1 .. N + 1
    BY <1>1, <2>1, <2>2
  <2>4. Talking(m, N)
    BY <2>1, <2>3 DEF Talking
  <2>5. N \in 0 .. N
    BY <1>1
  <2>6. Talking(h, N)
    BY <1>3, <2>4, <2>5
  <2>7. ~Long(m, N + 1, Pause, FALSE)
    BY <2>1, <2>3
  <2>. QED  BY <2>6, <2>7
<1>. QED  BY <1>3, <1>4, <1>5, <1>6

\* The changes after one more verdict.
LEMMA ChangesAppend ==
    ASSUME NEW h \in Seq(BOOLEAN), NEW v \in BOOLEAN, NEW m, m = Append(h, v),
           NEW N, N = Len(h)
    PROVE  Changes(m) = IF Talking(m, N + 1) <=> Talking(h, N)
                        THEN Changes(h) ELSE Changes(h) \cup {N + 1}
<1>1. N \in Nat /\ Len(m) = N + 1
  OBVIOUS
<1>2. \A k \in 0 .. N : Talking(m, k) <=> Talking(h, k)
  BY TalkingAppend
<1>3. Changes(h) \subseteq 1 .. N /\ Changes(m) \subseteq 1 .. N + 1
  BY <1>1 DEF Changes
<1>4. \A k \in 1 .. N : k \in Changes(m) <=> k \in Changes(h)
  <2> TAKE k \in 1 .. N
  <2>1. k \in 0 .. N /\ k - 1 \in 0 .. N /\ k \in 1 .. N + 1
    BY <1>1
  <2>2. (Talking(m, k) <=> Talking(h, k)) /\ (Talking(m, k - 1) <=> Talking(h, k - 1))
    BY <1>2, <2>1
  <2>. QED  BY <1>1, <2>1, <2>2 DEF Changes
<1>5. N + 1 \in Changes(m) <=> ~ (Talking(m, N + 1) <=> Talking(h, N))
  <2>1. N \in 0 .. N /\ N + 1 \in 1 .. N + 1 /\ (N + 1) - 1 = N
    BY <1>1
  <2>2. Talking(m, N) <=> Talking(h, N)
    BY <1>2, <2>1
  <2>. QED  BY <1>1, <2>1, <2>2 DEF Changes
<1>6. N + 1 \notin 1 .. N /\ \A k \in 1 .. N + 1 : k \in 1 .. N \/ k = N + 1
  BY <1>1
<1>7. CASE Talking(m, N + 1) <=> Talking(h, N)
  <2>1. N + 1 \notin Changes(m)
    BY <1>5, <1>7
  <2>2. Changes(m) = Changes(h)
    BY <1>3, <1>4, <1>6, <2>1
  <2>. QED  BY <1>7, <2>2
<1>8. CASE ~ (Talking(m, N + 1) <=> Talking(h, N))
  BY <1>3, <1>4, <1>5, <1>6, <1>8
<1>. QED  BY <1>7, <1>8

\* The events after one more verdict.
LEMMA ReportedAppend ==
    ASSUME NEW h \in Seq(BOOLEAN), NEW v \in BOOLEAN, NEW m, m = Append(h, v),
           NEW N, N = Len(h), NEW es, Reported(es, h),
           NEW more,
           (Talking(m, N + 1) <=> Talking(h, N)) => more = es,
           ~ (Talking(m, N + 1) <=> Talking(h, N))
                => more = Append(es, <<KindAt(m, N + 1), N + 1>>)
    PROVE  Reported(more, m)
<1>1. N \in Nat /\ Len(m) = N + 1
  OBVIOUS
<1>2. /\ es \in Seq(Kinds \X Nat)
      /\ IsFiniteSet(Changes(h)) /\ Len(es) = Cardinality(Changes(h))
      /\ {es[i][2] : i \in DOMAIN es} = Changes(h)
      /\ \A i \in DOMAIN es : es[i][1] = KindAt(h, es[i][2])
  BY DEF Reported
<1>3. Changes(h) \subseteq 1 .. N
  BY DEF Changes
<1>4. \A k \in 0 .. N : Talking(m, k) <=> Talking(h, k)
  BY TalkingAppend
<1>5. \A k \in Changes(h) : KindAt(m, k) = KindAt(h, k)
  <2>1. \A k \in Changes(h) : k \in 0 .. N
    BY <1>1, <1>3
  <2>. QED  BY <1>4, <2>1 DEF KindAt
<1>6. \A i \in DOMAIN es : es[i][2] \in Changes(h) /\ es[i][1] = KindAt(m, es[i][2])
  BY <1>2, <1>5
<1>7. CASE Talking(m, N + 1) <=> Talking(h, N)
  <2>1. Changes(m) = Changes(h) /\ more = es
    BY <1>7, ChangesAppend
  <2>. QED  BY <1>2, <1>6, <2>1 DEF Reported
<1>8. CASE ~ (Talking(m, N + 1) <=> Talking(h, N))
  <2>1. Changes(m) = Changes(h) \cup {N + 1}
    <3>1. Changes(m) = IF Talking(m, N + 1) <=> Talking(h, N)
                       THEN Changes(h) ELSE Changes(h) \cup {N + 1}
      BY ChangesAppend, Zenon
    <3>. QED  BY <1>8, <3>1, Zenon
  <2>2. PICK e : e = <<KindAt(m, N + 1), N + 1>> /\ more = Append(es, e)
    BY <1>8
  <2>3. e \in Kinds \X Nat /\ e[1] = KindAt(m, N + 1) /\ e[2] = N + 1
    BY <1>1, <2>2 DEF Kinds, KindAt
  <2>4. PICK L \in Nat : L = Len(es) /\ DOMAIN es = 1 .. L
    BY <1>2
  <2>5. /\ more \in Seq(Kinds \X Nat) /\ Len(more) = L + 1 /\ DOMAIN more = 1 .. L + 1
        /\ more[L + 1] = e /\ \A i \in 1 .. L : more[i] = es[i]
    BY <1>2, <2>2, <2>3, <2>4
  <2>6. \A i : i \in 1 .. L + 1 <=> i \in 1 .. L \/ i = L + 1
    BY <2>4
  <2>7. IsFiniteSet(Changes(m)) /\ Cardinality(Changes(m)) = Cardinality(Changes(h)) + 1
    <3>1. N + 1 \notin Changes(h)
      BY <1>1, <1>3
    <3>. QED  BY <1>2, <2>1, <3>1, FS_AddElement
  <2>8. {more[i][2] : i \in DOMAIN more} = Changes(h) \cup {N + 1}
    <3>1. \A i \in 1 .. L : more[i][2] = es[i][2]
      BY <2>5
    <3>2. more[L + 1][2] = N + 1
      BY <2>3, <2>5
    <3>3. {es[i][2] : i \in 1 .. L} = Changes(h)
      BY <1>2, <2>4
    <3>4. \A i \in 1 .. L + 1 : more[i][2] \in Changes(h) \cup {N + 1}
      BY <2>6, <3>1, <3>2, <3>3
    <3>5. \A k \in Changes(h) : \E i \in 1 .. L + 1 : more[i][2] = k
      BY <2>6, <3>1, <3>3
    <3>6. \E i \in 1 .. L + 1 : more[i][2] = N + 1
      BY <2>6, <3>2
    <3>7. PICK X : X = {more[i][2] : i \in 1 .. L + 1}
      OBVIOUS
    <3>8. \A k : k \in X <=> k \in Changes(h) \cup {N + 1}
      BY <3>4, <3>5, <3>6, <3>7, Zenon
    <3>9. X = Changes(h) \cup {N + 1}
      BY <3>8, Zenon
    <3>. QED  BY <2>5, <3>7, <3>9
  <2>9. \A i \in DOMAIN more : more[i][1] = KindAt(m, more[i][2])
    <3>1. \A i \in 1 .. L : more[i][1] = KindAt(m, more[i][2])
      BY <1>6, <2>4, <2>5
    <3>2. more[L + 1][1] = KindAt(m, more[L + 1][2])
      BY <2>3, <2>5
    <3>. QED  BY <2>5, <2>6, <3>1, <3>2
  <2>. QED  BY <1>2, <2>1, <2>4, <2>5, <2>7, <2>8, <2>9 DEF Reported
<1>. QED  BY <1>7, <1>8

\* There is a network for every call that opens one.
LEMMA FreshNetwork ==
    ASSUME Apart, NEW c \in VadCalls, networkOf[c] = Template
    PROVE  \E n \in Networks \ {Template} : \A d \in VadCalls : networkOf[d] # n
<1>1. PICK N : N = Cardinality(VadCalls) /\ N \in Nat /\ IsFiniteSet(VadCalls)
  BY VadAssumption, FS_CardinalityType
<1>2. Networks \ {Template} = 1 .. N
  BY <1>1 DEF Networks, Template
<1>3. SUFFICES ASSUME \A n \in 1 .. N : \E d \in VadCalls : networkOf[d] = n
               PROVE  FALSE
  BY <1>2
<1>4. PICK f : f = [n \in 1 .. N |-> CHOOSE d \in VadCalls : networkOf[d] = n]
  OBVIOUS
<1>5. \A n \in 1 .. N : f[n] \in VadCalls /\ networkOf[f[n]] = n
  BY <1>3, <1>4
<1>6. f \in [1 .. N -> VadCalls \ {c}]
  <2>1. \A n \in 1 .. N : f[n] # c
    BY <1>5 DEF Template
  <2>. QED  BY <1>4, <1>5, <2>1
<1>7. /\ IsFiniteSet(VadCalls \ {c}) /\ Cardinality(VadCalls \ {c}) = N - 1
  BY <1>1, FS_RemoveElement
<1>8. IsFiniteSet(1 .. N) /\ Cardinality(1 .. N) = N
  BY <1>1, FS_Interval
<1>9. PICK x, y \in 1 .. N : x # y /\ f[x] = f[y]
  <2>1. N - 1 < N
    BY <1>1
  <2>. QED  BY <1>6, <1>7, <1>8, <2>1, FS_PigeonHole
<1>. QED  BY <1>5, <1>9

\* The verdict on a frame counts, and raises an event, as it should.
LEMMA FrameJudged ==
    ASSUME VadInv, NEW c \in VadCalls, NEW v \in BOOLEAN, ProcessFrame(c, v)
    PROVE  Judged(c)'
<1>1. PICK h : h = heard[c] /\ h \in Seq(BOOLEAN)
  BY DEF VadInv
<1>2. PICK N : N = Len(h) /\ N \in Nat
  BY <1>1
<1>3. PICK m : m = Append(h, v) /\ m \in Seq(BOOLEAN)
  <2>1. Append(h, v) \in Seq(BOOLEAN)
    BY <1>1, AppendProperties
  <2>. QED  BY <2>1
<1>4. PICK run, quiet, now, es :
         run = speechFrames[c] /\ quiet = silenceFrames[c] /\ now = speaking[c] /\ es = events[c]
  OBVIOUS
<1>5. /\ run \in Nat /\ quiet \in Nat /\ now \in BOOLEAN
      /\ Trailing(h, run, TRUE) /\ Trailing(h, quiet, FALSE)
      /\ now <=> Talking(h, N)
      /\ Reported(es, h) /\ frameIndex[c] = N
  BY <1>1, <1>2, <1>4 DEF VadInv, Judged
<1>6. heard'[c] = m /\ frameIndex'[c] = N + 1 /\ Len(m) = N + 1
  BY <1>1, <1>2, <1>3, <1>5 DEF ProcessFrame, VadInv
<1>7. Trailing(m, IF v = TRUE THEN run + 1 ELSE 0, TRUE)
  BY <1>1, <1>3, <1>5, TrailingAppend
<1>8. Trailing(m, IF v = FALSE THEN quiet + 1 ELSE 0, FALSE)
  BY <1>1, <1>3, <1>5, TrailingAppend
<1>9. Talking(m, N + 1) <=> \/ Long(m, N + 1, Enough, TRUE)
                            \/ Talking(h, N) /\ ~Long(m, N + 1, Pause, FALSE)
  BY <1>1, <1>2, <1>3, TalkingAppend
<1>10. PICK more : /\ (Talking(m, N + 1) <=> Talking(h, N)) => more = es
                   /\ ~ (Talking(m, N + 1) <=> Talking(h, N))
                         => more = Append(es, <<KindAt(m, N + 1), N + 1>>)
  <2>1. CASE Talking(m, N + 1) <=> Talking(h, N)
    BY <2>1, Zenon
  <2>2. CASE ~ (Talking(m, N + 1) <=> Talking(h, N))
    BY <2>2, Zenon
  <2>. QED  BY <2>1, <2>2, Zenon
<1>0. Reported(more, m)
  <2>1. Reported(es, h)
    BY <1>5
  <2>2. h \in Seq(BOOLEAN) /\ m = Append(h, v) /\ N = Len(h)
    BY <1>1, <1>2, <1>3
  <2>3. (Talking(m, N + 1) <=> Talking(h, N)) => more = es
    BY <1>10, Zenon
  <2>4. ~ (Talking(m, N + 1) <=> Talking(h, N))
           => more = Append(es, <<KindAt(m, N + 1), N + 1>>)
    BY <1>10, Zenon
  <2>. QED  BY <2>1, <2>2, <2>3, <2>4, ReportedAppend, ZenonT(30)
<1>11. Enough \in Nat \ {0} /\ Pause \in Nat \ {0}
  BY Thresholds
<1>12. CASE v = TRUE
  <2>1. PICK starts \in BOOLEAN : starts <=> ~now /\ run + 1 >= Enough
    OBVIOUS
  <2>2. /\ speechFrames'[c] = run + 1 /\ silenceFrames'[c] = 0
        /\ speaking'[c] <=> now \/ starts
    BY <1>4, <1>5, <1>12, <2>1 DEF ProcessFrame, HearSpeech, VadInv, Enough
  <2>3. events'[c] = IF starts THEN Append(es, <<"SPEECH_STARTED", N + 1>>) ELSE es
    BY <1>4, <1>5, <1>12, <2>1 DEF ProcessFrame, HearSpeech, VadInv, Enough
  <2>4. Trailing(m, run + 1, TRUE) /\ Trailing(m, 0, FALSE)
    BY <1>7, <1>8, <1>12
  <2>5. Long(m, N + 1, Enough, TRUE) <=> Enough <= run + 1
    BY <1>3, <1>6, <1>11, <2>4, CountedRun
  <2>6. ~Long(m, N + 1, Pause, FALSE)
    <3>1. Long(m, N + 1, Pause, FALSE) <=> Pause <= 0
      BY <1>3, <1>6, <1>11, <2>4, CountedRun
    <3>2. ~ (Pause <= 0)
      BY <1>11
    <3>. QED  BY <3>1, <3>2, Zenon
  <2>7. /\ Talking(m, N + 1) <=> now \/ starts
        /\ (Talking(m, N + 1) <=> Talking(h, N)) <=> ~starts
    BY <1>5, <1>9, <1>11, <2>1, <2>5, <2>6
  <2>8. events'[c] = more
    <3>1. CASE starts
      <4>1. KindAt(m, N + 1) = "SPEECH_STARTED"
        BY <2>7, <3>1 DEF KindAt
      <4>2. events'[c] = Append(es, <<KindAt(m, N + 1), N + 1>>)
        BY <2>3, <3>1, <4>1
      <4>. QED  BY <1>10, <2>7, <3>1, <4>2
    <3>2. CASE ~starts
      BY <1>10, <2>3, <2>7, <3>2
    <3>. QED  BY <3>1, <3>2
  <2>9. Trailing(heard[c], speechFrames[c], TRUE)'
    BY <1>6, <2>2, <2>4 DEF Trailing
  <2>10. Trailing(heard[c], silenceFrames[c], FALSE)'
    BY <1>6, <2>2, <2>4 DEF Trailing
  <2>11. (speaking[c] <=> Talking(heard[c], Len(heard[c])))'
    BY <1>6, <2>2, <2>7 DEF Talking, Long
  <2>12. Reported(events[c], heard[c])'
    <3>1. Reported(events'[c], heard'[c])
      BY <1>0, <1>6, <2>8
    <3>. QED  BY <3>1 DEF Reported, Changes, KindAt, Talking, Long
  <2>. QED  BY <1>6, <2>9, <2>10, <2>11, <2>12 DEF Judged
<1>13. CASE v = FALSE
  <2>1. PICK ends \in BOOLEAN : ends <=> now /\ quiet + 1 >= Pause
    OBVIOUS
  <2>2. /\ speechFrames'[c] = 0 /\ silenceFrames'[c] = quiet + 1
        /\ speaking'[c] <=> now /\ ~ends
    BY <1>4, <1>5, <1>13, <2>1 DEF ProcessFrame, HearSilence, VadInv, Pause
  <2>3. events'[c] = IF ends THEN Append(es, <<"SPEECH_ENDED", N + 1>>) ELSE es
    BY <1>4, <1>5, <1>13, <2>1 DEF ProcessFrame, HearSilence, VadInv, Pause
  <2>4. Trailing(m, 0, TRUE) /\ Trailing(m, quiet + 1, FALSE)
    BY <1>7, <1>8, <1>13
  <2>5. Long(m, N + 1, Pause, FALSE) <=> Pause <= quiet + 1
    BY <1>3, <1>6, <1>11, <2>4, CountedRun
  <2>6. ~Long(m, N + 1, Enough, TRUE)
    <3>1. Long(m, N + 1, Enough, TRUE) <=> Enough <= 0
      BY <1>3, <1>6, <1>11, <2>4, CountedRun
    <3>2. ~ (Enough <= 0)
      BY <1>11
    <3>. QED  BY <3>1, <3>2, Zenon
  <2>7. /\ Talking(m, N + 1) <=> now /\ ~ends
        /\ (Talking(m, N + 1) <=> Talking(h, N)) <=> ~ends
    BY <1>5, <1>9, <1>11, <2>1, <2>5, <2>6
  <2>8. events'[c] = more
    <3>1. CASE ends
      <4>1. KindAt(m, N + 1) = "SPEECH_ENDED"
        BY <2>7, <3>1 DEF KindAt
      <4>2. events'[c] = Append(es, <<KindAt(m, N + 1), N + 1>>)
        BY <2>3, <3>1, <4>1
      <4>. QED  BY <1>10, <2>7, <3>1, <4>2
    <3>2. CASE ~ends
      BY <1>10, <2>3, <2>7, <3>2
    <3>. QED  BY <3>1, <3>2
  <2>9. Trailing(heard[c], speechFrames[c], TRUE)'
    BY <1>6, <2>2, <2>4 DEF Trailing
  <2>10. Trailing(heard[c], silenceFrames[c], FALSE)'
    BY <1>6, <2>2, <2>4 DEF Trailing
  <2>11. (speaking[c] <=> Talking(heard[c], Len(heard[c])))'
    BY <1>6, <2>2, <2>7 DEF Talking, Long
  <2>12. Reported(events[c], heard[c])'
    <3>1. Reported(events'[c], heard'[c])
      BY <1>0, <1>6, <2>8
    <3>. QED  BY <3>1 DEF Reported, Changes, KindAt, Talking, Long
  <2>. QED  BY <1>6, <2>9, <2>10, <2>11, <2>12 DEF Judged
<1>. QED  BY <1>12, <1>13

\* A call of which nothing has been heard.
LEMMA NothingHeard ==
    /\ Trailing(<<>>, 0, TRUE) /\ Trailing(<<>>, 0, FALSE)
    /\ ~Talking(<<>>, 0) /\ Reported(<<>>, <<>>) /\ <<>> \in Seq(BOOLEAN)
<1>1. Trailing(<<>>, 0, TRUE) /\ Trailing(<<>>, 0, FALSE)
  BY DEF Trailing
<1>2. ~Talking(<<>>, 0)
  BY DEF Talking
<1>3. Changes(<<>>) = {}
  BY DEF Changes
<1>4. Reported(<<>>, <<>>)
  BY <1>3, FS_EmptySet DEF Reported
<1>5. <<>> \in Seq(BOOLEAN)
  OBVIOUS
<1>. QED  BY <1>1, <1>2, <1>4, <1>5

\* Every call keeps a network to itself.
LEMMA ApartStep ==
    ASSUME VadInv, [VadNext]_vadVars
    PROVE  Apart'
<1>1. /\ networkOf \in [VadCalls -> Networks] /\ remembered \in [Networks -> Nat]
      /\ \A c, d \in VadCalls : networkOf[c] = networkOf[d] /\ networkOf[c] # Template => c = d
      /\ \A c \in VadCalls : networkOf[c] = Template => heard[c] = <<>>
      /\ \A c \in VadCalls : networkOf[c] # Template => remembered[networkOf[c]] = Len(heard[c])
      /\ heard \in [VadCalls -> Seq(BOOLEAN)]
  BY DEF VadInv, Apart
<1>2. CASE UNCHANGED vadVars
  BY <1>2 DEF VadInv, Apart, vadVars
<1>3. ASSUME NEW c \in VadCalls, OpenVad(c) PROVE Apart'
  <2>1. PICK fresh : /\ fresh = CHOOSE n \in Networks \ {Template} : \A d \in VadCalls : networkOf[d] # n
                     /\ fresh \in Networks \ {Template} /\ \A d \in VadCalls : networkOf[d] # fresh
    BY <1>3, FreshNetwork DEF VadInv, OpenVad
  <2>2. /\ networkOf' = [networkOf EXCEPT ![c] = fresh]
        /\ remembered' = [remembered EXCEPT ![fresh] = 0] /\ heard' = heard
    BY <1>3, <2>1 DEF OpenVad, CloneModel
  <2>3. heard[c] = <<>> /\ Len(heard[c]) = 0
    BY <1>1, <1>3 DEF OpenVad
  <2>. QED  BY <1>1, <2>1, <2>2, <2>3 DEF Apart
<1>4. ASSUME NEW c \in VadCalls, NEW v \in BOOLEAN, ProcessFrame(c, v) PROVE Apart'
  <2>1. /\ networkOf' = networkOf /\ networkOf[c] # Template
        /\ remembered' = [remembered EXCEPT ![networkOf[c]] = @ + 1]
        /\ heard' = [heard EXCEPT ![c] = Append(@, v)]
    BY <1>4 DEF ProcessFrame
  <2>2. Len(heard'[c]) = Len(heard[c]) + 1
    BY <1>1, <2>1
  <2>3. \A d \in VadCalls : d # c => heard'[d] = heard[d]
    BY <1>1, <2>1
  <2>4. remembered' \in [Networks -> Nat]
    BY <1>1, <2>1
  <2>5. ASSUME NEW d \in VadCalls, networkOf[d] # Template
        PROVE  remembered'[networkOf[d]] = Len(heard'[d])
    <3>1. CASE d = c
      BY <1>1, <2>1, <2>2, <3>1
    <3>2. CASE d # c
      <4>1. networkOf[d] # networkOf[c]
        BY <1>1, <2>5, <3>2
      <4>. QED  BY <1>1, <2>1, <2>3, <2>5, <3>2, <4>1
    <3>. QED  BY <3>1, <3>2
  <2>. QED  BY <1>1, <2>1, <2>3, <2>4, <2>5 DEF Apart
<1>5. ASSUME NEW c \in VadCalls, ResetVad(c) PROVE Apart'
  <2>1. /\ networkOf' = networkOf /\ networkOf[c] # Template
        /\ remembered' = [remembered EXCEPT ![networkOf[c]] = 0]
        /\ heard' = [heard EXCEPT ![c] = <<>>]
    BY <1>5 DEF ResetVad
  <2>2. Len(<<>>) = 0
    OBVIOUS
  <2>3. \A d \in VadCalls : networkOf[d] # Template => remembered'[networkOf[d]] = Len(heard'[d])
    BY <1>1, <2>1, <2>2
  <2>. QED  BY <1>1, <2>1, <2>3 DEF Apart
<1>. QED  BY <1>2, <1>3, <1>4, <1>5 DEF VadNext

\* Every step keeps the detector's invariant.
LEMMA VadStep == VadInv /\ [VadNext]_vadVars => VadInv'
<1> SUFFICES ASSUME VadInv, [VadNext]_vadVars PROVE VadInv'
  OBVIOUS
<1>1. Apart'
  BY ApartStep
<1>2. /\ heard \in [VadCalls -> Seq(BOOLEAN)] /\ speaking \in [VadCalls -> BOOLEAN]
      /\ frameIndex \in [VadCalls -> Nat]
      /\ speechFrames \in [VadCalls -> Nat] /\ silenceFrames \in [VadCalls -> Nat]
      /\ events \in [VadCalls -> Seq(Kinds \X Nat)]
      /\ \A d \in VadCalls : Judged(d)
  BY DEF VadInv
<1> DEFINE Same(d) == /\ heard'[d] = heard[d] /\ speaking'[d] = speaking[d]
                      /\ frameIndex'[d] = frameIndex[d] /\ events'[d] = events[d]
                      /\ speechFrames'[d] = speechFrames[d] /\ silenceFrames'[d] = silenceFrames[d]
<1>3. ASSUME NEW d \in VadCalls, Same(d) PROVE Judged(d)'
  <2>1. /\ frameIndex'[d] = Len(heard'[d])
        /\ Trailing(heard'[d], speechFrames'[d], TRUE)
        /\ Trailing(heard'[d], silenceFrames'[d], FALSE)
        /\ speaking'[d] <=> Talking(heard'[d], Len(heard'[d]))
        /\ Reported(events'[d], heard'[d])
    BY <1>2, <1>3 DEF Judged
  <2>2. Trailing(heard[d], speechFrames[d], TRUE)'
    BY <2>1 DEF Trailing
  <2>3. Trailing(heard[d], silenceFrames[d], FALSE)'
    BY <2>1 DEF Trailing
  <2>4. (speaking[d] <=> Talking(heard[d], Len(heard[d])))'
    BY <2>1 DEF Talking, Long
  <2>5. Reported(events[d], heard[d])'
    BY <2>1 DEF Reported, Changes, KindAt, Talking, Long
  <2>. QED  BY <2>1, <2>2, <2>3, <2>4, <2>5 DEF Judged
<1>4. CASE UNCHANGED <<heard, speaking, frameIndex, speechFrames, silenceFrames, events>>
  <2>1. \A d \in VadCalls : Judged(d)'
    BY <1>3, <1>4
  <2>. QED  BY <1>1, <1>2, <1>4, <2>1 DEF VadInv
<1>5. ASSUME NEW c \in VadCalls, NEW v \in BOOLEAN, ProcessFrame(c, v) PROVE VadInv'
  <2>1. Judged(c)'
    BY <1>5, FrameJudged
  <2>2. /\ \A d \in VadCalls : d # c => Same(d)
        /\ heard' \in [VadCalls -> Seq(BOOLEAN)] /\ frameIndex' \in [VadCalls -> Nat]
    <3>1. /\ heard' = [heard EXCEPT ![c] = Append(heard[c], v)]
          /\ frameIndex' = [frameIndex EXCEPT ![c] = frameIndex[c] + 1]
      BY <1>5 DEF ProcessFrame
    <3>2. Append(heard[c], v) \in Seq(BOOLEAN) /\ frameIndex[c] + 1 \in Nat
      BY <1>2
    <3>3. \A d \in VadCalls : d # c => Same(d)
      <4>1. CASE v = TRUE
        BY <1>2, <1>5, <4>1 DEF ProcessFrame, HearSpeech
      <4>2. CASE v = FALSE
        BY <1>2, <1>5, <4>2 DEF ProcessFrame, HearSilence
      <4>. QED  BY <4>1, <4>2
    <3>. QED  BY <1>2, <3>1, <3>2, <3>3
  <2>3. /\ speechFrames' \in [VadCalls -> Nat] /\ silenceFrames' \in [VadCalls -> Nat]
        /\ speaking' \in [VadCalls -> BOOLEAN]
    <3>1. CASE v = TRUE
      <4>1. /\ speechFrames' = [speechFrames EXCEPT ![c] = speechFrames[c] + 1]
            /\ silenceFrames' = [silenceFrames EXCEPT ![c] = 0]
            /\ \E b \in BOOLEAN : speaking' = [speaking EXCEPT ![c] = b]
        BY <1>5, <3>1 DEF ProcessFrame, HearSpeech
      <4>2. speechFrames[c] + 1 \in Nat
        BY <1>2
      <4>. QED  BY <1>2, <4>1, <4>2
    <3>2. CASE v = FALSE
      <4>1. /\ silenceFrames' = [silenceFrames EXCEPT ![c] = silenceFrames[c] + 1]
            /\ speechFrames' = [speechFrames EXCEPT ![c] = 0]
            /\ \E b \in BOOLEAN : speaking' = [speaking EXCEPT ![c] = b]
        BY <1>5, <3>2 DEF ProcessFrame, HearSilence
      <4>2. silenceFrames[c] + 1 \in Nat
        BY <1>2
      <4>. QED  BY <1>2, <4>1, <4>2
    <3>. QED  BY <3>1, <3>2
  <2>4. events' \in [VadCalls -> Seq(Kinds \X Nat)]
    <3>1. events'[c] \in Seq(Kinds \X Nat)
      BY <2>1 DEF Judged, Reported
    <3>2. events' = [events EXCEPT ![c] = events'[c]]
      BY <1>2, <1>5 DEF ProcessFrame, HearSpeech, HearSilence
    <3>. QED  BY <1>2, <3>1, <3>2
  <2>5. \A d \in VadCalls : Judged(d)'
    BY <1>3, <2>1, <2>2
  <2>. QED  BY <1>1, <2>2, <2>3, <2>4, <2>5 DEF VadInv
<1>6. ASSUME NEW c \in VadCalls, ResetVad(c) PROVE VadInv'
  <2>1. /\ heard' = [heard EXCEPT ![c] = <<>>] /\ speaking' = [speaking EXCEPT ![c] = FALSE]
        /\ frameIndex' = [frameIndex EXCEPT ![c] = 0] /\ events' = [events EXCEPT ![c] = <<>>]
        /\ speechFrames' = [speechFrames EXCEPT ![c] = 0]
        /\ silenceFrames' = [silenceFrames EXCEPT ![c] = 0]
    BY <1>6 DEF ResetVad
  <2>2. <<>> \in Seq(BOOLEAN) /\ <<>> \in Seq(Kinds \X Nat) /\ Len(<<>>) = 0
    OBVIOUS
  <2>3. /\ heard'[c] = <<>> /\ speaking'[c] = FALSE /\ frameIndex'[c] = 0
        /\ events'[c] = <<>> /\ speechFrames'[c] = 0 /\ silenceFrames'[c] = 0
    BY <1>2, <2>1
  <2>4. Judged(c)'
    BY <2>2, <2>3, NothingHeard DEF Judged, Trailing, Reported, Changes, KindAt, Talking, Long
  <2>5. \A d \in VadCalls : d # c => Same(d)
    BY <1>2, <2>1
  <2>6. \A d \in VadCalls : Judged(d)'
    BY <1>3, <2>4, <2>5
  <2>7. /\ heard' \in [VadCalls -> Seq(BOOLEAN)] /\ speaking' \in [VadCalls -> BOOLEAN]
        /\ frameIndex' \in [VadCalls -> Nat] /\ events' \in [VadCalls -> Seq(Kinds \X Nat)]
        /\ speechFrames' \in [VadCalls -> Nat] /\ silenceFrames' \in [VadCalls -> Nat]
    BY <1>2, <2>1, <2>2
  <2>. QED  BY <1>1, <2>6, <2>7 DEF VadInv
<1>7. ASSUME NEW c \in VadCalls, OpenVad(c)
      PROVE  UNCHANGED <<heard, speaking, frameIndex, speechFrames, silenceFrames, events>>
  BY <1>7 DEF OpenVad
<1>8. CASE UNCHANGED vadVars
  BY <1>4, <1>8 DEF vadVars
<1>. QED  BY <1>4, <1>5, <1>6, <1>7, <1>8 DEF VadNext

\* No call is open yet.
LEMMA InitVad == VadInit => VadInv
<1> SUFFICES ASSUME VadInit PROVE VadInv
  OBVIOUS
<1>1. Cardinality(VadCalls) \in Nat
  BY VadAssumption, FS_CardinalityType
<1>2. Apart
  BY <1>1 DEF VadInit, Apart, Networks, Template
<1>3. ASSUME NEW c \in VadCalls PROVE Judged(c)
  <2>1. /\ heard[c] = <<>> /\ speaking[c] = FALSE /\ frameIndex[c] = 0
        /\ events[c] = <<>> /\ speechFrames[c] = 0 /\ silenceFrames[c] = 0
    BY DEF VadInit
  <2>2. Len(<<>>) = 0
    OBVIOUS
  <2>. QED  BY <2>1, <2>2, NothingHeard DEF Judged
<1>4. <<>> \in Seq(BOOLEAN) /\ <<>> \in Seq(Kinds \X Nat)
  OBVIOUS
<1>. QED  BY <1>2, <1>3, <1>4 DEF VadInit, VadInv

\* See UtterancesHeard: for every length of the two runs, and any number of
\* calls that speak, open and close in any order.
THEOREM VoicesToldApart == VadSpec => []UtterancesHeard
<1>1. VadInv /\ [VadNext]_vadVars => VadInv'
  BY VadStep
<1>2. VadInv => UtterancesHeard
  <2> SUFFICES ASSUME VadInv, NEW c \in VadCalls,
                      NEW changes,
                      changes = {k \in 1 .. Len(heard[c]) : SpeakingAt(c, k) # SpeakingAt(c, k - 1)}
               PROVE  /\ networkOf[c] # Template => remembered[networkOf[c]] = Len(heard[c])
                      /\ Len(events[c]) = Cardinality(changes)
                      /\ {events[c][i][2] : i \in DOMAIN events[c]} = changes
                      /\ \A i \in DOMAIN events[c] :
                            events[c][i][1] = IF SpeakingAt(c, events[c][i][2])
                                              THEN "SPEECH_STARTED" ELSE "SPEECH_ENDED"
    BY DEF UtterancesHeard
  <2>1. \A k : SpeakingAt(c, k) <=> Talking(heard[c], k)
    BY DEF SpeakingAt, RunAt, Talking, Long, Enough, Pause
  <2>2. changes = Changes(heard[c])
    <3>1. \A k : SpeakingAt(c, k) \in BOOLEAN
      BY DEF SpeakingAt
    <3>. QED  BY <2>1, <3>1 DEF Changes
  <2>3. Reported(events[c], heard[c])
    BY DEF VadInv, Judged
  <2>4. networkOf[c] # Template => remembered[networkOf[c]] = Len(heard[c])
    BY DEF VadInv, Apart
  <2>. QED  BY <2>1, <2>2, <2>3, <2>4 DEF Reported, KindAt
<1>. QED  BY InitVad, <1>1, <1>2, PTL DEF VadSpec

-----------------------------------------------------------------------------
(* The decoder of the speech tokens. *)

\* How many windows n accepted tokens complete, as Windows.
Complete(n) == IF n < Window THEN 0 ELSE n \div PerFrame - WindowFrames + 1

\* The windows completed were decoded, but for the one that is being decoded.
Kept ==
    /\ played \in Seq(Seq(Nat))
    /\ \A i \in DOMAIN played : played[i] \in {<<>>, WindowAt(i)}
    /\ Len(played) <= Complete(count)
    /\ decoder \in {"asking", "taking"} => Len(played) = Complete(count)
    /\ decoder = "decoding" => Len(played) + 1 = Complete(count) /\ count % PerFrame = 0
    /\ IsFiniteSet({i \in DOMAIN played : played[i] # <<>>})
    /\ sequence = Cardinality({i \in DOMAIN played : played[i] # <<>>})

DecInv ==
    /\ decoder \in {"asking", "taking", "decoding", "over", "failed"}
    /\ tokens \in Seq(-1 .. PerFrame - 1) /\ offered \in 0 .. Len(tokens) /\ seen \in 0 .. offered
    /\ Accepts(buffer, seen) /\ count = Len(buffer)
    /\ Kept
    /\ decoder = "over" => engine # "running"

\* What the sizes of a frame and of a window are to each other.
LEMMA DecBounds ==
    /\ PerFrame \in Nat \ {0} /\ WindowFrames \in Nat \ {0}
    /\ Window = PerFrame * WindowFrames /\ Window \in Nat \ {0}
<1>1. PerFrame \in Nat \ {0} /\ WindowFrames \in Nat \ {0}
  BY DecoderAssumption
<1>2. ASSUME NEW p \in Nat \ {0}, NEW w \in Nat \ {0} PROVE p * w \in Nat \ {0}
  OBVIOUS
<1>. QED  BY <1>1, <1>2 DEF Window

\* A window has tokens.
LEMMA WindowTyped == Window \in Nat \ {0}
BY DecBounds

\* The windows by the frames.
LEMMA CompleteIs ==
    ASSUME NEW q \in Nat, NEW r \in 0 .. PerFrame - 1, NEW n, n = PerFrame * q + r
    PROVE  /\ n \in Nat /\ n % PerFrame = r
           /\ n < Window <=> q < WindowFrames
           /\ Complete(n) = IF q < WindowFrames THEN 0 ELSE q - WindowFrames + 1
<1>1. PICK p, w : p = PerFrame /\ w = WindowFrames /\ p \in Nat \ {0} /\ w \in Nat \ {0}
  BY DecBounds
<1>2. n \div p = q /\ n % p = r
  BY <1>1, Divided
<1>3. /\ p * q \in Nat /\ p * w \in Nat
      /\ q < w <=> p * q + p <= p * w
      /\ w <= q <=> p * w <= p * q
  BY <1>1, Factors
<1>4. n \in Nat /\ (n < p * w <=> q < w)
  BY <1>1, <1>3
<1>. QED  BY <1>1, <1>2, <1>4, DecBounds DEF Complete

\* A token completes a window if it is the last of a frame and enough came before.
LEMMA CompleteNext ==
    ASSUME NEW n \in Nat
    PROVE  /\ Complete(n) \in Nat
           /\ Complete(n + 1) = IF (n + 1) % PerFrame = 0 /\ n + 1 > Window - 1
                                THEN Complete(n) + 1 ELSE Complete(n)
<1>1. PICK p, w : p = PerFrame /\ w = WindowFrames /\ p \in Nat \ {0} /\ w \in Nat \ {0}
  BY DecBounds
<1>w. Window \in Nat
  BY DecBounds
<1>2. PICK q \in Nat, r \in 0 .. p - 1 :
           n = p * q + r /\ n \div p = q /\ n % p = r
  BY <1>1, Division, Zenon
<1>3. Complete(n) = IF q < w THEN 0 ELSE q - w + 1
  BY <1>1, <1>2, CompleteIs
<1>n. Complete(n) \in Nat
  BY <1>1, <1>2, <1>3
<1>4. CASE r + 1 < p
  <2>0. PICK m, k : m = n + 1 /\ k = r + 1 /\ k \in 1 .. p - 1 /\ k \in 0 .. p - 1
    BY <1>1, <1>2, <1>4
  <2>1. m = p * q + k
    BY <1>1, <1>2, <2>0, Factors
  <2>2. m % p = k /\ Complete(m) = IF q < w THEN 0 ELSE q - w + 1
    BY <1>1, <2>0, <2>1, CompleteIs
  <2>3. m % PerFrame # 0 /\ Complete(m) = Complete(n)
    <3>1. k # 0
      BY <1>1, <2>0
    <3>. QED  BY <1>1, <1>3, <2>2, <3>1
  <2>. QED  BY <1>n, <2>0, <2>3
<1>5. CASE r + 1 = p
  <2>0. PICK m, k : m = n + 1 /\ k = q + 1 /\ k \in Nat
    BY <1>2
  <2>1. m = p * k + 0 /\ 0 \in 0 .. p - 1
    BY <1>1, <1>2, <1>5, <2>0, Factors
  <2>2. /\ m % p = 0 /\ (m < Window <=> k < w)
        /\ Complete(m) = IF k < w THEN 0 ELSE k - w + 1
    BY <1>1, <2>0, <2>1, CompleteIs
  <2>3. m > Window - 1 <=> ~ (k < w)
    BY <1>w, <1>2, <2>0, <2>2
  <2>. QED  BY <1>1, <1>2, <1>3, <2>0, <2>2, <2>3
<1>. QED  BY <1>1, <1>2, <1>4, <1>5

\* Each window that is complete lies within the tokens, the last one at their
\* end when a frame does.
LEMMA WindowFits ==
    ASSUME NEW n \in Nat, NEW i \in 1 .. Complete(n)
    PROVE  /\ (i - 1) * PerFrame \in Nat
           /\ (i - 1) * PerFrame + Window <= n
           /\ i = Complete(n) /\ n % PerFrame = 0 => (i - 1) * PerFrame + Window = n
<1>1. PICK p, w : p = PerFrame /\ w = WindowFrames /\ p \in Nat \ {0} /\ w \in Nat \ {0}
  BY DecBounds
<1>2. PICK q \in Nat, r \in 0 .. p - 1 :
           n = p * q + r /\ n \div p = q /\ n % p = r
  BY <1>1, Division, Zenon
<1>3. Complete(n) = IF q < w THEN 0 ELSE q - w + 1
  BY <1>1, <1>2, CompleteIs
<1>4. i - 1 \in Nat /\ (i - 1) + w <= q /\ (i = Complete(n) => (i - 1) + w = q)
  BY <1>1, <1>2, <1>3
<1>5. PICK k : k = i - 1 /\ k \in Nat
  BY <1>4
<1>6. /\ k * p = p * k /\ p * k \in Nat /\ p * (k + w) = p * k + p * w
      /\ k + w \in Nat /\ p * w \in Nat /\ p * q \in Nat
  BY <1>1, <1>5
<1>7. k + w <= q => p * (k + w) <= p * q
  BY <1>1, <1>6, Factors
<1>8. k * p + p * w <= p * q /\ (i = Complete(n) => k * p + p * w = p * q)
  BY <1>4, <1>5, <1>6, <1>7
<1>. QED  BY <1>1, <1>2, <1>5, <1>6, <1>8, DecBounds

\* The next token is taken or skipped by its slot.
LEMMA AcceptsNext ==
    ASSUME NEW n \in Nat, NEW taken, Accepts(taken, n), NEW slot \in Int, tokens[n + 1] = slot
    PROVE  /\ slot < Len(taken) % PerFrame => Accepts(taken, n + 1)
           /\ slot >= Len(taken) % PerFrame => Accepts(Append(taken, n + 1), n + 1)
<1>1. /\ taken \in Seq(1 .. n)
      /\ \A i, j \in DOMAIN taken : i < j => taken[i] < taken[j]
      /\ \A i \in DOMAIN taken : tokens[taken[i]] >= (i - 1) % PerFrame
      /\ \A i \in 0 .. Len(taken), k \in 1 .. n :
            (i > 0 => taken[i] < k) /\ (i < Len(taken) => k < taken[i + 1])
               => tokens[k] < i % PerFrame
  BY DEF Accepts
<1>2. PICK L \in Nat : L = Len(taken) /\ DOMAIN taken = 1 .. L
  BY <1>1
<1>3. \A i \in 1 .. L : taken[i] \in 1 .. n
  BY <1>1, <1>2
<1>4. \A k \in 1 .. n + 1 : k \in 1 .. n \/ k = n + 1
  OBVIOUS
<1>5. CASE slot < L % PerFrame
  <2>1. taken \in Seq(1 .. n + 1)
    <3>1. 1 .. n \subseteq 1 .. n + 1
      OBVIOUS
    <3>. QED  BY <1>1, <3>1
  <2>2. ASSUME NEW i \in 0 .. L, NEW k \in 1 .. n + 1,
               i > 0 => taken[i] < k, i < L => k < taken[i + 1]
        PROVE  tokens[k] < i % PerFrame
    <3>1. CASE k \in 1 .. n
      BY <1>1, <1>2, <2>2, <3>1
    <3>2. CASE k = n + 1
      <4>1. i = L
        <5>1. i < L => i + 1 \in 1 .. L /\ taken[i + 1] \in 1 .. n
          BY <1>2, <1>3
        <5>. QED  BY <2>2, <3>2, <5>1
      <4>. QED  BY <1>5, <3>2, <4>1
    <3>. QED  BY <1>4, <3>1, <3>2
  <2>3. Accepts(taken, n + 1)
    BY <1>1, <1>2, <2>1, <2>2 DEF Accepts
  <2>. QED  BY <1>2, <1>5, <2>3, DecBounds
<1>6. CASE slot >= L % PerFrame
  <2>1. PICK more : more = Append(taken, n + 1)
    OBVIOUS
  <2>2. /\ Len(more) = L + 1 /\ DOMAIN more = 1 .. L + 1
        /\ more[L + 1] = n + 1 /\ \A i \in 1 .. L : more[i] = taken[i]
    BY <1>1, <1>2, <2>1
  <2>3. more \in Seq(1 .. n + 1)
    <3>1. 1 .. n \subseteq 1 .. n + 1 /\ n + 1 \in 1 .. n + 1
      OBVIOUS
    <3>2. taken \in Seq(1 .. n + 1)
      BY <1>1, <3>1
    <3>. QED  BY <2>1, <3>1, <3>2, AppendProperties
  <2>4. \A i \in 1 .. L + 1 : i \in 1 .. L \/ i = L + 1
    BY <1>2
  <2>5. ASSUME NEW i \in 1 .. L + 1, NEW j \in 1 .. L + 1, i < j PROVE more[i] < more[j]
    <3>1. i \in 1 .. L /\ more[i] = taken[i] /\ taken[i] \in 1 .. n
      <4>1. i \in 1 .. L
        BY <1>2, <2>5
      <4>. QED  BY <1>3, <2>2, <4>1
    <3>2. CASE j \in 1 .. L
      BY <1>1, <1>2, <2>2, <2>5, <3>1, <3>2
    <3>3. CASE j = L + 1
      BY <2>2, <3>1, <3>3
    <3>. QED  BY <2>4, <3>2, <3>3
  <2>6. ASSUME NEW i \in 1 .. L + 1 PROVE tokens[more[i]] >= (i - 1) % PerFrame
    <3>1. CASE i \in 1 .. L
      BY <1>1, <1>2, <2>2, <3>1
    <3>2. CASE i = L + 1
      <4>1. i - 1 = L
        BY <1>2, <3>2
      <4>. QED  BY <1>6, <2>2, <3>2, <4>1
    <3>. QED  BY <2>4, <3>1, <3>2
  <2>7. ASSUME NEW i \in 0 .. L + 1, NEW k \in 1 .. n + 1,
               i > 0 => more[i] < k, i < L + 1 => k < more[i + 1]
        PROVE  tokens[k] < i % PerFrame
    <3>1. i \in 0 .. L
      BY <1>2, <2>2, <2>7
    <3>2. i > 0 => taken[i] < k
      BY <1>2, <2>2, <2>7, <3>1
    <3>3. k \in 1 .. n /\ (i < L => k < taken[i + 1])
      <4>1. CASE i = L
        BY <1>2, <2>2, <2>7, <4>1
      <4>2. CASE i < L
        <5>1. i + 1 \in 1 .. L /\ more[i + 1] = taken[i + 1] /\ taken[i + 1] \in 1 .. n
          BY <1>2, <1>3, <2>2, <3>1, <4>2
        <5>. QED  BY <1>2, <2>7, <3>1, <5>1
      <4>. QED  BY <1>2, <3>1, <4>1, <4>2
    <3>. QED  BY <1>1, <1>2, <3>1, <3>2, <3>3
  <2>8. Accepts(more, n + 1)
    BY <2>2, <2>3, <2>5, <2>6, <2>7 DEF Accepts
  <2>. QED  BY <1>2, <1>6, <2>1, <2>8, DecBounds
<1>7. L % PerFrame \in Int
  BY DecBounds
<1>. QED  BY <1>2, <1>5, <1>6, <1>7

\* A window within the tokens stays what it is when there are more.
LEMMA WindowStays ==
    ASSUME NEW S, NEW b \in Seq(S), NEW e \in S, NEW lo \in Nat, NEW hi \in Nat, hi <= Len(b)
    PROVE  SubSeq(Append(b, e), lo + 1, hi) = SubSeq(b, lo + 1, hi)
<1>1. PICK more : more = Append(b, e)
  OBVIOUS
<1>2. PICK L \in Nat : L = Len(b)
  OBVIOUS
<1>3. Len(more) = L + 1 /\ \A i \in 1 .. L : more[i] = b[i]
  BY <1>1, <1>2
<1>4. \A i \in lo + 1 .. hi : i \in 1 .. L
  BY <1>2
<1>. QED  BY <1>1, <1>2, <1>3, <1>4

\* What is kept of the windows does not change while no token is taken and none
\* is decoded.
LEMMA KeptUntouched ==
    ASSUME DecInv, UNCHANGED <<buffer, count, sequence, played>>,
           decoder' \in {"asking", "taking"} => decoder \in {"asking", "taking"},
           decoder' # "decoding"
    PROVE  Kept'
BY DEF DecInv, Kept, WindowAt, Complete

\* A token that is taken or skipped leaves the windows in order.
LEMMA TakeTokenKeeps ==
    ASSUME DecInv, TakeToken
    PROVE  DecInv'
<1>1. /\ tokens \in Seq(-1 .. PerFrame - 1) /\ offered \in 0 .. Len(tokens) /\ seen \in 0 .. offered
      /\ Accepts(buffer, seen) /\ count = Len(buffer) /\ Kept
      /\ decoder = "taking" /\ seen < offered
      /\ tokens' = tokens /\ offered' = offered /\ engine' = engine
      /\ sequence' = sequence /\ played' = played /\ seen' = seen + 1
  BY DEF DecInv, TakeToken, NextToken
<1>2. PICK n, slot : /\ n = seen /\ n \in Nat /\ slot = tokens[n + 1] /\ slot \in Int
                     /\ n + 1 \in 0 .. offered
  <2>1. seen \in Nat /\ seen + 1 \in 1 .. Len(tokens) /\ seen + 1 \in 0 .. offered
    BY <1>1
  <2>2. tokens[seen + 1] \in -1 .. PerFrame - 1
    BY <1>1, <2>1, ElementOfSeq
  <2>. QED  BY <2>1, <2>2, DecBounds
<1>3. PICK b, c : b = buffer /\ c = count /\ c = Len(b) /\ Accepts(b, n) /\ b \in Seq(1 .. n) /\ c \in Nat
  <2>1. Accepts(buffer, n) /\ count = Len(buffer)
    BY <1>1, <1>2
  <2>2. buffer \in Seq(1 .. n)
    BY <2>1 DEF Accepts
  <2>3. Len(buffer) \in Nat
    BY <2>2
  <2>. QED  BY <2>1, <2>2, <2>3
<1>4. /\ slot < c % PerFrame => Accepts(b, n + 1)
      /\ slot >= c % PerFrame => Accepts(Append(b, n + 1), n + 1)
  BY <1>2, <1>3, AcceptsNext
<1>5. c % PerFrame \in Int
  BY <1>3, DecBounds
<1>6. CASE slot < c % PerFrame
  <2>1. decoder' = decoder /\ buffer' = buffer /\ count' = count
    BY <1>2, <1>3, <1>6 DEF TakeToken, NextToken
  <2>2. Accepts(buffer', seen')
    BY <1>1, <1>2, <1>3, <1>4, <1>6, <2>1
  <2>3. Accepts(buffer, seen)'
    BY <1>1, <2>2 DEF Accepts
  <2>4. Kept'
    BY <1>1, <2>1, KeptUntouched
  <2>. QED  BY <1>1, <1>2, <1>3, <2>1, <2>3, <2>4 DEF DecInv
<1>7. CASE ~ (slot < c % PerFrame)
  <2>1. /\ buffer' = Append(b, n + 1) /\ count' = c + 1
        /\ decoder' = IF (c + 1) % PerFrame = 0 /\ c + 1 > Window - 1 THEN "decoding" ELSE "taking"
    BY <1>1, <1>2, <1>3, <1>7 DEF TakeToken, NextToken
  <2>2. Accepts(buffer', seen')
    BY <1>1, <1>2, <1>4, <1>5, <1>7, <2>1
  <2>3. Accepts(buffer, seen)'
    BY <1>1, <2>2 DEF Accepts
  <2>4. count' = Len(buffer')
    BY <1>3, <2>1
  <2>5. /\ Complete(c) \in Nat
        /\ Complete(c + 1) = IF (c + 1) % PerFrame = 0 /\ c + 1 > Window - 1
                             THEN Complete(c) + 1 ELSE Complete(c)
    BY <1>3, CompleteNext
  <2>6. /\ played \in Seq(Seq(Nat)) /\ Len(played) = Complete(c)
        /\ \A i \in DOMAIN played : played[i] \in {<<>>, WindowAt(i)}
    BY <1>1, <1>3 DEF Kept
  <2>7. ASSUME NEW i \in DOMAIN played PROVE played[i] \in {<<>>, WindowAt(i)'}
    <3>1. i \in 1 .. Complete(c)
      BY <2>6
    <3>2. PICK lo : lo = (i - 1) * PerFrame /\ lo \in Nat /\ lo + Window <= c
      BY <1>3, <2>5, <3>1, WindowFits
    <3>3. SubSeq(Append(b, n + 1), lo + 1, lo + Window) = SubSeq(b, lo + 1, lo + Window)
      <4>1. PICK hi : hi = lo + Window /\ hi \in Nat /\ hi <= Len(b)
        BY <1>3, <3>2, WindowTyped
      <4>2. PICK S, e : b \in Seq(S) /\ e \in S /\ e = n + 1
        <5>1. 1 .. n \subseteq 1 .. n + 1
          BY <1>2
        <5>2. b \in Seq(1 .. n + 1) /\ n + 1 \in 1 .. n + 1
          BY <1>2, <1>3, <5>1
        <5>. QED  BY <5>2, Zenon
      <4>3. SubSeq(Append(b, e), lo + 1, hi) = SubSeq(b, lo + 1, hi)
        <5>1. lo \in Nat /\ hi \in Nat /\ hi <= Len(b) /\ b \in Seq(S) /\ e \in S
          BY <3>2, <4>1, <4>2
        <5>. QED  BY <5>1, WindowStays
      <4>. QED  BY <4>1, <4>2, <4>3
    <3>4. WindowAt(i)' = WindowAt(i)
      BY <1>3, <2>1, <3>2, <3>3 DEF WindowAt
    <3>. QED  BY <2>6, <3>4
  <2>8. /\ (decoder \in {"asking", "taking"} => Len(played) = Complete(count))'
        /\ (decoder = "decoding" => Len(played) + 1 = Complete(count) /\ count % PerFrame = 0)'
        /\ (Len(played) <= Complete(count))'
    <3>1. PICK k, m : k = Complete(c) /\ m = Complete(c + 1) /\ k \in Nat
      BY <2>5
    <3>2. Complete(count)' = m /\ Len(played') = k
      BY <1>1, <2>1, <2>6, <3>1 DEF Complete
    <3>3. /\ decoder' = "decoding" => m = k + 1 /\ (c + 1) % PerFrame = 0
          /\ decoder' # "decoding" => m = k
      BY <2>1, <2>5, <3>1
    <3>4. decoder' \in {"taking", "decoding"} /\ count' = c + 1
      BY <2>1
    <3>. QED  BY <3>1, <3>2, <3>3, <3>4
  <2>9. Kept'
    BY <1>1, <2>7, <2>8 DEF Kept
  <2>. QED  BY <1>1, <1>2, <2>1, <2>3, <2>4, <2>9 DEF DecInv
<1>. QED  BY <1>6, <1>7

\* A window more, decoded to audio or to nothing.
LEMMA PlayedKeeps ==
    ASSUME DecInv, decoder = "decoding", NEW w \in {<<>>, LastWindow},
           played' = Append(played, w), UNCHANGED <<buffer, count>>,
           sequence' = IF w = <<>> THEN sequence ELSE sequence + 1,
           decoder' = "taking"
    PROVE  Kept'
<1>1. /\ buffer \in Seq(1 .. seen) /\ seen \in Nat /\ count = Len(buffer) /\ Kept
  BY DEF DecInv, Accepts
<1>2. PICK c, k : c = count /\ k = Complete(c) /\ c \in Nat /\ k \in Nat /\ c % PerFrame = 0
  BY <1>1, CompleteNext DEF Kept
<1>3. PICK n \in Nat : n = Len(played) /\ n + 1 = k /\ DOMAIN played = 1 .. n
  BY <1>1, <1>2 DEF Kept
<1>4. PICK lo : lo = (k - 1) * PerFrame /\ lo \in Nat /\ lo + Window = c
  BY <1>2, <1>3, WindowFits
<1>5. WindowAt(k) = LastWindow
  <2>1. c - Window + 1 = lo + 1
    BY <1>2, <1>4, WindowTyped
  <2>. QED  BY <1>1, <1>2, <1>4, <2>1 DEF WindowAt, LastWindow
<1>6. LastWindow \in Seq(Nat)
  <2>1. \A i \in c - Window + 1 .. c : buffer[i] \in Nat
    <3>1. \A i \in c - Window + 1 .. c : i \in 1 .. c
      BY <1>2, <1>4, WindowTyped
    <3>. QED  BY <1>1, <1>2, <3>1
  <2>2. c - Window + 1 \in Int /\ c \in Int
    BY <1>2, WindowTyped
  <2>3. SubSeq(buffer, c - Window + 1, c) \in Seq(Nat)
    BY <2>1, <2>2, SubSeqProperties
  <2>. QED  BY <1>1, <1>2, <2>3 DEF LastWindow
<1>7. PICK more : more = Append(played, w)
  OBVIOUS
<1>8. /\ more \in Seq(Seq(Nat)) /\ Len(more) = n + 1 /\ DOMAIN more = 1 .. n + 1
      /\ more[n + 1] = w /\ \A i \in 1 .. n : more[i] = played[i]
  <2>1. played \in Seq(Seq(Nat)) /\ w \in Seq(Nat)
    <3>1. <<>> \in Seq(Nat)
      OBVIOUS
    <3>2. w \in Seq(Nat)
      BY <1>6, <3>1
    <3>. QED  BY <1>1, <3>2 DEF Kept
  <2>. QED  BY <1>3, <1>7, <2>1
<1>9. \A i \in 1 .. n + 1 : i \in 1 .. n \/ i = n + 1
  OBVIOUS
<1>10. \A i \in 1 .. n + 1 : more[i] \in {<<>>, WindowAt(i)}
  BY <1>1, <1>3, <1>5, <1>8, <1>9 DEF Kept
<1>11. PICK heardBefore : heardBefore = {i \in 1 .. n : played[i] # <<>>}
  OBVIOUS
<1>12. IsFiniteSet(heardBefore) /\ sequence = Cardinality(heardBefore)
  BY <1>1, <1>3, <1>11 DEF Kept
<1>13. PICK heardNow : heardNow = {i \in 1 .. n + 1 : more[i] # <<>>}
  OBVIOUS
<1>14. IsFiniteSet(heardNow) /\ sequence' = Cardinality(heardNow)
  <2>1. CASE w = <<>>
    <3>1. heardNow = heardBefore
      <4>1. \A i \in 1 .. n : i \in 1 .. n + 1 /\ more[i] = played[i]
        BY <1>8
      <4>2. n + 1 \notin heardNow
        BY <1>8, <1>13, <2>1
      <4>. QED  BY <1>9, <1>11, <1>13, <4>1, <4>2
    <3>. QED  BY <1>12, <2>1, <3>1
  <2>2. CASE w # <<>>
    <3>1. heardNow = heardBefore \cup {n + 1} /\ n + 1 \notin heardBefore
      <4>1. \A i \in 1 .. n : i \in 1 .. n + 1 /\ more[i] = played[i] /\ i # n + 1
        BY <1>8
      <4>2. n + 1 \in heardNow
        BY <1>8, <1>13, <2>2
      <4>. QED  BY <1>9, <1>11, <1>13, <4>1, <4>2
    <3>2. /\ IsFiniteSet(heardBefore \cup {n + 1})
          /\ Cardinality(heardBefore \cup {n + 1}) = Cardinality(heardBefore) + 1
      BY <1>12, <3>1, FS_AddElement, Zenon
    <3>3. heardNow = heardBefore \cup {n + 1}
      BY <3>1
    <3>. QED  BY <1>12, <2>2, <3>2, <3>3
  <2>. QED  BY <2>1, <2>2
<1>15. \A i \in DOMAIN played' : played'[i] \in {<<>>, WindowAt(i)'}
  BY <1>7, <1>8, <1>10 DEF WindowAt
<1>16. Complete(count)' = k /\ Len(played') = k
  BY <1>2, <1>3, <1>7, <1>8 DEF Complete
<1>17. {i \in DOMAIN played' : played'[i] # <<>>} = heardNow
  BY <1>7, <1>8, <1>13
<1>18. played' \in Seq(Seq(Nat)) /\ Len(played') \in Nat
  BY <1>7, <1>8
<1>19. /\ IsFiniteSet({i \in DOMAIN played : played[i] # <<>>})'
       /\ (sequence = Cardinality({i \in DOMAIN played : played[i] # <<>>}))'
  BY <1>14, <1>17
<1>20. /\ (decoder \in {"asking", "taking"} => Len(played) = Complete(count))'
       /\ (decoder = "decoding" => Len(played) + 1 = Complete(count) /\ count % PerFrame = 0)'
       /\ (Len(played) <= Complete(count))'
  BY <1>2, <1>16, <1>18
<1>. QED  BY <1>15, <1>18, <1>19, <1>20 DEF Kept

\* Every step keeps the decoder's invariant.
LEMMA DecStep == DecInv /\ [DecNext]_decVars => DecInv'
<1> SUFFICES ASSUME DecInv, [DecNext]_decVars PROVE DecInv'
  OBVIOUS
<1>1. /\ decoder \in {"asking", "taking", "decoding", "over", "failed"}
      /\ tokens \in Seq(-1 .. PerFrame - 1) /\ offered \in 0 .. Len(tokens) /\ seen \in 0 .. offered
      /\ Accepts(buffer, seen) /\ count = Len(buffer) /\ Kept
      /\ decoder = "over" => engine # "running"
  BY DEF DecInv
<1>2. ASSUME UNCHANGED <<tokens, seen, buffer>> PROVE Accepts(buffer, seen)'
  BY <1>1, <1>2 DEF Accepts
<1>3. CASE UNCHANGED decVars
  BY <1>1, <1>2, <1>3, KeptUntouched DEF decVars, DecInv, Kept, Complete, WindowAt
<1>4. ASSUME NEW slot \in -1 .. PerFrame - 1, Generate(slot) PROVE DecInv'
  <2>1. tokens' = Append(tokens, slot) /\ UNCHANGED <<engine, decoder, offered, seen, buffer, count, sequence, played>>
    BY <1>4 DEF Generate
  <2>2. /\ tokens' \in Seq(-1 .. PerFrame - 1) /\ Len(tokens') = Len(tokens) + 1
        /\ \A k \in 1 .. Len(tokens) : tokens'[k] = tokens[k]
    BY <1>1, <1>4, <2>1
  <2>3. \A k \in 1 .. seen : tokens'[k] = tokens[k]
    BY <1>1, <2>2
  <2>4. Accepts(buffer, seen)'
    <3>1. \A i \in DOMAIN buffer : tokens'[buffer[i]] = tokens[buffer[i]]
      <4>1. \A i \in DOMAIN buffer : buffer[i] \in 1 .. seen
        BY <1>1 DEF Accepts
      <4>. QED  BY <2>3, <4>1
    <3>2. \A i \in DOMAIN buffer : tokens'[buffer[i]] >= (i - 1) % PerFrame
      BY <1>1, <3>1 DEF Accepts
    <3>3. \A i \in 0 .. Len(buffer), k \in 1 .. seen :
             (i > 0 => buffer[i] < k) /\ (i < Len(buffer) => k < buffer[i + 1])
                => tokens'[k] < i % PerFrame
      BY <1>1, <2>3 DEF Accepts
    <3>4. buffer \in Seq(1 .. seen) /\ \A i, j \in DOMAIN buffer : i < j => buffer[i] < buffer[j]
      BY <1>1 DEF Accepts
    <3>5. buffer' = buffer /\ seen' = seen
      BY <2>1
    <3>. QED  BY <3>2, <3>3, <3>4, <3>5 DEF Accepts
  <2>5. Kept'
    BY <1>1, <2>1 DEF Kept, Complete, WindowAt
  <2>. QED  BY <1>1, <2>1, <2>2, <2>4, <2>5 DEF DecInv
<1>5. CASE EngineStops \/ CancelSynthesis
  <2>1. UNCHANGED <<tokens, decoder, offered, seen, buffer, count, sequence, played>>
    BY <1>5 DEF EngineStops, CancelSynthesis
  <2>2. engine' = engine \/ engine' # "running"
    BY <1>5 DEF EngineStops, CancelSynthesis
  <2>3. Kept'
    BY <1>1, <2>1 DEF Kept, Complete, WindowAt
  <2>. QED  BY <1>1, <1>2, <2>1, <2>2, <2>3 DEF DecInv
<1>6. CASE Callback \/ StreamEnds \/ CallbackDone
  <2>1. /\ UNCHANGED <<tokens, seen, buffer, count, sequence, played>>
        /\ decoder \in {"asking", "taking"} /\ decoder' \in {"asking", "taking", "over"}
        /\ offered' \in {offered, Len(tokens)}
        /\ decoder' = "over" => engine' # "running"
    BY <1>6 DEF Callback, StreamEnds, CallbackDone, Aborted
  <2>2. offered' \in 0 .. Len(tokens') /\ seen' \in 0 .. offered'
    BY <1>1, <2>1
  <2>3. Kept'
    BY <2>1, KeptUntouched
  <2>. QED  BY <1>1, <1>2, <2>1, <2>2, <2>3 DEF DecInv
<1>7. CASE TakeToken
  BY <1>7, TakeTokenKeeps
<1>8. CASE Decoded
  <2>1. UNCHANGED <<tokens, offered, seen, buffer, count>> /\ decoder = "decoding"
    BY <1>8 DEF Decoded
  <2>2. CASE ttsCancelled
    <3>1. /\ decoder' = "over" /\ engine' # "running" /\ UNCHANGED <<sequence, played>>
      BY <1>8, <2>2 DEF Decoded, Aborted
    <3>2. Kept'
      BY <2>1, <3>1, KeptUntouched
    <3>. QED  BY <1>1, <1>2, <2>1, <3>1, <3>2 DEF DecInv
  <2>3. CASE ~ttsCancelled
    <3>1. /\ decoder' = "taking" /\ sequence' = sequence + 1 /\ played' = Append(played, LastWindow)
      BY <1>8, <2>3 DEF Decoded
    <3>2. LastWindow # <<>>
      <4>1. count \in Nat /\ Complete(count) >= 1
        <5>1. Len(played) + 1 = Complete(count) /\ Len(played) \in Nat /\ count \in Nat
          BY <1>1, <2>1 DEF Kept, Accepts
        <5>. QED  BY <5>1
      <4>2. count >= Window
        <5>1. count < Window => Complete(count) = 0
          BY DEF Complete
        <5>2. ~ (count < Window)
          BY <4>1, <5>1
        <5>. QED  BY <4>1, <5>2, WindowTyped
      <4>3. Len(LastWindow) = Window
        <5>1. LastWindow = SubSeq(buffer, count - Window + 1, count)
          BY <1>1 DEF LastWindow
        <5>2. \A i \in count - Window + 1 .. count : buffer[i] \in 1 .. seen
          <6>1. \A i \in count - Window + 1 .. count : i \in 1 .. count
            BY <4>1, <4>2, WindowTyped
          <6>. QED  BY <1>1, <6>1 DEF Accepts
        <5>3. count - Window + 1 \in Int /\ count \in Int /\ count - Window + 1 <= count
          BY <4>1, WindowTyped
        <5>4. Len(SubSeq(buffer, count - Window + 1, count)) = count - (count - Window + 1) + 1
          BY <5>2, <5>3, SubSeqProperties
        <5>. QED  BY <4>1, <5>1, <5>4, WindowTyped
      <4>. QED  BY <4>3, WindowTyped
    <3>3. Kept'
      BY <2>1, <3>1, <3>2, PlayedKeeps
    <3>. QED  BY <1>1, <1>2, <2>1, <3>1, <3>3 DEF DecInv
  <2>. QED  BY <2>2, <2>3
<1>9. CASE NotDecoded
  <2>1. UNCHANGED <<tokens, engine, offered, seen, buffer, count, sequence>> /\ decoder = "decoding"
    BY <1>9 DEF NotDecoded
  <2>2. CASE decoder' = "taking" /\ played' = Append(played, <<>>)
    <3>1. Kept'
      BY <2>1, <2>2, PlayedKeeps
    <3>. QED  BY <1>1, <1>2, <2>1, <2>2, <3>1 DEF DecInv
  <2>3. CASE decoder' = "failed" /\ played' = played
    <3>1. Kept'
      BY <2>1, <2>3, KeptUntouched
    <3>. QED  BY <1>1, <1>2, <2>1, <2>3, <3>1 DEF DecInv
  <2>. QED  BY <1>9, <2>2, <2>3 DEF NotDecoded
<1>. QED  BY <1>3, <1>4, <1>5, <1>6, <1>7, <1>8, <1>9 DEF DecNext

\* No token has come yet.
LEMMA InitDec == DecInit => DecInv
<1> SUFFICES ASSUME DecInit PROVE DecInv
  OBVIOUS
<1>1. /\ decoder = "asking" /\ tokens = <<>> /\ offered = 0 /\ seen = 0 /\ buffer = <<>>
      /\ count = 0 /\ sequence = 0 /\ played = <<>>
  BY DEF DecInit
<1>2. Accepts(buffer, seen)
  BY <1>1 DEF Accepts
<1>3. Complete(0) = 0
  BY DecBounds DEF Complete
<1>4. {i \in DOMAIN played : played[i] # <<>>} = {}
  BY <1>1
<1>5. Kept
  BY <1>1, <1>3, <1>4, FS_EmptySet DEF Kept
<1>6. tokens \in Seq(-1 .. PerFrame - 1) /\ Len(tokens) = 0 /\ Len(buffer) = 0
  BY <1>1
<1>. QED  BY <1>1, <1>2, <1>5, <1>6 DEF DecInv

\* See DecodedByToken: for any size of a frame and of a window, and callbacks
\* that bring any number of tokens.
THEOREM WindowsInOrder == DecSpec => []DecodedByToken
<1>1. DecInv => DecodedByToken
  BY DEF DecInv, Kept, DecodedByToken, Windows, Complete
<1>. QED  BY InitDec, DecStep, <1>1, PTL DEF DecSpec
==============================================================================
