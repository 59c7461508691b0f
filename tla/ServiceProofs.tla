----------------------------- MODULE ServiceProofs -----------------------------
(***************************************************************************)
(* Proofs about the parts around the sessions: the rate limiter, the       *)
(* health registry, the life of the models and the settings, for every set *)
(* of requests, probes, calls, devices and sources, and every limit.       *)
(***************************************************************************)
EXTENDS RequestGate, HealthRegistry, ModelRuntime, Settings, DataLemmas

-----------------------------------------------------------------------------
\* The rate limiter.

GateTypes ==
    /\ instant \in Nat
    /\ DOMAIN hits \subseteq Clients /\ hits \in [DOMAIN hits -> Seq(Nat)]
    /\ admitted \in [Clients -> Seq(Nat)]

\* Admissions are dated in order, and none lies in the future.
Dated ==
    \A c \in Clients :
        /\ \A k \in DOMAIN admitted[c] : admitted[c][k] <= instant
        /\ \A j, k \in DOMAIN admitted[c] : j <= k => admitted[c][j] <= admitted[c][k]

\* This is a deque of c that has the latest admissions, within the limit, and
\* lacks only what is out of the window.
Tracks(c, times) ==
    /\ times \in Seq(Nat) /\ Len(times) <= MaxRequests /\ Len(times) <= Len(admitted[c])
    /\ \A i \in DOMAIN times : times[i] = admitted[c][Len(admitted[c]) - Len(times) + i]
    /\ \A k \in 1 .. Len(admitted[c]) - Len(times) : admitted[c][k] < instant - RateWindow

Tracked == \A c \in Clients : Tracks(c, HitsOf(c))

\* Between an admission and the one MaxRequests later is more than a window.
Spaced ==
    \A c \in Clients : \A k \in DOMAIN admitted[c] :
        k + MaxRequests \in DOMAIN admitted[c] =>
            admitted[c][k] + RateWindow < admitted[c][k + MaxRequests]

Refusals ==
    refusal = NoRefusal \/
    /\ refusal.client \in Clients /\ refusal.at \in 0 .. instant /\ refusal.retry \in Nat

GateInv == /\ GateTypes /\ Dated /\ Tracked /\ Spaced /\ Refusals
           /\ RefusedWithCause

LEMMA GateBounds ==
    /\ MaxRequests \in Nat \ {0} /\ WindowSeconds \in Nat \ {0} /\ TicksPerSecond \in Nat \ {0}
    /\ RateWindow \in Nat
<1>1. MaxRequests \in Nat \ {0} /\ WindowSeconds \in Nat \ {0} /\ TicksPerSecond \in Nat \ {0}
  BY GateAssumption
<1>. QED  BY <1>1 DEF RateWindow

\* Whole seconds, rounded up past the end, last longer than what is left.
LEMMA SecondsEnough ==
    ASSUME NEW left \in Nat, NEW t \in Nat \ {0}
    PROVE  left \div t \in Nat /\ (left \div t + 1) * t > left
<1>1. left \div t \in Nat
  OBVIOUS
<1>2. left = t * (left \div t) + (left % t) /\ left % t \in 0 .. t - 1
  OBVIOUS
<1> DEFINE d == left \div t
           m == left % t
<1>3. d \in Nat /\ m \in 0 .. t - 1 /\ left = t * d + m
  BY <1>1, <1>2
<1> HIDE DEF d, m
<1>4. (d + 1) * t = t * d + t
  BY <1>3
<1>5. (d + 1) * t > left
  BY <1>3, <1>4
<1>. QED  BY <1>1, <1>5 DEF d

LEMMA HitsTyped ==
    ASSUME GateTypes, NEW c \in Clients
    PROVE  HitsOf(c) \in Seq(Nat)
BY DEF GateTypes, HitsOf

\* What an eviction leaves.
LEMMA Evicted ==
    ASSUME GateTypes, Dated, Tracked, NEW c \in Clients,
           NEW live, live = EvictExpired(HitsOf(c))
    PROVE  /\ Tracks(c, live)
           /\ \A i \in DOMAIN live : live[i] >= instant - RateWindow
           /\ Len(live) = AdmittedIn(c, instant - RateWindow, instant)
<1> DEFINE q == HitsOf(c)
           a == admitted[c]
           cutoff == instant - RateWindow
           gone == {k \in DOMAIN q : \A j \in 1 .. k : q[j] < cutoff}
           g == Cardinality(gone)
           N == Len(a)
           n == Len(q)
<1>t. /\ q \in Seq(Nat) /\ a \in Seq(Nat) /\ N \in Nat /\ n \in Nat /\ cutoff \in Int
      /\ instant \in Nat /\ RateWindow \in Nat /\ MaxRequests \in Nat
  BY HitsTyped, GateBounds DEF GateTypes
<1>d. /\ \A k \in 1 .. N : a[k] <= instant /\ a[k] \in Nat
      /\ \A j, k \in 1 .. N : j <= k => a[j] <= a[k]
  <2>1. DOMAIN a = 1 .. N /\ \A k \in 1 .. N : a[k] \in Nat
    BY <1>t
  <2>2. /\ \A k \in DOMAIN a : a[k] <= instant
        /\ \A j, k \in DOMAIN a : j <= k => a[j] <= a[k]
    BY DEF Dated
  <2>. QED  BY <2>1, <2>2
<1>k. /\ n <= MaxRequests /\ n <= N /\ \A i \in 1 .. n : q[i] = a[N - n + i]
      /\ \A k \in 1 .. N - n : a[k] < cutoff
  <2>1. Tracks(c, q)
    BY DEF Tracked
  <2>2. DOMAIN q = 1 .. n
    BY <1>t
  <2>. QED  BY <2>1, <2>2 DEF Tracks
<1>l. live = SubSeq(q, g + 1, n)
  BY DEF EvictExpired
<1> HIDE DEF q, a, cutoff
<1>g. g \in 0 .. n /\ \A i \in 1 .. n : i <= g <=> q[i] < cutoff
  <2>1. \A j, k \in 1 .. n : j <= k => q[j] <= q[k]
    <3> SUFFICES ASSUME NEW j \in 1 .. n, NEW k \in 1 .. n, j <= k PROVE q[j] <= q[k]
      OBVIOUS
    <3>1. N - n + j \in 1 .. N /\ N - n + k \in 1 .. N /\ N - n + j <= N - n + k
      <4>1. N \in Nat /\ n \in Nat /\ n <= N
        BY <1>t, <1>k
      <4> HIDE DEF N, n
      <4>. QED  BY <4>1
    <3>2. a[N - n + j] <= a[N - n + k]
      BY <1>d, <3>1
    <3>3. q[j] = a[N - n + j] /\ q[k] = a[N - n + k]
      BY <1>k
    <3>. QED  BY <3>2, <3>3
  <2>2. \A k \in 1 .. n : k \in gone <=> q[k] < cutoff
    BY <1>t, <2>1
  <2>3. \E m \in 0 .. n : \A k \in 1 .. n : q[k] < cutoff <=> k <= m
    <3>1. CASE \A k \in 1 .. n : q[k] < cutoff
      <4>1. n \in 0 .. n /\ \A k \in 1 .. n : k <= n
        BY <1>t
      <4>. QED  BY <3>1, <4>1
    <3>2. CASE \E k \in 1 .. n : ~ (q[k] < cutoff)
      <4> DEFINE B == {k \in 1 .. n : ~ (q[k] < cutoff)}
      <4>1. PICK b \in B : \A k \in B : b <= k
        <5>1. B \in SUBSET Nat /\ B # {}
          BY <3>2
        <5>. QED  BY <5>1, LeastNumber
      <4>2. b - 1 \in 0 .. n /\ \A k \in 1 .. n : k <= b - 1 => q[k] < cutoff
        BY <1>t, <4>1
      <4>3. \A k \in 1 .. n : q[k] < cutoff => k <= b - 1
        BY <1>t, <2>1, <4>1
      <4>. QED  BY <4>2, <4>3
    <3>. QED  BY <3>1, <3>2
  <2>4. PICK m \in 0 .. n : \A k \in 1 .. n : q[k] < cutoff <=> k <= m
    BY <2>3
  <2>5. gone \in SUBSET (1 .. n) /\ \A k \in 1 .. n : k \in gone <=> k <= m
    BY <1>t, <2>2, <2>4
  <2> HIDE DEF gone
  <2>6. g = m
    BY <1>t, <2>4, <2>5, PrefixCount
  <2>. QED  BY <2>4, <2>6
<1> HIDE DEF g, gone
<1>s. /\ live \in Seq(Nat) /\ Len(live) = n - g /\ \A i \in 1 .. n - g : live[i] = q[g + i]
  BY <1>t, <1>l, <1>g
<1> HIDE DEF n, N
<1>1. \A i \in 1 .. n - g : live[i] = a[N - (n - g) + i] /\ live[i] >= cutoff
  <2>1. \A i \in 1 .. n - g : g + i \in 1 .. n /\ ~ (g + i <= g) /\ N - n + (g + i) = N - (n - g) + i
                              /\ N - (n - g) + i \in 1 .. N
    BY <1>t, <1>g, <1>k
  <2>2. \A i \in 1 .. n - g : live[i] = q[g + i] /\ q[g + i] = a[N - n + (g + i)] /\ ~ (q[g + i] < cutoff)
    BY <1>s, <1>g, <1>k, <2>1
  <2>3. \A i \in 1 .. n - g : live[i] = a[N - (n - g) + i]
    BY <2>1, <2>2
  <2>4. \A i \in 1 .. n - g : live[i] \in Nat /\ ~ (live[i] < cutoff)
    BY <1>d, <2>1, <2>2, <2>3
  <2>. QED  BY <1>t, <2>3, <2>4
<1>2. \A k \in 1 .. N - (n - g) : a[k] < cutoff
  <2> SUFFICES ASSUME NEW k \in 1 .. N - (n - g) PROVE a[k] < cutoff
    OBVIOUS
  <2>1. CASE k <= N - n
    BY <1>t, <1>k, <2>1
  <2>2. CASE k > N - n
    <3>1. k - (N - n) \in 1 .. n /\ k - (N - n) <= g /\ N - n + (k - (N - n)) = k
      BY <1>t, <1>g, <1>k, <2>2
    <3>. QED  BY <1>g, <1>k, <3>1
  <2>. QED  BY <1>t, <2>1, <2>2
<1>3. Tracks(c, live)
  <2>1. Len(live) <= MaxRequests /\ Len(live) <= N
    BY <1>t, <1>s, <1>g, <1>k
  <2>. QED  BY <1>s, <1>1, <1>2, <2>1 DEF Tracks, N, a, cutoff
<1>4. Len(live) = AdmittedIn(c, cutoff, instant)
  <2> DEFINE K == {k \in 1 .. N : a[k] \in cutoff .. instant}
             f == N - (n - g)
  <2>1. f \in 0 .. N /\ N - f = n - g
    BY <1>t, <1>g, <1>k
  <2>2. \A k \in 1 .. N : a[k] \in cutoff .. instant <=> k > f
    <3> SUFFICES ASSUME NEW k \in 1 .. N PROVE a[k] \in cutoff .. instant <=> k > f
      OBVIOUS
    <3>1. CASE k <= f
      <4>1. a[k] < cutoff /\ a[k] \in Nat
        BY <1>2, <1>d, <1>t, <2>1, <3>1
      <4>. QED  BY <1>t, <2>1, <3>1, <4>1
    <3>2. CASE k > f
      <4>1. k - f \in 1 .. n - g /\ N - (n - g) + (k - f) = k
        BY <1>t, <2>1, <3>2
      <4>2. a[k] >= cutoff
        BY <1>1, <4>1
      <4>. QED  BY <1>t, <1>d, <2>1, <3>2, <4>2
    <3>. QED  BY <1>t, <2>1, <3>1, <3>2
  <2>3. K = (f + 1) .. N
    <3> HIDE DEF f
    <3>1. \A k : k \in (f + 1) .. N <=> k \in 1 .. N /\ k > f
      BY <1>t, <2>1
    <3>. QED  BY <2>2, <3>1
  <2>4. Cardinality(K) = n - g
    <3> HIDE DEF f
    <3>1. f + 1 \in Int /\ N \in Int /\ (f + 1 > N => n - g = 0) /\ N - (f + 1) + 1 = n - g
      BY <1>t, <2>1
    <3>2. Cardinality((f + 1) .. N) = IF f + 1 > N THEN 0 ELSE N - (f + 1) + 1
      BY <3>1, FS_Interval
    <3>. QED  BY <2>3, <3>1, <3>2
  <2>5. AdmittedIn(c, cutoff, instant) = Cardinality(K)
    <3>1. DOMAIN a = 1 .. N
      BY <1>t DEF N
    <3>. QED  BY <3>1 DEF AdmittedIn, CountIn, a
  <2>. QED  BY <1>s, <2>4, <2>5
<1>. QED  BY <1>s, <1>1, <1>3, <1>4 DEF cutoff

\* A client's deque is replaced.
LEMMA KeepIs ==
    ASSUME GateTypes, NEW client \in Clients, NEW times \in Seq(Nat), Keep(client, times)
    PROVE  /\ DOMAIN hits' \subseteq Clients /\ hits' \in [DOMAIN hits' -> Seq(Nat)]
           /\ \A c \in Clients : HitsOf(c)' = IF c = client THEN times ELSE HitsOf(c)
BY DEF GateTypes, Keep, HitsOf

\* Nobody is admitted: what is tracked may be evicted, or time may pass.
LEMMA NobodyAdmitted ==
    ASSUME GateTypes, Dated, Tracked, Spaced, GateTypes',
           admitted' = admitted, instant <= instant',
           \A c \in Clients : HitsOf(c)' \in {HitsOf(c), EvictExpired(HitsOf(c))}
    PROVE  Dated' /\ Tracked' /\ Spaced'
<1>t. instant \in Nat /\ instant' \in Nat /\ RateWindow \in Nat /\ admitted \in [Clients -> Seq(Nat)]
  BY GateBounds DEF GateTypes
<1>1. Dated'
  BY <1>t DEF Dated
<1>2. Tracked'
  <2> SUFFICES ASSUME NEW c \in Clients PROVE Tracks(c, HitsOf(c))'
    BY DEF Tracked
  <2>1. PICK times : times = HitsOf(c)' /\ Tracks(c, times)
    <3>1. Tracks(c, HitsOf(c)) /\ Tracks(c, EvictExpired(HitsOf(c)))
      BY Evicted DEF Tracked
    <3>. QED  BY <3>1
  <2>2. \A k \in 1 .. Len(admitted[c]) - Len(times) : admitted[c][k] < instant' - RateWindow
    <3>1. \A k \in 1 .. Len(admitted[c]) - Len(times) : admitted[c][k] \in Nat
                                                       /\ admitted[c][k] < instant - RateWindow
      <4>1. /\ Len(times) \in Nat /\ Len(admitted[c]) \in Nat
            /\ \A k \in 1 .. Len(admitted[c]) : admitted[c][k] \in Nat
        BY <1>t, <2>1 DEF Tracks
      <4>2. \A k \in 1 .. Len(admitted[c]) - Len(times) : k \in 1 .. Len(admitted[c])
        BY <4>1
      <4>. QED  BY <2>1, <4>1, <4>2 DEF Tracks
    <3>. QED  BY <1>t, <3>1
  <2>3. RateWindow' = RateWindow
    BY DEF RateWindow
  <2>. QED  BY <2>1, <2>2, <2>3 DEF Tracks
<1>3. Spaced'
  BY DEF Spaced, RateWindow
<1>. QED  BY <1>1, <1>2, <1>3

LEMMA AdmitKeeps ==
    ASSUME GateInv, NEW r \in Requests, Admit(r)
    PROVE  GateInv'
<1> USE DEF GateInv
<1> DEFINE a == admitted
<1>c. PICK c \in Clients : c = ClientId(r)
  BY DEF Clients
<1>l. PICK live : live = EvictExpired(HitsOf(c))
  OBVIOUS
<1>e. /\ Tracks(c, live) /\ \A i \in DOMAIN live : live[i] >= instant - RateWindow
      /\ Len(live) = AdmittedIn(c, instant - RateWindow, instant)
  BY <1>l, Evicted
<1>0. /\ Len(live) < MaxRequests /\ Keep(c, Append(live, instant))
      /\ a' = [a EXCEPT ![c] = Append(@, instant)]
      /\ instant' = instant /\ refusal' = refusal
  BY <1>c, <1>l DEF Admit
<1>t. /\ instant \in Nat /\ MaxRequests \in Nat \ {0} /\ RateWindow \in Nat /\ RateWindow' = RateWindow
      /\ a \in [Clients -> Seq(Nat)] /\ live \in Seq(Nat) /\ Append(live, instant) \in Seq(Nat)
  BY <1>e, GateBounds DEF GateTypes, Tracks, RateWindow
<1>n. PICK N \in Nat : N = Len(a[c])
  BY <1>t
<1>a. /\ a' \in [Clients -> Seq(Nat)] /\ \A d \in Clients \ {c} : a'[d] = a[d]
      /\ a[c] \in Seq(Nat) /\ a'[c] \in Seq(Nat) /\ a'[c] = Append(a[c], instant)
      /\ Len(a'[c]) = N + 1 /\ DOMAIN a[c] = 1 .. N /\ DOMAIN a'[c] = 1 .. N + 1
      /\ a'[c][N + 1] = instant /\ \A k \in 1 .. N : a'[c][k] = a[c][k] /\ a[c][k] \in Nat
  <2>1. PICK old \in Seq(Nat) : old = a[c] /\ Len(old) = N
    BY <1>t, <1>n
  <2>2. PICK new \in Seq(Nat) :
           /\ new = Append(old, instant) /\ Len(new) = N + 1
           /\ new[N + 1] = instant /\ \A k \in 1 .. N : new[k] = old[k]
    <3>1. /\ Append(old, instant) \in Seq(Nat) /\ Len(Append(old, instant)) = Len(old) + 1
          /\ Append(old, instant)[Len(old) + 1] = instant
          /\ \A k \in 1 .. Len(old) : Append(old, instant)[k] = old[k]
      BY <1>t, <2>1, AppendProperties
    <3>. QED  BY <2>1, <3>1
  <2>3. /\ DOMAIN old = 1 .. N /\ DOMAIN new = 1 .. N + 1
        /\ \A k \in 1 .. N : old[k] \in Nat
    BY <2>1, <2>2
  <2>4. a' = [a EXCEPT ![c] = new]
    BY <1>0, <2>1, <2>2
  <2>5. /\ a' \in [Clients -> Seq(Nat)] /\ \A d \in Clients \ {c} : a'[d] = a[d]
        /\ a'[c] = new
    <3>1. PICK S : S = Seq(Nat)
      OBVIOUS
    <3>2. a \in [Clients -> S] /\ new \in S
      BY <1>t, <3>1
    <3>3. a' \in [Clients -> S] /\ a'[c] = new /\ \A d \in Clients \ {c} : a'[d] = a[d]
      BY <2>4, <3>2
    <3>. QED  BY <3>1, <3>3
  <2>. QED  BY <2>1, <2>2, <2>3, <2>5
<1> HIDE DEF a
<1>m. PICK n \in Nat :
         /\ n = Len(live) /\ n < MaxRequests /\ n <= N /\ DOMAIN live = 1 .. n
         /\ \A i \in 1 .. n : live[i] = a[c][N - n + i]
         /\ \A k \in 1 .. N - n : a[c][k] < instant - RateWindow
  <2>1. /\ Len(live) \in Nat /\ DOMAIN live = 1 .. Len(live)
    BY <1>t
  <2>2. /\ Len(live) <= N
        /\ \A i \in DOMAIN live : live[i] = a[c][N - Len(live) + i]
        /\ \A k \in 1 .. N - Len(live) : a[c][k] < instant - RateWindow
    BY <1>e, <1>n DEF Tracks, a
  <2>. QED  BY <1>0, <2>1, <2>2, Zenon
<1>h. /\ DOMAIN hits' \subseteq Clients /\ hits' \in [DOMAIN hits' -> Seq(Nat)]
      /\ HitsOf(c)' = Append(live, instant)
      /\ \A d \in Clients \ {c} : HitsOf(d)' = HitsOf(d)
  BY <1>0, <1>t, KeepIs
<1>1. GateTypes'
  BY <1>0, <1>a, <1>h, <1>t DEF GateTypes, a
<1>d. /\ \A k \in 1 .. N : a[c][k] <= instant
      /\ \A j, k \in 1 .. N : j <= k => a[c][j] <= a[c][k]
  BY <1>a DEF Dated, a
<1>2. Dated'
  <2>1. \A k \in 1 .. N + 1 : a'[c][k] <= instant
    <3>1. \A k \in 1 .. N + 1 : k \in 1 .. N \/ k = N + 1
      OBVIOUS
    <3>. QED  BY <1>t, <1>a, <1>d, <3>1
  <2>2. ASSUME NEW j \in 1 .. N + 1, NEW k \in 1 .. N + 1, j <= k
        PROVE  a'[c][j] <= a'[c][k]
    <3>1. CASE k = N + 1
      BY <1>a, <2>1, <3>1
    <3>2. CASE k # N + 1
      <4>1. j \in 1 .. N /\ k \in 1 .. N
        BY <2>2, <3>2
      <4>. QED  BY <1>a, <1>d, <2>2, <4>1
    <3>. QED  BY <3>1, <3>2
  <2>. QED  BY <1>0, <1>a, <2>1, <2>2 DEF Dated, a
<1>3. Tracked'
  <2>1. ASSUME NEW d \in Clients \ {c}
        PROVE  Tracks(d, HitsOf(d))'
    <3>1. PICK times : times = HitsOf(d) /\ Tracks(d, times)
      BY DEF Tracked
    <3>. QED  BY <1>0, <1>a, <1>h, <1>t, <3>1 DEF Tracks, a
  <2>2. Tracks(c, HitsOf(c))'
    <3>1. PICK times : times = Append(live, instant)
      OBVIOUS
    <3>2. /\ times \in Seq(Nat) /\ Len(times) = n + 1 /\ DOMAIN times = 1 .. n + 1 /\ times[n + 1] = instant
          /\ \A i \in 1 .. n : times[i] = live[i]
      BY <1>t, <1>m, <3>1
    <3>3. n + 1 <= MaxRequests /\ n + 1 <= N + 1 /\ N + 1 - (n + 1) = N - n
      BY <1>t, <1>m
    <3>4. \A i \in 1 .. n + 1 : times[i] = a'[c][N - n + i]
      <4>1. \A i \in 1 .. n : N - n + i \in 1 .. N
        BY <1>m
      <4>2. N - n + (n + 1) = N + 1 /\ \A i \in 1 .. n + 1 : i \in 1 .. n \/ i = n + 1
        OBVIOUS
      <4>. QED  BY <1>a, <1>m, <3>2, <4>1, <4>2
    <3>5. \A k \in 1 .. N - n : a'[c][k] < instant - RateWindow
      <4>1. \A k \in 1 .. N - n : k \in 1 .. N
        BY <1>m
      <4>. QED  BY <1>a, <1>m, <4>1
    <3>6. HitsOf(c)' = times
      BY <1>h, <3>1
    <3>7. /\ Len(times) <= MaxRequests /\ Len(times) <= Len(a'[c])
          /\ \A i \in DOMAIN times : times[i] = a'[c][Len(a'[c]) - Len(times) + i]
          /\ \A k \in 1 .. Len(a'[c]) - Len(times) : a'[c][k] < instant - RateWindow
      <4>1. Len(a'[c]) - Len(times) = N - n
        BY <1>a, <3>2, <3>3
      <4>. QED  BY <1>a, <3>2, <3>3, <3>4, <3>5, <4>1
    <3>. QED  BY <1>0, <1>t, <3>2, <3>6, <3>7 DEF Tracks, a
  <2>. QED  BY <2>1, <2>2 DEF Tracked
<1>4. Spaced'
  <2>1. ASSUME NEW k \in 1 .. N + 1, k + MaxRequests \in 1 .. N + 1
        PROVE  a'[c][k] + RateWindow < a'[c][k + MaxRequests]
    <3>1. k \in 1 .. N
      BY <1>t, <2>1
    <3>2. CASE k + MaxRequests \in 1 .. N
      BY <1>a, <3>1, <3>2 DEF Spaced, a
    <3>3. CASE k + MaxRequests = N + 1
      <4>1. k \in 1 .. N - n
        BY <1>m, <1>t, <3>1, <3>3
      <4>2. a[c][k] < instant - RateWindow
        BY <1>m, <4>1
      <4>3. a'[c][k] = a[c][k] /\ a[c][k] \in Nat /\ a'[c][k + MaxRequests] = instant
        BY <1>a, <3>1, <3>3
      <4>4. PICK x \in Nat : x = a[c][k] /\ x < instant - RateWindow
        BY <4>2, <4>3
      <4>5. instant \in Nat /\ RateWindow \in Nat
        BY <1>t
      <4>6. x + RateWindow < instant
        BY <4>4, <4>5
      <4>. QED  BY <4>3, <4>4, <4>6
    <3>4. k + MaxRequests \in 1 .. N \/ k + MaxRequests = N + 1
      BY <2>1
    <3>. QED  BY <3>2, <3>3, <3>4
  <2>2. ASSUME NEW d \in Clients, NEW k \in DOMAIN a'[d], k + MaxRequests \in DOMAIN a'[d]
        PROVE  a'[d][k] + RateWindow < a'[d][k + MaxRequests]
    <3>1. CASE d = c
      BY <1>a, <2>1, <2>2, <3>1
    <3>2. CASE d # c
      BY <1>a, <2>2, <3>2 DEF Spaced, a
    <3>. QED  BY <3>1, <3>2
  <2>. QED  BY <1>t, <2>2 DEF Spaced, a
<1>5. Refusals' /\ RefusedWithCause'
  <2>1. CASE refusal = NoRefusal
    BY <1>0, <2>1 DEF Refusals, RefusedWithCause
  <2>2. CASE refusal # NoRefusal
    <3>1. PICK d \in Clients, at \in 0 .. instant, retry \in Nat :
              refusal.client = d /\ refusal.at = at /\ refusal.retry = retry
      BY <2>2 DEF Refusals
    <3> DEFINE from == at - RateWindow
               free == (at + retry * TicksPerSecond) - RateWindow
    <3>2. CountIn(a[d], from, at) = MaxRequests /\ CountIn(a[d], free, at) < MaxRequests
      <4>1. /\ AdmittedIn(refusal.client, refusal.at - RateWindow, refusal.at) = MaxRequests
            /\ AdmittedIn(refusal.client, (refusal.at + refusal.retry * TicksPerSecond) - RateWindow,
                          refusal.at) < MaxRequests
        BY <2>2 DEF RefusedWithCause
      <4>2. AdmittedIn(d, from, at) = MaxRequests /\ AdmittedIn(d, free, at) < MaxRequests
        BY <3>1, <4>1, Zenon
      <4>. QED  BY <4>2 DEF AdmittedIn, a
    <3>3. d = c => at < instant
      <4>1. CountIn(a[c], instant - RateWindow, instant) # MaxRequests
        BY <1>0, <1>e, <1>t DEF AdmittedIn, a
      <4>2. d = c => at # instant
        BY <3>2, <4>1
      <4>. QED  BY <3>1, <4>2, <1>t
    <3>4. ASSUME NEW lo \in Int
          PROVE  CountIn(a'[d], lo, at) = CountIn(a[d], lo, at)
      <4>1. CASE d # c
        BY <1>a, <4>1
      <4>2. CASE d = c
        <5>1. instant \notin lo .. at
          BY <1>t, <3>1, <3>3, <4>2
        <5>2. 1 .. N + 1 = (1 .. N) \cup {N + 1}
          OBVIOUS
        <5>3. {k \in DOMAIN a'[d] : a'[d][k] \in lo .. at} = {k \in DOMAIN a[d] : a[d][k] \in lo .. at}
          BY <1>a, <4>2, <5>1, <5>2
        <5>. QED  BY <5>3 DEF CountIn
      <4>. QED  BY <4>1, <4>2
    <3>5. from \in Int /\ free \in Int
      BY <1>t, GateBounds
    <3>6. CountIn(a'[d], from, at) = MaxRequests /\ CountIn(a'[d], free, at) < MaxRequests
      BY <3>2, <3>4, <3>5
    <3>7. RefusedWithCause'
      <4>1. AdmittedIn(d, from, at)' = MaxRequests /\ AdmittedIn(d, free, at)' < MaxRequests
        BY <1>t, <3>6 DEF AdmittedIn, a
      <4>2. refusal'.client = d /\ refusal'.at = at /\ refusal'.retry = retry
        BY <1>0, <3>1
      <4>. QED  BY <4>1, <4>2 DEF RefusedWithCause
    <3>. QED  BY <1>0, <3>1, <3>7 DEF Refusals
  <2>. QED  BY <2>1, <2>2
<1>. QED  BY <1>1, <1>2, <1>3, <1>4, <1>5

\* Fewer admissions lie in a window that starts after one of them.
LEMMA FewerLater ==
    ASSUME NEW times \in Seq(Nat), NEW lo \in Int, NEW later \in Int, NEW hi \in Int, lo <= later,
           NEW k \in DOMAIN times, times[k] \in lo .. hi, times[k] < later
    PROVE  CountIn(times, later, hi) < CountIn(times, lo, hi)
<1> DEFINE S == {j \in DOMAIN times : times[j] \in lo .. hi}
           L == {j \in DOMAIN times : times[j] \in later .. hi}
<1>1. S \subseteq 1 .. Len(times) /\ IsFiniteSet(1 .. Len(times))
  <2>1. PICK n \in Int : n = Len(times) /\ DOMAIN times = 1 .. n
    OBVIOUS
  <2>2. IsFiniteSet(1 .. n)
    BY FS_Interval
  <2>. QED  BY <2>1, <2>2
<1>2. IsFiniteSet(S) /\ IsFiniteSet(S \ {k}) /\ k \in S
  BY <1>1, FS_Subset
<1>3. Cardinality(S \ {k}) = Cardinality(S) - 1 /\ Cardinality(S) \in Nat
  BY <1>2, FS_RemoveElement, FS_CardinalityType
<1>4. L \subseteq S \ {k}
  <2>1. \A j \in DOMAIN times : times[j] \in Nat
    OBVIOUS
  <2>2. ASSUME NEW j \in L PROVE j \in S /\ j # k
    BY <2>1, <2>2
  <2>. QED  BY <2>2
<1>5. Cardinality(L) <= Cardinality(S \ {k}) /\ Cardinality(L) \in Nat
  BY <1>2, <1>4, FS_Subset, FS_CardinalityType
<1> HIDE DEF S, L
<1>6. Cardinality(L) < Cardinality(S)
  BY <1>3, <1>5
<1>. QED  BY <1>6 DEF CountIn, S, L

LEMMA RefuseKeeps ==
    ASSUME GateInv, NEW r \in Requests, Refuse(r)
    PROVE  GateInv'
<1> USE DEF GateInv
<1>c. PICK c \in Clients : c = ClientId(r)
  BY DEF Clients
<1>l. PICK live : live = EvictExpired(HitsOf(c))
  OBVIOUS
<1>e. /\ Tracks(c, live) /\ \A i \in DOMAIN live : live[i] >= instant - RateWindow
      /\ Len(live) = AdmittedIn(c, instant - RateWindow, instant)
  BY <1>l, Evicted
<1>0. /\ Len(live) >= MaxRequests /\ Keep(c, live)
      /\ refusal' = [client |-> c, at |-> instant, retry |-> RetryAfter(Head(live))]
      /\ instant' = instant /\ admitted' = admitted
  BY <1>c, <1>l DEF Refuse
<1>t. /\ instant \in Nat /\ MaxRequests \in Nat \ {0} /\ RateWindow \in Nat /\ TicksPerSecond \in Nat \ {0}
      /\ live \in Seq(Nat)
  BY <1>e, GateBounds DEF GateTypes, Tracks
<1>h. /\ DOMAIN hits' \subseteq Clients /\ hits' \in [DOMAIN hits' -> Seq(Nat)]
      /\ \A d \in Clients : HitsOf(d)' \in {HitsOf(d), EvictExpired(HitsOf(d))}
  BY <1>0, <1>l, <1>t, KeepIs
<1>1. GateTypes'
  BY <1>0, <1>h DEF GateTypes
<1>2. Dated' /\ Tracked' /\ Spaced'
  BY <1>0, <1>1, <1>h, <1>t, NobodyAdmitted
<1>3. PICK times \in Seq(Nat) : times = admitted[c]
  BY DEF GateTypes
<1>4. Len(live) = MaxRequests /\ CountIn(times, instant - RateWindow, instant) = MaxRequests
  BY <1>0, <1>e, <1>t, <1>3 DEF Tracks, AdmittedIn
<1>5. PICK oldest \in Nat, k \in DOMAIN times :
         oldest = Head(live) /\ oldest = times[k] /\ instant - RateWindow <= oldest /\ oldest <= instant
  <2>1. 1 \in DOMAIN live /\ Head(live) = live[1] /\ live[1] \in Nat
    BY <1>t, <1>4
  <2>2. PICK N \in Nat : N = Len(times) /\ DOMAIN times = 1 .. N
    OBVIOUS
  <2>3. MaxRequests <= N /\ live[1] = times[N - MaxRequests + 1]
    BY <1>e, <1>3, <1>4, <2>1, <2>2 DEF Tracks
  <2>4. N - MaxRequests + 1 \in DOMAIN times
    BY <1>t, <2>2, <2>3
  <2>5. live[1] <= instant
    BY <1>3, <2>3, <2>4 DEF Dated
  <2>6. instant - RateWindow <= live[1]
    BY <1>e, <1>t, <2>1
  <2>. QED  BY <2>1, <2>3, <2>4, <2>5, <2>6
<1>6. PICK retry \in Nat : /\ retry = RetryAfter(oldest)
                           /\ retry * TicksPerSecond > RateWindow - (instant - oldest)
  <2> DEFINE left == RateWindow - (instant - oldest)
  <2>1. left \in Nat
    <3>1. instant \in Nat /\ RateWindow \in Nat
      BY <1>t
    <3>. QED  BY <1>5, <3>1
  <2> HIDE DEF left
  <2>2. left \div TicksPerSecond \in Nat /\ (left \div TicksPerSecond + 1) * TicksPerSecond > left
    BY <1>t, <2>1, SecondsEnough
  <2>3. RetryAfter(oldest) = left \div TicksPerSecond + 1
    BY <2>1 DEF RetryAfter, left
  <2>. QED  BY <2>2, <2>3 DEF left
<1>7. PICK free \in Int : free = instant + retry * TicksPerSecond /\ free - RateWindow > oldest
  <2>1. retry * TicksPerSecond \in Int
    BY <1>t
  <2>2. instant + retry * TicksPerSecond \in Int
    BY <1>t, <2>1
  <2>3. (instant + retry * TicksPerSecond) - RateWindow > oldest
    BY <1>t, <1>6, <2>1
  <2>. QED  BY <2>2, <2>3
<1>8. CountIn(times, free - RateWindow, instant) < MaxRequests
  <2>1. /\ instant - RateWindow \in Int /\ free - RateWindow \in Int
        /\ instant - RateWindow <= free - RateWindow /\ times[k] < free - RateWindow
        /\ times[k] \in (instant - RateWindow) .. instant
    BY <1>t, <1>5, <1>7
  <2>2. CountIn(times, free - RateWindow, instant) < CountIn(times, instant - RateWindow, instant)
    BY <1>t, <1>5, <2>1, FewerLater
  <2>. QED  BY <1>4, <2>2
<1>9. refusal'.client = c /\ refusal'.at = instant /\ refusal'.retry = retry
  BY <1>0, <1>5, <1>6
<1>10. Refusals'
  BY <1>0, <1>9, <1>t DEF Refusals
<1>11. RefusedWithCause'
  <2>1. PICK i : i = instant
    OBVIOUS
  <2>2. /\ AdmittedIn(c, i - RateWindow, i)' = MaxRequests
        /\ AdmittedIn(c, free - RateWindow, i)' < MaxRequests
    <3>1. admitted'[c] = times
      BY <1>0, <1>3
    <3>. QED  BY <1>4, <1>8, <2>1, <3>1 DEF AdmittedIn
  <2>3. refusal'.client = c /\ refusal'.at = i /\ refusal'.retry = retry /\ free = i + retry * TicksPerSecond
    BY <1>7, <1>9, <2>1
  <2>. QED  BY <2>2, <2>3 DEF RefusedWithCause
<1>. QED  BY <1>1, <1>2, <1>10, <1>11

\* An empty deque stays empty.
LEMMA NothingToEvict == EvictExpired(<<>>) = <<>>
<1> DEFINE gone == {k \in DOMAIN <<>> : \A j \in 1 .. k : <<>>[j] < instant - RateWindow}
<1>1. gone = {}
  OBVIOUS
<1>2. Cardinality(gone) = 0
  BY <1>1, FS_EmptySet
<1>3. EvictExpired(<<>>) = SubSeq(<<>>, 1, 0)
  BY <1>2 DEF EvictExpired
<1>. QED  BY <1>3

\* What holds of the last refusal stays so while nobody is admitted.
LEMMA RefusalStays ==
    ASSUME Refusals, RefusedWithCause, instant \in Nat, instant' \in Nat, instant <= instant',
           refusal' = refusal, admitted' = admitted
    PROVE  Refusals' /\ RefusedWithCause'
<1>1. Refusals'
  BY DEF Refusals, NoRefusal
<1>2. RefusedWithCause'
  BY DEF RefusedWithCause, AdmittedIn, NoRefusal, RateWindow
<1>. QED  BY <1>1, <1>2

LEMMA SweepKeeps ==
    ASSUME GateInv, Sweep
    PROVE  GateInv'
<1> USE DEF GateInv
<1> DEFINE left == {c \in DOMAIN hits : EvictExpired(hits[c]) # <<>>}
<1>0. /\ hits' = [c \in left |-> EvictExpired(hits[c])] /\ left \subseteq Clients
      /\ instant' = instant /\ admitted' = admitted /\ refusal' = refusal /\ instant \in Nat
  BY DEF Sweep, GateTypes
<1>1. \A c \in Clients : EvictExpired(HitsOf(c)) \in Seq(Nat)
  BY Evicted DEF Tracks
<1>2. \A c \in left : HitsOf(c) = hits[c]
  BY DEF HitsOf
<1>3. ASSUME NEW c \in Clients
      PROVE  HitsOf(c)' = EvictExpired(HitsOf(c))
  <2>1. CASE c \in left
    BY <1>0, <1>2, <2>1 DEF HitsOf
  <2>2. CASE c \in DOMAIN hits \ left
    BY <1>0, <2>2 DEF HitsOf
  <2>3. CASE c \notin DOMAIN hits
    BY <1>0, <2>3, NothingToEvict DEF HitsOf
  <2>. QED  BY <2>1, <2>2, <2>3
<1>4. GateTypes'
  <2>1. DOMAIN hits' = left /\ \A c \in left : hits'[c] \in Seq(Nat)
    BY <1>0, <1>1, <1>2
  <2>. QED  BY <1>0, <2>1 DEF GateTypes
<1>5. Dated' /\ Tracked' /\ Spaced'
  BY <1>0, <1>3, <1>4, NobodyAdmitted
<1>. QED  BY <1>0, <1>4, <1>5, RefusalStays

LEMMA PassTimeKeeps ==
    ASSUME GateInv, PassTime
    PROVE  GateInv'
<1> USE DEF GateInv
<1>0. /\ instant' = instant + 1 /\ instant \in Nat
      /\ hits' = hits /\ admitted' = admitted /\ refusal' = refusal
  BY DEF PassTime, GateTypes
<1>1. GateTypes' /\ \A c \in Clients : HitsOf(c)' = HitsOf(c)
  BY <1>0 DEF GateTypes, HitsOf
<1>2. Dated' /\ Tracked' /\ Spaced'
  BY <1>0, <1>1, NobodyAdmitted
<1>. QED  BY <1>0, <1>1, <1>2, RefusalStays

LEMMA InitGate == GateInit => GateInv
<1> SUFFICES ASSUME GateInit PROVE GateInv
  OBVIOUS
<1>1. /\ instant = 0 /\ hits = [c \in {} |-> <<>>] /\ admitted = [c \in Clients |-> <<>>]
      /\ refusal = NoRefusal
  BY DEF GateInit
<1>2. GateTypes
  BY <1>1 DEF GateTypes
<1>3. \A c \in Clients : HitsOf(c) = <<>> /\ admitted[c] = <<>>
  BY <1>1 DEF HitsOf
<1>4. Dated /\ Spaced
  BY <1>3 DEF Dated, Spaced
<1>5. Tracked
  <2> SUFFICES ASSUME NEW c \in Clients PROVE Tracks(c, <<>>)
    BY <1>3 DEF Tracked
  <2>1. admitted[c] = <<>> /\ MaxRequests \in Nat
    BY <1>3, GateBounds
  <2>. QED  BY <2>1 DEF Tracks
<1>. QED  BY <1>1, <1>2, <1>4, <1>5 DEF GateInv, Refusals, RefusedWithCause

LEMMA GateStep == GateInv /\ [GateNext]_gateVars => GateInv'
<1> SUFFICES ASSUME GateInv, [GateNext]_gateVars PROVE GateInv'
  OBVIOUS
<1>1. ASSUME UNCHANGED gateVars PROVE GateInv'
  <2>1. /\ instant' = instant /\ hits' = hits /\ admitted' = admitted /\ refusal' = refusal
        /\ instant \in Nat
    BY <1>1 DEF gateVars, GateInv, GateTypes
  <2>2. GateTypes' /\ \A c \in Clients : HitsOf(c)' = HitsOf(c)
    BY <2>1 DEF GateInv, GateTypes, HitsOf
  <2>3. Dated' /\ Tracked' /\ Spaced'
    BY <2>1, <2>2, NobodyAdmitted DEF GateInv
  <2>. QED  BY <2>1, <2>2, <2>3, RefusalStays DEF GateInv
<1>2. ASSUME NEW r \in Requests, Reject(r) PROVE GateInv'
  BY <1>1, <1>2 DEF Reject
<1>3. ASSUME NEW r \in Requests, Admit(r) PROVE GateInv'
  BY <1>3, AdmitKeeps
<1>4. ASSUME NEW r \in Requests, Refuse(r) PROVE GateInv'
  BY <1>4, RefuseKeeps
<1>. QED  BY <1>1, <1>2, <1>3, <1>4, SweepKeeps, PassTimeKeeps DEF GateNext

\* Admissions that lie in one window are close to its first one, and MaxRequests
\* later than it the next one is out of the window.
LEMMA ClearOfWindow ==
    ASSUME GateInv
    PROVE  NeverOver
<1> SUFFICES ASSUME NEW c \in Clients, NEW from \in 0 .. instant
             PROVE  AdmittedIn(c, from, from + RateWindow) <= MaxRequests
  BY DEF NeverOver
<1>t. /\ MaxRequests \in Nat \ {0} /\ RateWindow \in Nat /\ from \in Nat
      /\ admitted[c] \in Seq(Nat)
  BY GateBounds DEF GateInv, GateTypes
<1>w. PICK to \in Nat : to = from + RateWindow
  BY <1>t
<1> DEFINE K == {k \in DOMAIN admitted[c] : admitted[c][k] \in from .. to}
<1>1. AdmittedIn(c, from, from + RateWindow) = Cardinality(K)
  BY <1>w DEF AdmittedIn, CountIn
<1>k. \A k \in K : /\ k \in DOMAIN admitted[c] /\ k \in Nat
                   /\ admitted[c][k] \in Nat /\ admitted[c][k] >= from /\ admitted[c][k] <= to
  BY <1>t, <1>w
<1> HIDE DEF K
<1>2. CASE K = {}
  <2>1. Cardinality(K) = 0
    BY <1>2, FS_EmptySet
  <2>. QED  BY <1>t, <1>1, <2>1
<1>3. CASE K # {}
  <2>1. PICK f \in K : \A k \in K : f <= k
    <3>1. K \in SUBSET Nat
      BY <1>k
    <3>. QED  BY <1>3, <3>1, LeastNumber
  <2>2. ASSUME NEW k \in K PROVE k \in f .. f + MaxRequests - 1
    <3>1. k \in Nat /\ f \in Nat /\ f <= k
      BY <1>k, <2>1
    <3>2. ASSUME k >= f + MaxRequests PROVE FALSE
      <4>1. f + MaxRequests \in DOMAIN admitted[c] /\ f \in DOMAIN admitted[c]
        BY <1>t, <1>k, <2>1, <3>1, <3>2
      <4>2. admitted[c][f] + RateWindow < admitted[c][f + MaxRequests]
        BY <4>1 DEF GateInv, Spaced
      <4>3. admitted[c][f + MaxRequests] <= admitted[c][k]
        BY <1>k, <3>2, <4>1 DEF GateInv, Dated
      <4>4. PICK next \in Nat : next = admitted[c][f + MaxRequests]
        BY <1>t, <4>1
      <4>5. PICK x \in Nat : x = admitted[c][f] /\ x >= from
        BY <1>k
      <4>6. PICK y \in Nat : y = admitted[c][k] /\ y <= to
        BY <1>k
      <4>7. x + RateWindow < next /\ next <= y
        BY <4>2, <4>3, <4>4, <4>5, <4>6
      <4>8. RateWindow \in Nat /\ from \in Nat
        BY <1>t
      <4>. QED  BY <1>w, <4>5, <4>6, <4>7, <4>8
    <3>. QED  BY <1>t, <3>1, <3>2
  <2>f. f \in Nat
    BY <1>k
  <2>l. PICK l : l = f + MaxRequests - 1
    OBVIOUS
  <2>3. f \in Int /\ l \in Int /\ ~ (f > l) /\ l - f + 1 = MaxRequests
    BY <1>t, <2>f, <2>l
  <2>4. IsFiniteSet(f .. l) /\ Cardinality(f .. l) = MaxRequests
    <3>1. IsFiniteSet(f .. l) /\ Cardinality(f .. l) = IF f > l THEN 0 ELSE l - f + 1
      BY <2>3, FS_Interval
    <3>. QED  BY <2>3, <3>1
  <2>5. K \subseteq f .. l
    BY <2>2, <2>l
  <2>6. Cardinality(K) <= Cardinality(f .. l)
    BY <2>4, <2>5, FS_Subset
  <2>. QED  BY <1>1, <2>4, <2>6
<1>. QED  BY <1>2, <1>3

\* A client that is not tracked has no deque: all it was admitted is too old.
LEMMA UntrackedIsOld ==
    ASSUME GateInv
    PROVE  NoClientForgotten
<1> SUFFICES ASSUME NEW c \in Clients, c \notin DOMAIN hits
             PROVE  ~ (AdmittedIn(c, instant - RateWindow, instant) > 0)
  BY DEF NoClientForgotten
<1>t. instant \in Nat /\ RateWindow \in Nat /\ admitted[c] \in Seq(Nat)
  BY GateBounds DEF GateInv, GateTypes
<1>1. Tracks(c, <<>>)
  BY DEF GateInv, Tracked, HitsOf
<1>2. \A k \in DOMAIN admitted[c] : admitted[c][k] < instant - RateWindow
  BY <1>t, <1>1 DEF Tracks
<1>3. {k \in DOMAIN admitted[c] : admitted[c][k] \in (instant - RateWindow) .. instant} = {}
  BY <1>t, <1>2
<1>4. AdmittedIn(c, instant - RateWindow, instant) = 0
  BY <1>3, FS_EmptySet DEF AdmittedIn, CountIn
<1>. QED  BY <1>4

\* The rate limiter keeps only a window's worth of admissions, evicts and
\* sweeps, and decides as if it kept them all: no window of the limit's length
\* ever holds more than the limit, and a refusal and its Retry-After are right.
THEOREM LimiterExact == GateSpec => []WindowExact
<1>1. GateInv => WindowExact
  BY ClearOfWindow, UntrackedIsOld DEF WindowExact, GateInv
<1>. QED  BY InitGate, GateStep, <1>1, PTL DEF GateSpec

-----------------------------------------------------------------------------
\* The health registry.

Entries == [name : ProbeNames, probe : Probes]
Kinds == {"disk", "memory", "cuda", "callable", "custom"}

\* A result is the answer of the probe that it stands for, or says of a probe
\* that gave none that it is unhealthy.
Fits(result, entry) ==
    /\ result.status \in Statuses
    /\ \/ result.component = entry.probe
       \/ result.component = entry.name /\ result.status = "unhealthy"

\* Until a probe's first step only probes had the loop, so that its timeout
\* began no later than the request did and the time they held it.
Stands(c, k) ==
    \/ InState(c, k, "queued") /\ uptime <= started[c] + held[c]
    \/ /\ Running(c, k)
       /\ results[c][k].from \in Nat /\ results[c][k].from <= started[c] + held[c]
    \/ Fits(results[c][k], checking[c][k])

\* The probes that have not begun are the last ones.
QueuedFrom(c, n) == \A k \in DOMAIN results[c] : InState(c, k, "queued") <=> k > n

\* A request under way has a place for each of its probes' results, and is
\* within the timeout of all of them and the time that probes held the loop.
Underway(c) ==
    /\ checking[c] \in Seq(Entries) /\ DOMAIN results[c] = DOMAIN checking[c]
    /\ results[c] = [k \in DOMAIN results[c] |-> results[c][k]]
    /\ started[c] \in Nat /\ held[c] \in Nat
    /\ checking[c] # <<>> => uptime <= started[c] + held[c] + ProbeTimeout
    /\ \E n \in Nat : QueuedFrom(c, n)
    /\ \A k \in DOMAIN results[c] : Stands(c, k)

Reported(r) ==
    /\ DOMAIN r.components = DOMAIN r.probes
    /\ r.probes \in Seq(Entries) /\ r.components = [k \in DOMAIN r.components |-> r.components[k]]
    /\ \A k \in DOMAIN r.probes : Fits(r.components[k], r.probes[k])
    /\ r.status = Overall(r.components)
    /\ r.at <= r.from + ProbeTimeout + r.held

Reports == \A c \in Checkers : report[c] = NoReport \/ Reported(report[c])

HealthInv ==
    /\ uptime \in Nat /\ registry \in Seq(Entries)
    /\ DOMAIN checking = Checkers /\ checking = [c \in Checkers |-> checking[c]]
    /\ DOMAIN started = Checkers /\ started = [c \in Checkers |-> started[c]]
    /\ DOMAIN held = Checkers /\ held = [c \in Checkers |-> held[c]]
    /\ DOMAIN results = Checkers /\ results = [c \in Checkers |-> results[c]]
    /\ DOMAIN report = Checkers /\ report = [c \in Checkers |-> report[c]]
    /\ \A c \in Checkers : Underway(c)
    /\ Reports

LEMMA InitHealth == HealthInit => HealthInv
BY HealthAssumption DEF HealthInit, HealthInv, Underway, Reports, QueuedFrom

\* A request is as it was when nothing of it has changed.
LEMMA UnderwayStays ==
    ASSUME NEW c \in Checkers, Underway(c), uptime' = uptime, checking'[c] = checking[c],
           started'[c] = started[c], held'[c] = held[c], results'[c] = results[c]
    PROVE  Underway(c)'
BY DEF Underway, Stands, QueuedFrom, InState, Running

\* What is registered and removed does not touch the requests under way.
LEMMA RegistryKeeps ==
    ASSUME HealthInv, NEW name \in ProbeNames,
           Unregister(name) \/ \E p \in Probes : Register(name, p)
    PROVE  HealthInv'
<1>1. registry' \in Seq(Entries)
  <2>1. ASSUME NEW p \in Probes, Register(name, p) PROVE registry' \in Seq(Entries)
    <3>1. [name |-> name, probe |-> p] \in Entries
      BY DEF Entries
    <3>. QED  BY <2>1, <3>1 DEF Register, HealthInv
  <2>2. ASSUME Unregister(name) PROVE registry' \in Seq(Entries)
    <3>1. CASE \E k \in DOMAIN registry : registry[k].name = name
      <4>1. PICK k \in DOMAIN registry : registry' = RemoveAt(registry, k)
        BY <2>2, <3>1 DEF Unregister
      <4>2. registry \in Seq(Entries) /\ k \in 1 .. Len(registry)
        BY DEF HealthInv
      <4>3. RemoveAt(registry, k) = SubSeq(registry, 1, k - 1) \o SubSeq(registry, k + 1, Len(registry))
        BY DEF RemoveAt
      <4>4. SubSeq(registry, 1, k - 1) \in Seq(Entries) /\ SubSeq(registry, k + 1, Len(registry)) \in Seq(Entries)
        BY <4>2
      <4>. QED  BY <4>1, <4>3, <4>4
    <3>2. CASE ~ \E k \in DOMAIN registry : registry[k].name = name
      BY <2>2, <3>2 DEF Unregister, HealthInv
    <3>. QED  BY <3>1, <3>2
  <2>. QED  BY <2>1, <2>2
<1>2. UNCHANGED <<uptime, checking, started, held, results, report>>
  BY DEF Register, Unregister
<1>3. \A c \in Checkers : Underway(c)'
  BY <1>2, UnderwayStays DEF HealthInv
<1>. QED  BY <1>1, <1>2, <1>3 DEF HealthInv, Reports

\* An answer is of the probes that it names.
LEMMA AnswerIs ==
    ASSUME HealthInv, NEW c \in Checkers, NEW probes \in Seq(Entries), NEW rs,
           NEW from \in Nat, NEW hold \in Nat,
           DOMAIN rs = DOMAIN probes, rs = [k \in DOMAIN rs |-> rs[k]],
           \A k \in DOMAIN probes : Fits(rs[k], probes[k]),
           uptime <= from + ProbeTimeout + hold, Answer(c, probes, rs, from, hold)
    PROVE  DOMAIN report' = Checkers /\ report' = [d \in Checkers |-> report'[d]] /\ Reports'
<1>1. PICK r : r = [status |-> Overall(rs), components |-> rs, probes |-> probes,
                    from |-> from, held |-> hold, at |-> uptime]
  OBVIOUS
<1>2. Reported(r)
  BY <1>1 DEF Reported
<1>3. report' = [report EXCEPT ![c] = r]
  BY <1>1 DEF Answer
<1>. QED  BY <1>2, <1>3 DEF HealthInv, Reports

LEMMA CheckKeeps ==
    ASSUME HealthInv, NEW c \in Checkers, Check(c)
    PROVE  HealthInv'
<1>t. ProbeTimeout \in Nat /\ uptime \in Nat /\ registry \in Seq(Entries) /\ held[c] \in Nat
  BY HealthAssumption DEF HealthInv, Underway
<1>1. CASE registry = <<>>
  <2>1. /\ Answer(c, registry, <<>>, uptime, 0)
        /\ UNCHANGED <<uptime, registry, checking, started, held, results>>
    BY <1>1 DEF Check
  <2>2. DOMAIN report' = Checkers /\ report' = [d \in Checkers |-> report'[d]] /\ Reports'
    <3>1. /\ DOMAIN <<>> = DOMAIN registry /\ <<>> = [k \in DOMAIN <<>> |-> <<>>[k]]
          /\ uptime <= uptime + ProbeTimeout + 0 /\ DOMAIN registry = {} /\ 0 \in Nat
      BY <1>1, <1>t
    <3>. QED  BY <1>t, <2>1, <3>1, AnswerIs
  <2>3. \A d \in Checkers : Underway(d)'
    BY <2>1, UnderwayStays DEF HealthInv
  <2>. QED  BY <2>1, <2>2, <2>3 DEF HealthInv
<1>2. CASE registry # <<>>
  <2>1. /\ checking' = [checking EXCEPT ![c] = registry]
        /\ started' = [started EXCEPT ![c] = uptime]
        /\ results' = [results EXCEPT ![c] = [k \in DOMAIN registry |-> Queued]]
        /\ report' = [report EXCEPT ![c] = NoReport]
        /\ uptime' = uptime /\ registry' = registry /\ held' = held
    BY <1>2 DEF Check
  <2>2. Underway(c)'
    <3>1. /\ checking'[c] = registry /\ started'[c] = uptime /\ held'[c] = held[c]
          /\ results'[c] = [k \in DOMAIN registry |-> Queued]
      BY <2>1 DEF HealthInv
    <3>6. uptime' <= started'[c] + held'[c]
      BY <1>t, <2>1, <3>1
    <3>2. ASSUME NEW k \in DOMAIN results'[c] PROVE InState(c, k, "queued")' /\ Stands(c, k)'
      <4>1. results'[c][k] = Queued
        BY <3>1
      <4>3. Queued.status = "queued"
        BY DEF Queued
      <4>2. InState(c, k, "queued")'
        BY <4>1, <4>3, Zenon DEF InState
      <4>. QED  BY <3>6, <4>2 DEF Stands
    <3>3. \A k \in DOMAIN results'[c] : k > 0
      BY <1>t, <3>1
    <3>4. QueuedFrom(c, 0)'
      BY <3>2, <3>3 DEF QueuedFrom
    <3>5. /\ checking'[c] \in Seq(Entries) /\ DOMAIN results'[c] = DOMAIN checking'[c]
          /\ results'[c] = [k \in DOMAIN results'[c] |-> results'[c][k]]
          /\ started'[c] \in Nat /\ held'[c] \in Nat
          /\ uptime' <= started'[c] + held'[c] + ProbeTimeout
      BY <1>t, <2>1, <3>1
    <3>. QED  BY <3>2, <3>4, <3>5 DEF Underway
  <2>3. ASSUME NEW d \in Checkers \ {c} PROVE Underway(d)'
    BY <2>1, UnderwayStays DEF HealthInv
  <2>. QED  BY <2>1, <2>2, <2>3 DEF HealthInv, Reports
<1>. QED  BY <1>1, <1>2

LEMMA ReportKeeps ==
    ASSUME HealthInv, NEW c \in Checkers, Report(c)
    PROVE  HealthInv'
<1>1. /\ checking[c] # <<>>
      /\ \A k \in DOMAIN results[c] : ~ InState(c, k, "queued") /\ ~ Running(c, k)
      /\ Answer(c, checking[c], results[c], started[c], held[c])
      /\ checking' = [checking EXCEPT ![c] = <<>>]
      /\ results' = [results EXCEPT ![c] = <<>>]
      /\ started' = [started EXCEPT ![c] = 0]
      /\ held' = [held EXCEPT ![c] = 0]
      /\ uptime' = uptime /\ registry' = registry
  BY DEF Report
<1>2. /\ checking[c] \in Seq(Entries) /\ DOMAIN results[c] = DOMAIN checking[c]
      /\ results[c] = [k \in DOMAIN results[c] |-> results[c][k]]
      /\ started[c] \in Nat /\ held[c] \in Nat /\ ProbeTimeout \in Nat /\ uptime \in Nat
      /\ uptime <= started[c] + held[c] + ProbeTimeout
      /\ \A k \in DOMAIN checking[c] : Fits(results[c][k], checking[c][k])
  BY <1>1, HealthAssumption DEF HealthInv, Underway, Stands
<1>3. uptime <= started[c] + ProbeTimeout + held[c]
  BY <1>2
<1>4. DOMAIN report' = Checkers /\ report' = [d \in Checkers |-> report'[d]] /\ Reports'
  BY <1>1, <1>2, <1>3, AnswerIs
<1>5. Underway(c)'
  <2>1. checking'[c] = <<>> /\ started'[c] = 0 /\ held'[c] = 0 /\ results'[c] = <<>>
    BY <1>1 DEF HealthInv
  <2>2. <<>> \in Seq(Entries) /\ DOMAIN <<>> = {} /\ <<>> = [k \in DOMAIN <<>> |-> <<>>[k]] /\ 0 \in Nat
    OBVIOUS
  <2>3. QueuedFrom(c, 0)'
    BY <2>1, <2>2 DEF QueuedFrom
  <2>. QED  BY <2>1, <2>2, <2>3 DEF Underway
<1>6. ASSUME NEW d \in Checkers \ {c} PROVE Underway(d)'
  BY <1>1, UnderwayStays DEF HealthInv
<1>. QED  BY <1>1, <1>4, <1>5, <1>6 DEF HealthInv

\* A step of one probe's task: the others' results stay as they are.
LEMMA PlaceKeeps ==
    ASSUME HealthInv, NEW c \in Checkers, NEW k \in DOMAIN results[c], NEW r,
           results' = [results EXCEPT ![c][k] = r], Stands(c, k)',
           \E n \in Nat : QueuedFrom(c, n)',
           UNCHANGED <<uptime, registry, checking, started, held, report>>
    PROVE  HealthInv'
<1>1. /\ DOMAIN results' = Checkers /\ results' = [d \in Checkers |-> results'[d]]
      /\ \A d \in Checkers \ {c} : results'[d] = results[d]
      /\ results'[c] = [results[c] EXCEPT ![k] = r]
  BY DEF HealthInv
<1>2. /\ DOMAIN results'[c] = DOMAIN results[c]
      /\ results'[c] = [j \in DOMAIN results'[c] |-> results'[c][j]]
      /\ \A j \in DOMAIN results[c] \ {k} : results'[c][j] = results[c][j]
  <2>1. results[c] = [j \in DOMAIN results[c] |-> results[c][j]]
    BY DEF HealthInv, Underway
  <2>. QED  BY <1>1, <2>1
<1>3. ASSUME NEW j \in DOMAIN results'[c] PROVE Stands(c, j)'
  <2>1. CASE j = k
    BY <2>1
  <2>2. CASE j # k
    BY <1>2, <1>3, <2>2 DEF HealthInv, Underway, Stands, InState, Running
  <2>. QED  BY <2>1, <2>2
<1>4. Underway(c)'
  BY <1>2, <1>3 DEF HealthInv, Underway
<1>5. ASSUME NEW d \in Checkers \ {c} PROVE Underway(d)'
  BY <1>1, UnderwayStays DEF HealthInv
<1>. QED  BY <1>1, <1>4, <1>5 DEF HealthInv, Reports

\* Every probe answers with a status.
LEMMA GradesAre ==
    ASSUME NEW probe \in Probes, NEW elapsed
    PROVE  Grades(probe, elapsed) \subseteq Statuses
<1>1. probe \in Kinds
  BY HealthAssumption DEF Kinds
<1>2. /\ \A x : DiskStatus(x) \in Statuses /\ MemoryStatus(x) \in Statuses
      /\ \A x : CudaStatus(x) \in Statuses /\ CallableStatus(x) \in Statuses
      /\ "healthy" \in Statuses /\ "unhealthy" \in Statuses
  BY DEF DiskStatus, MemoryStatus, CudaStatus, CallableStatus, Statuses
<1>3. CASE probe = "disk"
  BY <1>2, <1>3 DEF Grades
<1>4. CASE probe = "memory"
  BY <1>2, <1>4 DEF Grades
<1>5. CASE probe = "cuda"
  BY <1>2, <1>5 DEF Grades
<1>6. CASE probe = "callable"
  BY <1>2, <1>6 DEF Grades
<1>7. CASE probe = "custom"
  BY <1>7 DEF Grades
<1>. QED  BY <1>1, <1>3, <1>4, <1>5, <1>6, <1>7 DEF Kinds

\* The task whose turn it is takes its first step, and its timeout begins.
LEMMA StartKeeps ==
    ASSUME HealthInv, NEW c \in Checkers, NEW k \in DOMAIN results[c], ProbeStarts(c, k)
    PROVE  HealthInv'
<1>t. /\ uptime \in Nat /\ started[c] \in Nat /\ held[c] \in Nat
      /\ checking[c] \in Seq(Entries) /\ DOMAIN results[c] = DOMAIN checking[c]
      /\ k \in 1 .. Len(checking[c])
  BY DEF HealthInv, Underway
<1>1. PICK r : r = [component |-> "", status |-> "pending", from |-> uptime]
  OBVIOUS
<1>2. /\ results' = [results EXCEPT ![c][k] = r]
      /\ UNCHANGED <<uptime, registry, checking, started, held, report>>
      /\ InState(c, k, "queued") /\ \A j \in 1 .. k - 1 : ~ InState(c, j, "queued")
  BY <1>1 DEF ProbeStarts, Turn
<1>3. /\ DOMAIN results'[c] = DOMAIN results[c] /\ results'[c][k] = r
      /\ \A j \in DOMAIN results[c] \ {k} : results'[c][j] = results[c][j]
  BY <1>2 DEF HealthInv, Underway
<1>4. uptime <= started[c] + held[c]
  BY <1>2 DEF HealthInv, Underway, Stands, InState, Running, Fits, Statuses
<1>5. Stands(c, k)'
  <2>1. /\ k \in DOMAIN results'[c] /\ results'[c][k].status = "pending"
        /\ results'[c][k].from = uptime
    <3>1. r.status = "pending" /\ r.from = uptime
      BY <1>1
    <3>. QED  BY <1>3, <3>1
  <2>2. uptime \in Nat /\ uptime <= started'[c] + held'[c]
    BY <1>t, <1>2, <1>4
  <2>. QED  BY <2>1, <2>2 DEF Stands, Running, InState
<1>6. PICK n \in Nat : QueuedFrom(c, n)
  BY DEF HealthInv, Underway
<1>7. k = n + 1
  <2>1. k > n
    BY <1>2, <1>6 DEF QueuedFrom
  <2>2. ~ n + 1 < k
    <3>1. SUFFICES ASSUME n + 1 < k PROVE FALSE
      OBVIOUS
    <3>2. n + 1 \in DOMAIN results[c] /\ n + 1 \in 1 .. k - 1 /\ n + 1 > n
      BY <1>t, <3>1
    <3>. QED  BY <1>2, <1>6, <3>2 DEF QueuedFrom
  <2>. QED  BY <1>t, <2>1, <2>2
<1>8. QueuedFrom(c, k)'
  <2>1. ASSUME NEW j \in DOMAIN results'[c] PROVE InState(c, j, "queued")' <=> j > k
    <3>1. j \in Nat
      BY <1>t, <1>3
    <3>2. CASE j = k
      <4>1. results'[c][k].status # "queued"
        <5>1. r.status # "queued"
          BY <1>1
        <5>. QED  BY <1>3, <5>1
      <4>2. ~ j > k
        BY <3>1, <3>2
      <4>. QED  BY <3>2, <4>1, <4>2 DEF InState
    <3>3. CASE j # k
      <4>1. InState(c, j, "queued")' <=> InState(c, j, "queued")
        BY <1>3, <3>3 DEF InState
      <4>2. InState(c, j, "queued") <=> j > n
        BY <1>3, <1>6 DEF QueuedFrom
      <4>. QED  BY <1>7, <3>1, <3>3, <4>1, <4>2
    <3>. QED  BY <3>2, <3>3
  <2>. QED  BY <2>1 DEF QueuedFrom
<1>9. \E m \in Nat : QueuedFrom(c, m)'
  <2>1. k \in Nat
    BY <1>t
  <2>. QED  BY <1>8, <2>1
<1>. QED  BY <1>2, <1>5, <1>9, PlaceKeeps

\* Whichever way a probe's task ends, its result fits.
LEMMA ProbeKeeps ==
    ASSUME HealthInv, NEW c \in Checkers, NEW k \in DOMAIN results[c],
           ProbeAnswers(c, k) \/ ProbeFails(c, k) \/ ProbeRaises(c, k) \/ ProbeTimesOut(c, k)
    PROVE  HealthInv'
<1>t. checking[c] \in Seq(Entries) /\ DOMAIN results[c] = DOMAIN checking[c]
  BY DEF HealthInv, Underway
<1>n. PICK entry \in Entries : entry = checking[c][k]
  BY <1>t
<1>u. "unhealthy" \in Statuses
  BY DEF Statuses
<1>1. PICK shown, status :
         /\ Resolve(c, k, shown, status) /\ status \in Statuses
         /\ \/ shown = entry.probe
            \/ shown = entry.name /\ status = "unhealthy"
  <2>1. CASE ProbeAnswers(c, k)
    <3>1. PICK status \in Grades(entry.probe, uptime - results[c][k].from) :
             Resolve(c, k, entry.probe, status)
      BY <1>n, <2>1 DEF ProbeAnswers
    <3>2. status \in Statuses
      BY <3>1, GradesAre DEF Entries
    <3>. QED  BY <3>1, <3>2
  <2>2. CASE ProbeFails(c, k)
    BY <1>n, <1>u, <2>2 DEF ProbeFails
  <2>3. CASE ProbeRaises(c, k) \/ ProbeTimesOut(c, k)
    BY <1>n, <1>u, <2>3 DEF ProbeRaises, ProbeTimesOut
  <2>. QED  BY <2>1, <2>2, <2>3
<1>2. PICK r : r = [component |-> shown, status |-> status, from |-> 0]
  OBVIOUS
<1>3. /\ results' = [results EXCEPT ![c][k] = r] /\ Running(c, k)
      /\ UNCHANGED <<uptime, registry, checking, started, held, report>>
  BY <1>1, <1>2 DEF Resolve
<1>4. /\ DOMAIN results'[c] = DOMAIN results[c] /\ results'[c][k] = r
      /\ \A j \in DOMAIN results[c] \ {k} : results'[c][j] = results[c][j]
  BY <1>3 DEF HealthInv, Underway
<1>5. Stands(c, k)'
  BY <1>n, <1>1, <1>2, <1>3, <1>4 DEF Stands, Fits
<1>6. PICK n \in Nat : QueuedFrom(c, n)
  BY DEF HealthInv, Underway
<1>7. ASSUME NEW j \in DOMAIN results'[c]
      PROVE  InState(c, j, "queued")' <=> InState(c, j, "queued")
  <2>1. CASE j = k
    BY <1>1, <1>2, <1>3, <1>4, <2>1 DEF InState, Running, Statuses
  <2>2. CASE j # k
    BY <1>4, <2>2 DEF InState
  <2>. QED  BY <2>1, <2>2
<1>8. QueuedFrom(c, n)'
  BY <1>4, <1>6, <1>7 DEF QueuedFrom
<1>. QED  BY <1>3, <1>5, <1>8, PlaceKeeps

\* A probe that takes the loop or gives it up changes no result.
LEMMA LoopChanges ==
    ASSUME HealthInv, UNCHANGED <<uptime, registry, checking, started, held, results, report>>
    PROVE  HealthInv'
<1>1. \A c \in Checkers : Underway(c)'
  BY UnderwayStays DEF HealthInv
<1>. QED  BY <1>1 DEF HealthInv, Reports

\* Time passes on an idle loop only while some probe of a request is not due,
\* and all have begun: a request outlives no timeout.
LEMMA HealthTickKeeps ==
    ASSUME HealthInv, HealthTick
    PROVE  HealthInv'
<1>1. /\ uptime \in Nat /\ ProbeTimeout \in Nat /\ uptime' = uptime + 1
      /\ UNCHANGED <<registry, checking, started, held, results, report>>
  BY HealthAssumption DEF HealthTick, HealthInv
<1>2. ASSUME NEW c \in Checkers PROVE Underway(c)'
  <2>t. /\ started[c] \in Nat /\ held[c] \in Nat /\ Underway(c)
        /\ checking[c] \in Seq(Entries) /\ DOMAIN results[c] = DOMAIN checking[c]
    BY DEF HealthInv, Underway
  <2>1. /\ checking[c] = <<>> \/ \E k \in DOMAIN results[c] : Running(c, k)
        /\ \A k \in DOMAIN results[c] : ~ Turn(c, k) /\ ~ Due(c, k)
        /\ onLoop = Nobody
    BY DEF HealthTick, Idle
  <2>2. ASSUME NEW k \in DOMAIN results[c] PROVE ~ InState(c, k, "queued")
    <3>1. PICK n \in Nat : QueuedFrom(c, n)
      BY <2>t DEF Underway
    <3>2. SUFFICES ASSUME InState(c, k, "queued") PROVE FALSE
      OBVIOUS
    <3>3. k > n /\ k \in 1 .. Len(checking[c])
      BY <2>t, <3>1, <3>2 DEF QueuedFrom
    <3>4. n + 1 \in DOMAIN results[c] /\ n + 1 > n
      BY <2>t, <3>3
    <3>5. InState(c, n + 1, "queued")
      BY <3>1, <3>4 DEF QueuedFrom
    <3>6. \A j \in 1 .. n : j \in DOMAIN results[c] /\ ~ j > n
      BY <2>t, <3>3
    <3>7. \A j \in 1 .. (n + 1) - 1 : ~ InState(c, j, "queued")
      BY <3>1, <3>6 DEF QueuedFrom
    <3>8. Turn(c, n + 1)
      BY <3>5, <3>7 DEF Turn
    <3>. QED  BY <2>1, <3>4, <3>8
  <2>3. ASSUME checking[c] # <<>> PROVE uptime + 1 <= started[c] + held[c] + ProbeTimeout
    <3>1. PICK k \in DOMAIN results[c] : Running(c, k)
      BY <2>1, <2>3
    <3>2. ~ uptime >= results[c][k].from + ProbeTimeout
      BY <2>1, <3>1 DEF Due
    <3>3. results[c][k].from \in Nat /\ results[c][k].from <= started[c] + held[c]
      BY <2>t, <3>1 DEF Underway, Stands, Running, InState, Fits, Statuses
    <3>. QED  BY <1>1, <2>t, <3>2, <3>3
  <2>4. \A k \in DOMAIN results[c] : Stands(c, k)'
    BY <1>1, <2>t, <2>2 DEF Underway, Stands, Running, InState
  <2>5. \E n \in Nat : QueuedFrom(c, n)'
    BY <1>1, <2>t DEF Underway, QueuedFrom, InState
  <2>. QED  BY <1>1, <2>t, <2>3, <2>4, <2>5 DEF Underway
<1>. QED  BY <1>1, <1>2 DEF HealthInv, Reports

\* Time that a probe holds the loop for counts as held for every request.
LEMMA LoopHeldKeeps ==
    ASSUME HealthInv, LoopHeld
    PROVE  HealthInv'
<1>1. /\ uptime \in Nat /\ ProbeTimeout \in Nat /\ uptime' = uptime + 1
      /\ held' = [c \in Checkers |-> IF checking[c] = <<>> THEN 0 ELSE held[c] + 1]
      /\ UNCHANGED <<registry, checking, started, results, report>>
  BY HealthAssumption DEF LoopHeld, HealthInv
<1>2. ASSUME NEW c \in Checkers PROVE Underway(c)'
  <2>t. started[c] \in Nat /\ held[c] \in Nat /\ Underway(c)
    BY DEF HealthInv, Underway
  <2>1. CASE checking[c] = <<>>
    <3>1. DOMAIN results'[c] = {} /\ held'[c] = 0
      BY <1>1, <2>t, <2>1 DEF Underway
    <3>. QED  BY <1>1, <2>t, <2>1, <3>1 DEF Underway, QueuedFrom
  <2>2. CASE checking[c] # <<>>
    <3>1. held'[c] = held[c] + 1
      BY <1>1, <2>2
    <3>2. ASSUME NEW k \in DOMAIN results[c] PROVE Stands(c, k)'
      <4>1. Stands(c, k)
        BY <2>t DEF Underway
      <4>2. CASE InState(c, k, "queued") /\ uptime <= started[c] + held[c]
        <5>1. uptime' <= started'[c] + held'[c]
          BY <1>1, <2>t, <3>1, <4>2
        <5>. QED  BY <1>1, <4>2, <5>1 DEF Stands, InState
      <4>3. CASE /\ Running(c, k)
                 /\ results[c][k].from \in Nat /\ results[c][k].from <= started[c] + held[c]
        <5>1. results'[c][k].from \in Nat /\ results'[c][k].from <= started'[c] + held'[c]
          BY <1>1, <2>t, <3>1, <4>3
        <5>. QED  BY <1>1, <4>3, <5>1 DEF Stands, Running, InState
      <4>4. CASE Fits(results[c][k], checking[c][k])
        BY <1>1, <4>4 DEF Stands
      <4>. QED  BY <4>1, <4>2, <4>3, <4>4 DEF Stands
    <3>3. \E n \in Nat : QueuedFrom(c, n)'
      BY <1>1, <2>t DEF Underway, QueuedFrom, InState
    <3>4. uptime' <= started'[c] + held'[c] + ProbeTimeout /\ held'[c] \in Nat
      BY <1>1, <2>t, <2>2, <3>1 DEF Underway
    <3>. QED  BY <1>1, <2>t, <3>2, <3>3, <3>4 DEF Underway
  <2>. QED  BY <2>1, <2>2
<1>3. DOMAIN held' = Checkers /\ held' = [c \in Checkers |-> held'[c]]
  BY <1>1
<1>. QED  BY <1>1, <1>2, <1>3 DEF HealthInv, Reports

LEMMA HealthStep == HealthInv /\ [HealthNext]_healthVars => HealthInv'
<1> SUFFICES ASSUME HealthInv, [HealthNext]_healthVars PROVE HealthInv'
  OBVIOUS
<1>1. CASE UNCHANGED healthVars
  BY <1>1, LoopChanges DEF healthVars
<1>2. CASE HealthNext
  <2>1. CASE \E name \in ProbeNames : Unregister(name) \/ \E p \in Probes : Register(name, p)
    BY <2>1, RegistryKeeps
  <2>2. CASE \E c \in Checkers : Check(c) \/ Report(c)
    BY <2>2, CheckKeeps, ReportKeeps
  <2>3. ASSUME NEW c \in Checkers, NEW k \in DOMAIN results[c],
               ProbeStarts(c, k) \/ ProbeAwaits(c, k) \/ ProbeResumes(c, k)
        PROVE  HealthInv'
    <3>1. CASE ProbeStarts(c, k)
      BY <3>1, StartKeeps
    <3>2. CASE ProbeAwaits(c, k) \/ ProbeResumes(c, k)
      BY <3>2, LoopChanges DEF ProbeAwaits, ProbeResumes
    <3>. QED  BY <2>3, <3>1, <3>2
  <2>4. CASE \E c \in Checkers : \E k \in DOMAIN results[c] :
                ProbeAnswers(c, k) \/ ProbeFails(c, k) \/ ProbeRaises(c, k) \/ ProbeTimesOut(c, k)
    BY <2>4, ProbeKeeps
  <2>5. CASE HealthTick
    BY <2>5, HealthTickKeeps, Zenon
  <2>6. CASE LoopHeld
    BY <2>6, LoopHeldKeeps, Zenon
  <2>. QED  BY <1>2, <2>1, <2>2, <2>3, <2>4, <2>5, <2>6, Zenon DEF HealthNext
<1>. QED  BY <1>1, <1>2

\* What /health answers is whole, whatever probes do: see ReportWhole.
THEOREM HealthReportWhole == HealthSpec => []ReportWhole
<1>1. HealthInv => ReportWhole
  <2> SUFFICES ASSUME HealthInv, NEW c \in Checkers, report[c] # NoReport,
                      NEW r, r = report[c]
               PROVE  /\ Len(r.components) = Len(r.probes)
                      /\ \A k \in DOMAIN r.probes :
                            /\ \/ r.components[k].component = r.probes[k].probe
                               \/ /\ r.components[k].component = r.probes[k].name
                                  /\ r.components[k].status = "unhealthy"
                            /\ r.components[k].status \in Statuses
                            /\ Rank(r.components[k].status) <= Rank(r.status)
                      /\ r.status = "healthy" \/ \E k \in DOMAIN r.probes : r.components[k].status = r.status
                      /\ r.at <= r.from + ProbeTimeout + r.held
    BY DEF ReportWhole
  <2>1. Reported(r)
    BY DEF HealthInv, Reports
  <2>2. Len(r.components) = Len(r.probes)
    BY <2>1 DEF Reported
  <2>3. \A k \in DOMAIN r.probes : Fits(r.components[k], r.probes[k])
    BY <2>1 DEF Reported
  <2>4. r.status = "healthy" \/ \E k \in DOMAIN r.probes : r.components[k].status = r.status
    BY <2>1 DEF Reported, Overall
  <2>5. ASSUME NEW k \in DOMAIN r.probes
        PROVE  Rank(r.components[k].status) <= Rank(r.status)
    <3>1. Rank("healthy") = 0 /\ Rank("degraded") = 1 /\ Rank("unhealthy") = 2
      BY DEF Rank
    <3>2. r.components[k].status \in {"healthy", "degraded", "unhealthy"}
      BY <2>3 DEF Fits, Statuses
    <3>3. r.components[k].status = "unhealthy" => r.status = "unhealthy"
      BY <2>1 DEF Reported, Overall
    <3>4. r.components[k].status = "degraded" => r.status \in {"degraded", "unhealthy"}
      BY <2>1 DEF Reported, Overall
    <3>5. r.status \in {"healthy", "degraded", "unhealthy"}
      BY <2>1 DEF Reported, Overall
    <3>. QED  BY <3>1, <3>2, <3>3, <3>4, <3>5
  <2>. QED  BY <2>1, <2>2, <2>3, <2>4, <2>5 DEF Fits, Reported
<1>. QED  BY InitHealth, HealthStep, <1>1, PTL DEF HealthSpec

-----------------------------------------------------------------------------
\* The life of the models.

States == {"absent", "open", "closing", "closed"}

\* What each stage of the handler has open, running and handed out. A close
\* starts after the last pipeline and the pollers have gone, and only then.
Stages ==
    /\ component \in [Components -> States]
    /\ handles \in Nat \cup {-1}
    /\ pollers \subseteq {"reaper", "gpu"}
    /\ lifespan \in {"loading", "failed", "serving", "closing", "gathering", "stopped"}
    /\ lifespan # "serving" => minted = {} /\ pollers = {}
    /\ lifespan = "loading" => ~available
    /\ lifespan \in {"loading", "failed", "serving", "closing"}
          => \A c \in Components : component[c] \in {"absent", "open"}
    /\ lifespan \in {"gathering", "stopped"} => \A c \in Components : component[c] # "open"
    /\ lifespan = "stopped" => \A c \in Components : component[c] \in {"absent", "closed"}
    /\ minted # {} => \A c \in Components \ {"cache"} : component[c] = "open"
    /\ "gpu" \in pollers => nvml = "up" /\ handles = Gpus

\* Before the first load nothing is there.
LEMMA InitStages == RuntimeInit => Stages
BY DEF RuntimeInit, Stages, States

\* Only the load opens components; a failed one leaves some open.
LEMMA LoadKeeps ==
    ASSUME Stages, LoadModel \/ LoadModelFails \/ ConnectFails
    PROVE  Stages'
<1>1. CASE LoadModel
  BY <1>1 DEF LoadModel, Stages, States, Collector
<1>2. CASE LoadModelFails
  BY <1>2 DEF LoadModelFails, Stages, Collector
<1>3. CASE ConnectFails
  BY <1>3 DEF ConnectFails, OpenServices, Stages, States, Collector
<1>. QED  BY <1>1, <1>2, <1>3

\* The handler starts to serve: the poller runs over a collector that has
\* found every device.
LEMMA ServingKeeps ==
    ASSUME Stages, StartServing
    PROVE  Stages'
<1>1. component' \in [Components -> States]
      /\ \A c \in Components : component'[c] \in {"absent", "open"}
  BY DEF StartServing, OpenServices, Stages, States
<1>2. pollers' \subseteq {"reaper", "gpu"} /\ minted' = {} /\ lifespan' = "serving"
  BY DEF StartServing, Stages
<1>3. handles' \in Nat \cup {-1}
  BY RuntimeAssumption DEF StartServing, StartCollector, Collector, Stages
<1>4. "gpu" \in pollers' => nvml' = "up" /\ handles' = Gpus
  BY DEF StartServing, StartCollector, Collector, Stages
<1>. QED  BY <1>1, <1>2, <1>3, <1>4 DEF Stages

\* A call takes a pipeline only when everything is open, and gives it back.
LEMMA CallKeeps ==
    ASSUME Stages, NEW s \in CallIds, MintPipeline(s) \/ SocketEnds(s)
    PROVE  Stages'
<1>1. CASE MintPipeline(s)
  <2>1. \A c \in Components \ {"cache"} : component[c] = "open"
    BY <1>1 DEF MintPipeline, Ready, Stages, Components, Models, Services
  <2>. QED  BY <1>1, <2>1 DEF MintPipeline, Stages, Collector
<1>2. CASE SocketEnds(s)
  BY <1>2 DEF SocketEnds, Stages, Collector
<1>. QED  BY <1>1, <1>2

\* The shutdown goes through its stages in order.
LEMMA ShutdownKeeps ==
    ASSUME Stages, StopServing \/ CloseComponents \/ StopsWhenClosed
                   \/ \E c \in Components : CloseEnds(c)
    PROVE  Stages'
<1>1. CASE StopServing
  BY <1>1, RuntimeAssumption DEF StopServing, Stages, Collector
<1>2. CASE CloseComponents
  BY <1>2 DEF CloseComponents, Stages, States, Collector
<1>3. CASE StopsWhenClosed
  BY <1>3 DEF StopsWhenClosed, Stages, States, Collector
<1>4. ASSUME NEW c \in Components, CloseEnds(c)
      PROVE  Stages'
  BY <1>4 DEF CloseEnds, Stages, States, Collector
<1>. QED  BY <1>1, <1>2, <1>3, <1>4

\* Every step keeps the stages.
LEMMA StepKeepsStages == Stages /\ [RuntimeNext]_runtimeVars => Stages'
<1> SUFFICES ASSUME Stages, [RuntimeNext]_runtimeVars
             PROVE  Stages'
  OBVIOUS
<1>1. CASE UNCHANGED runtimeVars
  BY <1>1 DEF runtimeVars, Stages
<1>2. CASE RuntimeNext
  BY <1>2, LoadKeeps, ServingKeeps, CallKeeps, ShutdownKeeps DEF RuntimeNext
<1>. QED  BY <1>1, <1>2

LEMMA AlwaysStages == RuntimeSpec => []Stages
BY InitStages, StepKeepsStages, PTL DEF RuntimeSpec

-----------------------------------------------------------------------------
\* No model closes under a call or under the tasks that use it, whatever fails
\* at the start and in whatever order the closes end: the safety part of
\* ShutsDownWhole.
THEOREM CallsKeepTheirModels == RuntimeSpec => []ModelsOutliveCalls
<1>1. Stages => ModelsOutliveCalls
  <2> SUFFICES ASSUME Stages
               PROVE  ModelsOutliveCalls
    OBVIOUS
  <2>1. ASSUME NEW c \in Components, component[c] \in {"closing", "closed"}
        PROVE  minted = {} /\ pollers = {}
    BY <2>1 DEF Stages
  <2>. QED  BY <2>1 DEF Stages, ModelsOutliveCalls
<1>. QED  BY <1>1, AlwaysStages, PTL

\* A server that has stopped has closed everything it had open.
THEOREM StoppedIsClosed ==
    RuntimeSpec => [](Stopped => \A c \in Components : component[c] \in {"absent", "closed"})
<1>1. Stages => (Stopped => \A c \in Components : component[c] \in {"absent", "closed"})
  BY DEF Stages, Stopped
<1>. QED  BY <1>1, AlwaysStages, PTL

-----------------------------------------------------------------------------
\* The settings.

\* Of two trees laid one over the other, the upper one's value counts where it
\* gives one, and the lower one's where it does not.
LEMMA MergeTakesUpper ==
    ASSUME NEW low, NEW up, NEW s, NEW k,
           NEW tree, tree = DeepMerge(low, up)
    PROVE  /\ Says(tree, s, k) <=> Says(low, s, k) \/ Says(up, s, k)
           /\ Says(up, s, k) => tree[s][k] = up[s][k]
           /\ Says(low, s, k) /\ ~ Says(up, s, k) => tree[s][k] = low[s][k]
<1>1. CASE s \in DOMAIN low /\ s \in DOMAIN up
  <2>1. s \in DOMAIN tree /\ tree[s] = Over(low[s], up[s])
    BY <1>1 DEF DeepMerge
  <2>. QED  BY <1>1, <2>1 DEF Says, Over
<1>2. CASE s \in DOMAIN up /\ s \notin DOMAIN low
  <2>1. s \in DOMAIN tree /\ tree[s] = up[s]
    BY <1>2 DEF DeepMerge
  <2>. QED  BY <1>2, <2>1 DEF Says
<1>3. CASE s \in DOMAIN low /\ s \notin DOMAIN up
  <2>1. s \in DOMAIN tree /\ tree[s] = low[s]
    BY <1>3 DEF DeepMerge
  <2>. QED  BY <1>3, <2>1 DEF Says
<1>4. CASE s \notin DOMAIN low /\ s \notin DOMAIN up
  <2>1. s \notin DOMAIN tree
    BY <1>4 DEF DeepMerge
  <2>. QED  BY <1>4, <2>1 DEF Says
<1>. QED  BY <1>1, <1>2, <1>3, <1>4

\* Settings built from their sources take each key from the highest one.
Layered(was) == \A s \in DOMAIN Defaults : \A k \in DOMAIN Defaults[s] :
                   FromHighest(was.tree, was.sources, s, k)

LEMMA BuildIs ==
    ASSUME NEW overrides, NEW was, was = Build(overrides)
    PROVE  /\ was.made = TRUE /\ was.sources[5] = overrides
           /\ Layered(was)
<1>1. PICK src : src = Sources(overrides)
  OBVIOUS
<1>2. DOMAIN src = 1 .. 5 /\ src[1] = Defaults /\ src[5] = overrides
  BY <1>1 DEF Sources
<1>3. PICK t2 : t2 = DeepMerge(src[1], src[2])
  OBVIOUS
<1>4. PICK t3 : t3 = DeepMerge(t2, src[3])
  OBVIOUS
<1>5. PICK t4 : t4 = DeepMerge(t3, src[4])
  OBVIOUS
<1>6. PICK t5 : t5 = DeepMerge(t4, src[5])
  OBVIOUS
<1>7. was.made = TRUE /\ was.sources = src /\ was.tree = t5
  BY <1>1, <1>3, <1>4, <1>5, <1>6 DEF Build
<1>8. ASSUME NEW s \in DOMAIN Defaults, NEW k \in DOMAIN Defaults[s]
      PROVE  FromHighest(t5, src, s, k)
  <2>1. Says(src[1], s, k)
    BY <1>2 DEF Says
  <2>2. /\ Says(t2, s, k) /\ Says(t3, s, k) /\ Says(t4, s, k) /\ Says(t5, s, k)
        /\ t2[s][k] = IF Says(src[2], s, k) THEN src[2][s][k] ELSE src[1][s][k]
        /\ t3[s][k] = IF Says(src[3], s, k) THEN src[3][s][k] ELSE t2[s][k]
        /\ t4[s][k] = IF Says(src[4], s, k) THEN src[4][s][k] ELSE t3[s][k]
        /\ t5[s][k] = IF Says(src[5], s, k) THEN src[5][s][k] ELSE t4[s][k]
    BY <2>1, <1>3, <1>4, <1>5, <1>6, MergeTakesUpper
  <2>3. PICK i \in 1 .. 5 : Says(src[i], s, k) /\ \A j \in 1 .. 5 : j > i => ~ Says(src[j], s, k)
    <3>1. CASE Says(src[5], s, k)
      BY <3>1
    <3>2. CASE ~ Says(src[5], s, k) /\ Says(src[4], s, k)
      BY <3>2
    <3>3. CASE ~ Says(src[5], s, k) /\ ~ Says(src[4], s, k) /\ Says(src[3], s, k)
      BY <3>3
    <3>4. CASE ~ Says(src[5], s, k) /\ ~ Says(src[4], s, k) /\ ~ Says(src[3], s, k) /\ Says(src[2], s, k)
      BY <3>4
    <3>5. CASE ~ Says(src[5], s, k) /\ ~ Says(src[4], s, k) /\ ~ Says(src[3], s, k) /\ ~ Says(src[2], s, k)
      BY <2>1, <3>5
    <3>. QED  BY <3>1, <3>2, <3>3, <3>4, <3>5
  <2>4. t5[s][k] = src[i][s][k]
    <3>1. i \in {1, 2, 3, 4, 5}
      OBVIOUS
    <3>. QED  BY <2>2, <2>3, <3>1
  <2>. QED  BY <1>2, <2>2, <2>3, <2>4 DEF FromHighest
<1>. QED  BY <1>2, <1>7, <1>8 DEF Layered

\* What is returned was built for its call, or kept from one without overrides.
SettingsInv ==
    /\ cached.made => ~ cached.raised /\ cached.sources[5] = EmptyTree /\ Layered(cached)
    /\ loaded.was.made => loaded.was.sources[5] = loaded.call /\ Layered(loaded.was)

LEMMA SettingsStep == SettingsInv /\ [SettingsNext]_settingsVars => SettingsInv'
<1> SUFFICES ASSUME SettingsInv, [SettingsNext]_settingsVars PROVE SettingsInv'
  OBVIOUS
<1>1. ASSUME NEW t, NEW b \in BOOLEAN, LoadSettings(t, b) PROVE SettingsInv'
  <2>1. PICK built : built = Build(t)
    OBVIOUS
  <2>2. built.made = TRUE /\ built.sources[5] = t /\ Layered(built)
    BY <2>1, BuildIs
  <2>3. /\ runtimeOverrides' = t
        /\ \/ /\ b /\ t = EmptyTree /\ cached.made
              /\ loaded' = [call |-> t, was |-> cached] /\ cached' = cached
           \/ /\ loaded' = [call |-> t, was |-> built]
              /\ \/ b /\ t = EmptyTree /\ ~ built.raised /\ cached' = built
                 \/ cached' = cached
    BY <1>1, <2>1 DEF LoadSettings
  <2>5. /\ loaded'.was \in {cached, built} /\ loaded'.call = t
        /\ loaded'.was = cached => (t = EmptyTree /\ cached.made) \/ loaded'.was = built
    BY <2>3
  <2>6. loaded'.was.sources[5] = loaded'.call /\ Layered(loaded'.was)
    BY <2>2, <2>5 DEF SettingsInv
  <2>7. cached'.made => ~ cached'.raised /\ cached'.sources[5] = EmptyTree /\ Layered(cached')
    <3>1. cached' = cached \/ (cached' = built /\ ~ built.raised /\ t = EmptyTree)
      BY <2>3
    <3>. QED  BY <2>2, <3>1 DEF SettingsInv
  <2>. QED  BY <2>6, <2>7 DEF SettingsInv, Layered
<1>2. ASSUME ClearSettingsCache \/ Export \/ UNCHANGED settingsVars PROVE SettingsInv'
  <2>1. loaded' = loaded /\ cached' \in {cached, Nothing}
    BY <1>2 DEF ClearSettingsCache, Export, settingsVars
  <2>2. Nothing.made = FALSE
    BY DEF Nothing
  <2>. QED  BY <2>1, <2>2 DEF SettingsInv, Layered
<1>. QED  BY <1>1, <1>2 DEF SettingsNext

\* See HighestSourceWins: the layers of the settings, their cache and the
\* overrides never get into each other's way.
THEOREM SettingsLayered == SettingsSpec => []HighestSourceWins
<1>1. SettingsInit => SettingsInv
  BY DEF SettingsInit, SettingsInv, Nothing
<1>2. SettingsInv => HighestSourceWins
  BY DEF SettingsInv, HighestSourceWins, Layered
<1>. QED  BY <1>1, <1>2, SettingsStep, PTL DEF SettingsSpec
================================================================================
