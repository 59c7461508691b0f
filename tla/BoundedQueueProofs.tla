------------------------- MODULE BoundedQueueProofs -------------------------
(***************************************************************************)
(* Proofs about BoundedQueue, for every capacity, policy, set of           *)
(* priorities and finite set of consumers.                                 *)
(***************************************************************************)
EXTENDS BoundedQueue, DataLemmas, FiniteSetTheorems, SequenceTheorems, TLAPS

-----------------------------------------------------------------------------
(* The order of the entries.                                              *)

\* Entries are told apart by their sequence number.
Numbered(S) == \A e, f \in S : e.seq = f.seq => e = f

\* _take always finds an entry to serve, and it precedes all the others.
LEMMA NextEntryPrecedes ==
    ASSUME NEW S \in SUBSET Entry, IsFiniteSet(S), S # {}, Numbered(S)
    PROVE  /\ NextEntry(S) \in S
           /\ \A f \in S \ {NextEntry(S)} : Precedes(NextEntry(S), f)
<1> DEFINE R == {ef \in S \X S : Precedes(ef[1], ef[2])}
<1>a. \A e, f : <<e, f>> \in R <=> e \in S /\ f \in S /\ Precedes(e, f)
  OBVIOUS
<1>b. \A e \in S : e.seq \in Int /\ e.pri \in Int
  <2> SUFFICES ASSUME NEW e \in S  PROVE e.seq \in Int /\ e.pri \in Int
    OBVIOUS
  <2>1. e \in [seq : Nat, pri : Priorities]
    BY DEF Entry
  <2>2. e.seq \in Nat /\ e.pri \in Priorities
    BY <2>1
  <2>3. Priorities \subseteq Int
    BY PrioritiesAssumption
  <2>4. e.pri \in Int
    BY <2>2, <2>3
  <2>. QED  BY <2>2, <2>4
<1> HIDE DEF R
<1>1. \A e \in S : <<e, e>> \notin R
  BY <1>a, <1>b DEF Precedes
<1>2. \A e, f, g \in S : <<e, f>> \in R /\ <<f, g>> \in R => <<e, g>> \in R
  BY <1>a, <1>b DEF Precedes
<1>3. PICK e \in S : \A f \in S : <<f, e>> \notin R
  BY <1>1, <1>2, FiniteMinimal
<1>4. \A f \in S \ {e} : Precedes(e, f)
  <2> SUFFICES ASSUME NEW f \in S \ {e}  PROVE Precedes(e, f)
    OBVIOUS
  <2>1. ~ Precedes(f, e)
    BY <1>3, <1>a
  <2>2. e.seq # f.seq
    BY DEF Numbered
  <2>. QED  BY <2>1, <2>2, <1>b DEF Precedes
<1>. QED  BY <1>4 DEF NextEntry

\* _discard_oldest always finds an entry to evict, the least recent one.
LEMMA OldestEntryIsOldest ==
    ASSUME NEW S \in SUBSET Entry, IsFiniteSet(S), S # {}
    PROVE  /\ OldestEntry(S) \in S
           /\ \A f \in S : OldestEntry(S).seq <= f.seq
<1> DEFINE R == {ef \in S \X S : ef[1].seq < ef[2].seq}
<1>a. \A e, f : <<e, f>> \in R <=> e \in S /\ f \in S /\ e.seq < f.seq
  OBVIOUS
<1>b. \A e \in S : e.seq \in Int
  BY DEF Entry
<1> HIDE DEF R
<1>1. \A e \in S : <<e, e>> \notin R
  BY <1>a, <1>b
<1>2. \A e, f, g \in S : <<e, f>> \in R /\ <<f, g>> \in R => <<e, g>> \in R
  BY <1>a, <1>b
<1>3. PICK e \in S : \A f \in S : <<f, e>> \notin R
  BY <1>1, <1>2, FiniteMinimal
<1>4. \A f \in S : e.seq <= f.seq
  <2> SUFFICES ASSUME NEW f \in S  PROVE e.seq <= f.seq
    OBVIOUS
  <2>1. ~ (f.seq < e.seq)
    BY <1>3, <1>a
  <2>. QED  BY <2>1, <1>b
<1>. QED  BY <1>4 DEF OldestEntry

\* A nonempty set of positions in a sequence has a least element.
LEMMA LeastIndex ==
    ASSUME NEW n \in Nat, NEW D, D \subseteq 1 .. n, D # {}
    PROVE  \E i \in D : \A j \in D : i <= j
<1> DEFINE R == {jk \in D \X D : jk[1] < jk[2]}
<1>1. IsFiniteSet(D)
  <2>1. IsFiniteSet(1 .. n)
    BY FS_Interval
  <2>. QED  BY <2>1, FS_Subset
<1>a. \A j, k : <<j, k>> \in R <=> j \in D /\ k \in D /\ j < k
  OBVIOUS
<1>b. \A j \in D : j \in Int
  OBVIOUS
<1> HIDE DEF R
<1>2. PICK i \in D : \A j \in D : <<j, i>> \notin R
  <2>1. \A j \in D : <<j, j>> \notin R
    BY <1>a, <1>b
  <2>2. \A j, k, l \in D : <<j, k>> \in R /\ <<k, l>> \in R => <<j, l>> \in R
    BY <1>a, <1>b
  <2>. QED  BY <1>1, <2>1, <2>2, FiniteMinimal
<1>3. \A j \in D : i <= j
  <2> SUFFICES ASSUME NEW j \in D  PROVE i <= j
    OBVIOUS
  <2>1. ~ (j < i)
    BY <1>2, <1>a
  <2>. QED  BY <2>1, <1>b
<1>. QED  BY <1>3

\* A nonempty finite set of entries has a latest one.
LEMMA LatestEntry ==
    ASSUME NEW S \in SUBSET Entry, IsFiniteSet(S), S # {}
    PROVE  \E e \in S : \A f \in S : f.seq <= e.seq
<1> DEFINE R == {ef \in S \X S : ef[1].seq > ef[2].seq}
<1>a. \A e, f : <<e, f>> \in R <=> e \in S /\ f \in S /\ e.seq > f.seq
  OBVIOUS
<1>b. \A e \in S : e.seq \in Int
  BY DEF Entry
<1> HIDE DEF R
<1>1. PICK e \in S : \A f \in S : <<f, e>> \notin R
  <2>1. \A f \in S : <<f, f>> \notin R
    BY <1>a, <1>b
  <2>2. \A f, g, h \in S : <<f, g>> \in R /\ <<g, h>> \in R => <<f, h>> \in R
    BY <1>a, <1>b
  <2>. QED  BY <2>1, <2>2, FiniteMinimal
<1>2. \A f \in S : f.seq <= e.seq
  <2> SUFFICES ASSUME NEW f \in S  PROVE f.seq <= e.seq
    OBVIOUS
  <2>1. ~ (f.seq > e.seq)
    BY <1>1, <1>a
  <2>. QED  BY <2>1, <1>b
<1>. QED  BY <1>2

-----------------------------------------------------------------------------
(* The list of getters *)

\* Every parked consumer has its waiter in _getters, where _wake_next and
\* close() can find it.
Listed(g, t) == \A c \in Consumers : t[c] = "parked" => \E i \in DOMAIN g : g[i] = c

\* What _wake_next does: it wakes exactly one parked consumer if there is
\* one, nobody otherwise, and strands nobody.
LEMMA WakeNextEffect ==
    ASSUME getters \in Seq(Consumers), NEW t \in [Consumers -> TaskStates],
           Listed(getters, t), WakeNext(t)
    PROVE  /\ getters' \in Seq(Consumers)
           /\ task' \in [Consumers -> TaskStates]
           /\ Listed(getters', task')
           /\ \/ Pending(t) = {} /\ task' = t
              \/ \E c \in Pending(t) : task' = [t EXCEPT ![c] = "woken"]
<1>0. /\ Len(getters) \in Nat
      /\ DOMAIN getters = 1 .. Len(getters)
      /\ \A j \in DOMAIN getters : getters[j] \in Consumers
  OBVIOUS
<1>1. CASE PendingAt(t) = {}
  <2>1. getters' = <<>> /\ task' = t
    BY <1>1 DEF WakeNext
  <2>2. Pending(t) = {}
    BY <1>1 DEF Pending, PendingAt, Listed
  <2>. QED  BY <2>1, <2>2 DEF Listed, Pending
<1>2. CASE PendingAt(t) # {}
  <2> DEFINE i == FirstPendingAt(t)
  <2>0. PendingAt(t) \subseteq 1 .. Len(getters)
    BY <1>0 DEF PendingAt
  <2>1. i \in PendingAt(t) /\ \A j \in PendingAt(t) : i <= j
    BY <2>0, <1>0, <1>2, LeastIndex DEF FirstPendingAt
  <2>2. /\ getters' = SubSeq(getters, i + 1, Len(getters))
        /\ task' = [t EXCEPT ![getters[i]] = "woken"]
    BY <1>2 DEF WakeNext
  <2> HIDE DEF i
  <2>3. i \in 1 .. Len(getters) /\ getters[i] \in Pending(t)
    BY <2>1, <2>0, <1>0 DEF PendingAt, Pending
  <2>4. getters' \in Seq(Consumers)
    BY <2>2, <2>3, <1>0
  <2>5. task' \in [Consumers -> TaskStates]
    BY <2>2, <2>3 DEF TaskStates
  <2>6. Listed(getters', task')
    <3> SUFFICES ASSUME NEW c \in Consumers, task'[c] = "parked"
                 PROVE  \E j \in DOMAIN getters' : getters'[j] = c
      BY DEF Listed
    <3>1. c # getters[i] /\ t[c] = "parked"
      BY <2>2, <2>3 DEF Pending
    <3>2. PICK j \in DOMAIN getters : getters[j] = c
      BY <3>1 DEF Listed
    <3>3. j > i
      BY <3>1, <3>2, <2>1, <2>0, <1>0 DEF PendingAt
    <3>4. /\ Len(getters') = Len(getters) - i
          /\ \A n \in 1 .. Len(getters) - i : getters'[n] = getters[i + n]
      <4>1. \A n \in i + 1 .. Len(getters) : getters[n] \in Consumers
        BY <2>3, <1>0
      <4>2. /\ Len(SubSeq(getters, i + 1, Len(getters))) =
                  IF i + 1 <= Len(getters) THEN Len(getters) - (i + 1) + 1 ELSE 0
            /\ \A n \in 1 .. Len(getters) - (i + 1) + 1 :
                  SubSeq(getters, i + 1, Len(getters))[n] = getters[(i + 1) + n - 1]
        <5>1. i + 1 \in Int /\ Len(getters) \in Int
          BY <2>3, <1>0
        <5> HIDE <2>3
        <5>. QED  BY <5>1, <4>1, SubSeqProperties
      <4>3. i \in Int /\ i <= Len(getters)
        BY <2>3, <1>0
      <4>4. Len(getters') = Len(getters) - i
        <5> DEFINE n == Len(getters)
        <5>1. i \in Int /\ n \in Int /\ i <= n
          BY <4>3, <1>0
        <5>2. Len(getters') = IF i + 1 <= n THEN n - (i + 1) + 1 ELSE 0
          BY <4>2, <2>2
        <5> HIDE DEF n
        <5>3. Len(getters') = n - i
          BY <5>1, <5>2
        <5>. QED  BY <5>3 DEF n
      <4>5. ASSUME NEW n \in 1 .. Len(getters) - i
            PROVE  getters'[n] = getters[i + n]
        <5>1. n \in 1 .. Len(getters) - (i + 1) + 1 /\ (i + 1) + n - 1 = i + n
          BY <4>3, <1>0
        <5>. QED  BY <5>1, <4>2, <2>2
      <4>. QED  BY <4>4, <4>5
    <3>5. j - i \in DOMAIN getters' /\ getters'[j - i] = c
      BY <3>2, <3>3, <3>4, <2>3, <2>4, <1>0
    <3>. QED  BY <3>5
  <2>. QED  BY <2>2, <2>3, <2>4, <2>5, <2>6
<1>. QED  BY <1>1, <1>2

\* deque.remove takes out an occurrence of c and nothing else.
LEMMA WithoutEffect ==
    ASSUME NEW g \in Seq(Consumers), NEW c \in Consumers
    PROVE  /\ Without(g, c) \in Seq(Consumers)
           /\ \A d \in Consumers \ {c} :
                (\E i \in DOMAIN g : g[i] = d)
                  => \E i \in DOMAIN Without(g, c) : Without(g, c)[i] = d
<1>0. /\ Len(g) \in Nat /\ DOMAIN g = 1 .. Len(g)
      /\ \A j \in 1 .. Len(g) : g[j] \in Consumers
  OBVIOUS
<1>1. CASE ~ \E i \in DOMAIN g : g[i] = c
  BY <1>1 DEF Without
<1>2. CASE \E i \in DOMAIN g : g[i] = c
  <2> DEFINE At == {i \in DOMAIN g : g[i] = c}
             k == CHOOSE i \in DOMAIN g :
                     g[i] = c /\ \A j \in DOMAIN g : g[j] = c => i <= j
  <2>1. k \in DOMAIN g /\ g[k] = c
    <3>1. At # {} /\ At \subseteq DOMAIN g
      BY <1>2
    <3>2. \E i \in At : \A j \in At : i <= j
      BY <3>1, <1>0, LeastIndex
    <3>. QED  BY <3>2
  <2>2. Without(g, c) = SubSeq(g, 1, k - 1) \o SubSeq(g, k + 1, Len(g))
    BY <1>2 DEF Without
  <2> HIDE DEF k
  <2> DEFINE a == SubSeq(g, 1, k - 1)
             b == SubSeq(g, k + 1, Len(g))
             n == Len(g)
  <2>3. k \in 1 .. n /\ n \in Nat
    BY <2>1, <1>0
  <2>4. /\ a \in Seq(Consumers) /\ Len(a) = k - 1
        /\ \A j \in 1 .. k - 1 : a[j] = g[j]
    <3>1. \A j \in 1 .. k - 1 : g[j] \in Consumers
      BY <2>3, <1>0
    <3>2. 1 \in Int /\ k - 1 \in Int
      BY <2>3
    <3> HIDE DEF a
    <3>3. /\ a \in Seq(Consumers)
          /\ Len(a) = IF 1 <= k - 1 THEN (k - 1) - 1 + 1 ELSE 0
          /\ \A j \in 1 .. (k - 1) - 1 + 1 : a[j] = g[1 + j - 1]
      BY <3>1, <3>2, SubSeqProperties DEF a
    <3>4. Len(a) = k - 1
      BY <3>3, <2>3
    <3>5. ASSUME NEW j \in 1 .. k - 1  PROVE a[j] = g[j]
      <4>1. j \in 1 .. (k - 1) - 1 + 1 /\ 1 + j - 1 = j
        BY <2>3
      <4>. QED  BY <4>1, <3>3
    <3>. QED  BY <3>3, <3>4, <3>5
  <2>5. /\ b \in Seq(Consumers) /\ Len(b) = n - k
        /\ \A j \in 1 .. n - k : b[j] = g[k + j]
    <3>1. \A j \in k + 1 .. n : g[j] \in Consumers
      BY <2>3, <1>0
    <3>2. k + 1 \in Int /\ n \in Int
      BY <2>3
    <3> HIDE DEF b, n
    <3>3. /\ b \in Seq(Consumers)
          /\ Len(b) = IF k + 1 <= n THEN n - (k + 1) + 1 ELSE 0
          /\ \A j \in 1 .. n - (k + 1) + 1 : b[j] = g[(k + 1) + j - 1]
      BY <3>1, <3>2, SubSeqProperties DEF b, n
    <3>4. Len(b) = n - k
      BY <3>3, <2>3
    <3>5. ASSUME NEW j \in 1 .. n - k  PROVE b[j] = g[k + j]
      <4>1. j \in 1 .. n - (k + 1) + 1 /\ (k + 1) + j - 1 = k + j
        BY <2>3
      <4>. QED  BY <4>1, <3>3
    <3>. QED  BY <3>3, <3>4, <3>5
  <2>6. /\ a \o b \in Seq(Consumers)
        /\ Len(a \o b) = n - 1
        /\ DOMAIN (a \o b) = 1 .. n - 1
        /\ \A j \in 1 .. n - 1 : (a \o b)[j] = IF j < k THEN g[j] ELSE g[j + 1]
    <3> HIDE DEF a, b, n
    <3>1. /\ a \o b \in Seq(Consumers)
          /\ Len(a \o b) = Len(a) + Len(b)
          /\ \A j \in 1 .. Len(a) + Len(b) :
                (a \o b)[j] = IF j <= Len(a) THEN a[j] ELSE b[j - Len(a)]
      BY <2>4, <2>5, ConcatProperties
    <3>2. Len(a) + Len(b) = n - 1
      BY <2>3, <2>4, <2>5
    <3>3. DOMAIN (a \o b) = 1 .. n - 1
      BY <3>1, <3>2
    <3>4. ASSUME NEW j \in 1 .. n - 1
          PROVE  (a \o b)[j] = IF j < k THEN g[j] ELSE g[j + 1]
      <4>1. (a \o b)[j] = IF j <= k - 1 THEN a[j] ELSE b[j - (k - 1)]
        BY <3>1, <3>2, <2>4
      <4>2. CASE j < k
        BY <4>1, <4>2, <2>3, <2>4
      <4>3. CASE ~ (j < k)
        <5>1. j - (k - 1) \in 1 .. n - k /\ k + (j - (k - 1)) = j + 1
          BY <4>3, <2>3
        <5>2. ~ (j <= k - 1)
          BY <4>3, <2>3
        <5>. QED  BY <5>1, <5>2, <4>1, <4>3, <2>5
      <4>. QED  BY <4>2, <4>3
    <3>. QED  BY <3>1, <3>2, <3>3, <3>4
  <2>7. ASSUME NEW d \in Consumers \ {c}, NEW i \in DOMAIN g, g[i] = d
        PROVE  \E j \in 1 .. n - 1 : (a \o b)[j] = d
    <3> HIDE DEF a, b
    <3>1. i \in 1 .. n /\ i # k
      BY <2>7, <2>1, <1>0
    <3>2. CASE i < k
      <4>1. i \in 1 .. n - 1
        BY <3>1, <3>2, <2>3
      <4>2. (a \o b)[i] = g[i]
        BY <4>1, <3>2, <2>6
      <4>. QED  BY <4>1, <4>2, <2>7
    <3>3. CASE i > k
      <4>1. i - 1 \in 1 .. n - 1 /\ ~ (i - 1 < k) /\ (i - 1) + 1 = i
        BY <3>1, <3>3, <2>3
      <4>2. (a \o b)[i - 1] = g[i]
        BY <4>1, <2>6
      <4>. QED  BY <4>1, <4>2, <2>7
    <3>4. i \in Int /\ k \in Int
      BY <3>1, <2>3
    <3>5. i < k \/ i > k
      BY <3>1, <3>4
    <3>. QED  BY <3>2, <3>3, <3>5
  <2>. QED  BY <2>2, <2>6, <2>7
<1>. QED  BY <1>1, <1>2

-----------------------------------------------------------------------------
(* Structure: types, the numbering of entries, and the list of getters.    *)

EntriesNumbered == Numbered(items) /\ \A e \in items : e.seq < enqueued

Struct == TypeOK /\ EntriesNumbered /\ Listed(getters, task)

\* What _pop does to the store.
LEMMA PopEffect ==
    ASSUME TypeOK, EntriesNumbered, Pop
    PROVE  /\ NextEntry(items) \in items
           /\ items' = items \ {NextEntry(items)}
           /\ IsFiniteSet(items')
           /\ Size' = Size - 1
           /\ \A f \in items' : Precedes(NextEntry(items), f)
           /\ lastServed' \in [Priorities -> Nat \cup {-1}]
<1> USE DEF TypeOK, EntriesNumbered, Pop
<1>1. /\ NextEntry(items) \in items
      /\ \A f \in items \ {NextEntry(items)} : Precedes(NextEntry(items), f)
  BY NextEntryPrecedes
<1>2. /\ IsFiniteSet(items \ {NextEntry(items)})
      /\ Cardinality(items \ {NextEntry(items)}) = Cardinality(items) - 1
  BY <1>1, FS_RemoveElement
<1>3. NextEntry(items).seq \in Nat /\ NextEntry(items).pri \in Priorities
  BY <1>1 DEF Entry
<1>4. lastServed' \in [Priorities -> Nat \cup {-1}]
  BY <1>3
<1>. QED  BY <1>1, <1>2, <1>4 DEF Size

\* What a put that stores its item does, S being what the overflow left.
LEMMA StoredEffect ==
    ASSUME Struct, NEW p \in Priorities, NEW S \in SUBSET items,
           Stored(S \cup {NewEntry(p)})
    PROVE  /\ items' \subseteq Entry /\ IsFiniteSet(items')
           /\ Size' = Cardinality(S) + 1 /\ Cardinality(S) \in Nat
           /\ enqueued' = enqueued + 1
           /\ highWaterMark' \in Nat
           /\ Size' <= highWaterMark' /\ highWaterMark <= highWaterMark'
           /\ highWaterMark' = highWaterMark \/ highWaterMark' = Size'
           /\ EntriesNumbered'
           /\ WakeNext(task)
<1> USE DEF Struct, TypeOK
<1>1. items' = S \cup {NewEntry(p)} /\ enqueued' = enqueued + 1 /\ WakeNext(task)
  BY DEF Stored
<1>2. NewEntry(p) \in Entry /\ NewEntry(p).seq = enqueued
  BY DEF NewEntry, Entry
<1>3. NewEntry(p) \notin S
  BY <1>2 DEF EntriesNumbered
<1>4. IsFiniteSet(S) /\ Cardinality(S) \in Nat
  BY FS_Subset, FS_CardinalityType
<1>5. IsFiniteSet(items') /\ Size' = Cardinality(S) + 1
  BY <1>1, <1>3, <1>4, FS_AddElement DEF Size
<1>6. EntriesNumbered'
  <2>1. \A e \in items : e.seq \in Nat
    BY DEF Entry
  <2>2. \A e \in S : e.seq < enqueued
    BY DEF EntriesNumbered
  <2>3. Numbered(items')
    BY <1>1, <1>2, <2>1, <2>2 DEF EntriesNumbered, Numbered
  <2>4. \A e \in items' : e.seq < enqueued'
    BY <1>1, <1>2, <2>1, <2>2
  <2>. QED  BY <2>3, <2>4 DEF EntriesNumbered, Numbered
<1>7. highWaterMark' = IF Size' > highWaterMark THEN Size' ELSE highWaterMark
  BY <1>1 DEF Stored, Size
<1>. QED  BY <1>1, <1>2, <1>4, <1>5, <1>6, <1>7

\* drain() serves every entry: per band, the last one served is the latest.
LEMMA DrainServes ==
    ASSUME TypeOK, Drain
    PROVE  /\ lastServed' \in [Priorities -> Nat \cup {-1}]
           /\ \A p \in Priorities :
                \/ lastServed'[p] = lastServed[p]
                \/ \E e \in items : e.pri = p /\ e.seq = lastServed'[p]
<1> DEFINE band(p) == {e.seq : e \in {f \in items : f.pri = p}}
           last(p) == IF band(p) = {} THEN lastServed[p]
                      ELSE CHOOSE n \in band(p) : \A m \in band(p) : m <= n
<1>1. lastServed' = [p \in Priorities |-> last(p)]
  BY DEF Drain
<1>2. \A e \in items : e.seq \in Nat
  BY DEF TypeOK, Entry
<1>3. ASSUME NEW p \in Priorities
      PROVE  \/ last(p) = lastServed[p]
             \/ \E e \in items : e.pri = p /\ e.seq = last(p)
  <2>1. CASE band(p) = {}
    BY <2>1
  <2>2. CASE band(p) # {}
    <3> DEFINE S == {f \in items : f.pri = p}
    <3>1. S # {} /\ S \in SUBSET Entry /\ IsFiniteSet(S)
      BY <2>2, FS_Subset DEF TypeOK
    <3>2. PICK e \in S : \A f \in S : f.seq <= e.seq
      BY <3>1, LatestEntry
    <3>3. e.seq \in band(p) /\ \A m \in band(p) : m <= e.seq
      BY <3>2
    <3>4. last(p) \in band(p)
      BY <2>2, <3>3
    <3>. QED  BY <3>4
  <2>. QED  BY <2>1, <2>2
<1>4. \A p \in Priorities : last(p) \in Nat \cup {-1}
  <2> SUFFICES ASSUME NEW p \in Priorities  PROVE last(p) \in Nat \cup {-1}
    OBVIOUS
  <2> HIDE DEF last
  <2>1. CASE last(p) = lastServed[p]
    BY <2>1 DEF TypeOK
  <2>2. CASE \E e \in items : e.pri = p /\ e.seq = last(p)
    BY <2>2, <1>2
  <2>. QED  BY <2>1, <2>2, <1>3
<1> HIDE DEF last
<1>. QED  BY <1>1, <1>3, <1>4

\* The structural invariant holds initially.
LEMMA StructInit == Init => Struct
<1> SUFFICES ASSUME Init  PROVE Struct
  OBVIOUS
<1> USE DEF Init
<1>1. items \subseteq Entry /\ IsFiniteSet(items)
  BY FS_EmptySet
<1>2. getters \in Seq(Consumers) /\ task \in [Consumers -> TaskStates]
  BY DEF TaskStates
<1>3. lastServed \in [Priorities -> Nat \cup {-1}]
  OBVIOUS
<1>4. TypeOK
  BY <1>1, <1>2, <1>3 DEF TypeOK
<1>5. EntriesNumbered
  BY DEF EntriesNumbered, Numbered
<1>6. Listed(getters, task)
  BY DEF Listed
<1>. QED  BY <1>4, <1>5, <1>6 DEF Struct

\* Every step keeps the structural invariant.
LEMMA StructStep == Struct /\ [Next]_vars => Struct'
<1> SUFFICES ASSUME Struct, [Next]_vars  PROVE Struct'
  OBVIOUS
<1>p. policy' \in Policies
  BY DEF Struct, TypeOK, Next, vars
<1> USE <1>p
<1>0. TypeOK /\ EntriesNumbered /\ Listed(getters, task)
  BY DEF Struct
<1>c. Size \in Nat
  BY <1>0, FS_CardinalityType DEF TypeOK, Size
<1>1. ASSUME NEW p \in Priorities, PutAccepted(p) \/ PutDisplacesOldest(p)
      PROVE  Struct'
  <2>1. PICK S \in SUBSET items : Stored(S \cup {NewEntry(p)})
    BY <1>1 DEF PutAccepted, PutDisplacesOldest
  <2>2. /\ items' \subseteq Entry /\ IsFiniteSet(items')
        /\ enqueued' = enqueued + 1 /\ highWaterMark' \in Nat
        /\ EntriesNumbered' /\ WakeNext(task)
    BY <2>1, StoredEffect
  <2>3. /\ getters' \in Seq(Consumers)
        /\ task' \in [Consumers -> TaskStates]
        /\ Listed(getters', task')
    BY <1>0, <2>2, WakeNextEffect DEF TypeOK
  <2>4. UNCHANGED <<closed, dequeued, rejected, removed, lastServed>>
        /\ offered' = offered + 1
        /\ dropped' \in {dropped, dropped + 1}
    BY <1>1, <2>1 DEF PutAccepted, PutDisplacesOldest, Offer, Stored
  <2>5. TypeOK'
    BY <1>0, <2>2, <2>3, <2>4 DEF TypeOK
  <2>. QED  BY <2>2, <2>3, <2>5 DEF Struct, Listed
<1>2. CASE PutDropsNewest \/ PutRejected
  <2>1. UNCHANGED <<items, getters, task, closed, enqueued, dequeued, highWaterMark,
                    removed, lastServed>>
    BY <1>2 DEF PutDropsNewest, PutRejected, Offer
  <2>2. offered' \in Nat /\ dropped' \in Nat /\ rejected' \in Nat
    BY <1>2, <1>0 DEF PutDropsNewest, PutRejected, Offer, TypeOK
  <2>3. TypeOK'
    BY <1>0, <2>1, <2>2 DEF TypeOK
  <2>4. EntriesNumbered' /\ Listed(getters', task')
    BY <1>0, <2>1 DEF EntriesNumbered, Numbered, Listed
  <2>. QED  BY <2>3, <2>4 DEF Struct, Listed
<1>3. ASSUME Pop, getters' = getters,
             task' = task \/ \E c \in Consumers : task' = [task EXCEPT ![c] = "idle"]
      PROVE  Struct'
  <2>1. /\ items' \subseteq items /\ IsFiniteSet(items')
        /\ lastServed' \in [Priorities -> Nat \cup {-1}]
    BY <1>0, <1>3, PopEffect
  <2>2. task' \in [Consumers -> TaskStates] /\ Listed(getters', task')
    BY <1>0, <1>3 DEF TypeOK, TaskStates, Listed
  <2>3. TypeOK'
    BY <1>0, <1>3, <2>1, <2>2 DEF TypeOK, Pop
  <2>4. EntriesNumbered'
    BY <1>0, <1>3, <2>1 DEF EntriesNumbered, Numbered, Pop
  <2>. QED  BY <2>2, <2>3, <2>4 DEF Struct, Listed
<1>4. ASSUME NoTransfer, getters' \in Seq(Consumers),
             task' \in [Consumers -> TaskStates], Listed(getters', task')
      PROVE  Struct'
  BY <1>0, <1>4 DEF NoTransfer, counters, history, Struct, TypeOK,
                    EntriesNumbered, Numbered, Listed
<1>5. ASSUME NEW c \in Consumers, GetParks(c) \/ ResumeParksAgain(c)
      PROVE  Struct'
  <2>1. /\ getters' = Append(getters, c) /\ task' = [task EXCEPT ![c] = "parked"]
        /\ NoTransfer
    BY <1>5 DEF GetParks, ResumeParksAgain
  <2>2. getters' \in Seq(Consumers) /\ task' \in [Consumers -> TaskStates]
    BY <1>0, <2>1 DEF TypeOK, TaskStates
  <2>3. Listed(getters', task')
    <3>0. getters \in Seq(Consumers)
      BY <1>0 DEF TypeOK
    <3>1. /\ Len(getters') = Len(getters) + 1 /\ Len(getters) \in Nat
          /\ getters'[Len(getters) + 1] = c
          /\ DOMAIN getters = 1 .. Len(getters)
          /\ DOMAIN getters' = 1 .. Len(getters) + 1
          /\ \A i \in 1 .. Len(getters) : getters'[i] = getters[i]
      BY <3>0, <2>1
    <3> SUFFICES ASSUME NEW d \in Consumers, task'[d] = "parked"
                 PROVE  \E i \in DOMAIN getters' : getters'[i] = d
      BY DEF Listed
    <3>2. CASE d = c
      BY <3>1, <3>2
    <3>3. CASE d # c
      <4>1. task[d] = "parked"
        BY <3>3, <2>1, <1>0 DEF TypeOK
      <4>2. PICK i \in DOMAIN getters : getters[i] = d
        BY <4>1, <1>0 DEF Listed
      <4>. QED  BY <4>2, <3>1
    <3>. QED  BY <3>2, <3>3
  <2>. QED  BY <2>1, <2>2, <2>3, <1>4
<1>6. ASSUME NEW c \in Consumers, ResumeRaisesClosed(c) \/ Cancel(c)
      PROVE  Struct'
  <2>1. NoTransfer /\ getters' = getters
        /\ \E st \in TaskStates \ {"parked"} : task' = [task EXCEPT ![c] = st]
    BY <1>6 DEF ResumeRaisesClosed, Cancel, TaskStates
  <2>2. task' \in [Consumers -> TaskStates] /\ Listed(getters', task')
    BY <2>1, <1>0 DEF TypeOK, Listed
  <2>. QED  BY <2>1, <2>2, <1>4, <1>0 DEF TypeOK
<1>7. ASSUME NEW c \in Consumers, ResumeAbandonsWait(c)
      PROVE  Struct'
  <2>1. /\ NoTransfer /\ getters' = Without(getters, c)
        /\ task' = [task EXCEPT ![c] = "idle"]
    BY <1>7 DEF ResumeAbandonsWait
  <2>2. task' \in [Consumers -> TaskStates]
    BY <2>1, <1>0 DEF TypeOK, TaskStates
  <2>3. \A d \in Consumers : task'[d] = "parked" => d # c /\ task[d] = "parked"
    BY <2>1, <1>0 DEF TypeOK
  <2>4. /\ Without(getters, c) \in Seq(Consumers)
        /\ \A d \in Consumers \ {c} :
             (\E i \in DOMAIN getters : getters[i] = d)
               => \E i \in DOMAIN Without(getters, c) : Without(getters, c)[i] = d
    BY <1>0, WithoutEffect DEF TypeOK
  <2>5. Listed(getters', task')
    BY <2>1, <2>3, <2>4, <1>0 DEF Listed
  <2>. QED  BY <2>1, <2>2, <2>4, <2>5, <1>4
<1>8. ASSUME NEW c \in Consumers, ResumeHandsOff(c)
      PROVE  Struct'
  <2> DEFINE t == [task EXCEPT ![c] = "idle"]
  <2>1. NoTransfer /\ (WakeNext(t) \/ (task' = t /\ getters' = getters))
    BY <1>8 DEF ResumeHandsOff
  <2>2. t \in [Consumers -> TaskStates] /\ Listed(getters, t)
    BY <1>0 DEF TypeOK, TaskStates, Listed
  <2> HIDE DEF t
  <2>3. /\ getters' \in Seq(Consumers) /\ task' \in [Consumers -> TaskStates]
        /\ Listed(getters', task')
    BY <2>1, <2>2, <1>0, WakeNextEffect DEF TypeOK
  <2>. QED  BY <2>1, <2>3, <1>4
<1>9. CASE Close
  BY <1>9, <1>0 DEF Close, counters, history, Struct, TypeOK, EntriesNumbered,
                    Numbered, Listed, TaskStates
<1>10. CASE Clear
  <2>1. IsFiniteSet({})
    BY FS_EmptySet
  <2>. QED
    BY <2>1, <1>10, <1>0, <1>c DEF Clear, history, Struct, TypeOK, EntriesNumbered,
                              Numbered, Listed
<1>11. CASE Drain
  <2>1. IsFiniteSet({})
    BY FS_EmptySet
  <2>2. lastServed' \in [Priorities -> Nat \cup {-1}]
    BY <1>11, <1>0, DrainServes DEF TypeOK
  <2>3. /\ items' = {} /\ dequeued' = dequeued + Size
        /\ UNCHANGED <<getters, task, closed, enqueued, dropped, rejected,
                       highWaterMark, offered, removed>>
    BY <1>11 DEF Drain
  <2>4. TypeOK'
    BY <2>1, <2>2, <2>3, <1>0, <1>c DEF TypeOK
  <2>. QED
    BY <2>3, <2>4, <1>0 DEF Struct, EntriesNumbered, Numbered, Listed
<1>12. CASE Sweep
  <2>1. PICK R \in SUBSET items : RemoveIf(R)
    BY <1>12 DEF Sweep
  <2>2. IsFiniteSet(items \ R) /\ Cardinality(R) \in Nat
    BY <1>0, FS_Subset, FS_CardinalityType DEF TypeOK
  <2>. QED
    BY <2>1, <2>2, <1>0 DEF RemoveIf, counters, Struct, TypeOK, EntriesNumbered,
                              Numbered, Listed
<1>13. CASE UNCHANGED vars
  BY <1>13, <1>0 DEF vars, counters, history, Struct, TypeOK, EntriesNumbered,
                     Numbered, Listed
<1>14. CASE GetNow
  BY <1>14, <1>3 DEF GetNow
<1>15. ASSUME NEW c \in Consumers, ResumeServed(c)  PROVE Struct'
  BY <1>15, <1>3 DEF ResumeServed
<1>16. ASSUME NEW c \in Consumers, GetRaisesClosed(c)  PROVE Struct'
  BY <1>16, <1>13 DEF GetRaisesClosed
<1>. QED
  BY <1>1, <1>2, <1>5, <1>6, <1>7, <1>8, <1>9, <1>10, <1>11, <1>12, <1>13, <1>14,
     <1>15, <1>16 DEF Next, Step, Put, Resume

\* Every reachable state is well typed: counters never go negative, a task is
\* in one of its five states, and _take and _discard_oldest always find an
\* entry of the store.
THEOREM TypeCorrect == Spec => []TypeOK
<1>1. Struct => TypeOK
  BY DEF Struct
<1>. QED  BY <1>1, StructInit, StructStep, PTL DEF Spec

\* The structural invariant holds in every reachable state.
LEMMA StructInvariant == Spec => []Struct
  BY StructInit, StructStep, PTL DEF Spec

-----------------------------------------------------------------------------
(* No lost wakeup.  Once Listed says that _wake_next finds every parked     *)
(* consumer, NoLostWakeup is inductive by counting: put adds one entry and  *)
(* one wakeup, a resumed consumer takes one of each, a handoff moves one.   *)

\* The woken consumers are finitely many.
LEMMA WokenFinite ==
    ASSUME NEW t
    PROVE  IsFiniteSet(Woken(t)) /\ Cardinality(Woken(t)) \in Nat
  BY ConsumersAssumption, FS_Subset, FS_CardinalityType DEF Woken

\* Waking a parked consumer adds one wakeup.
LEMMA WakeAddsOne ==
    ASSUME NEW t \in [Consumers -> TaskStates], NEW c \in Pending(t)
    PROVE  Cardinality(Woken([t EXCEPT ![c] = "woken"])) = Cardinality(Woken(t)) + 1
<1>1. c \in Consumers /\ t[c] = "parked"
  BY DEF Pending
<1>2. Woken([t EXCEPT ![c] = "woken"]) = Woken(t) \cup {c} /\ c \notin Woken(t)
  BY <1>1 DEF Woken
<1>. QED  BY <1>2, WokenFinite, FS_AddElement

\* A woken consumer that resumes uses its wakeup up.
LEMMA ResumeTakesOne ==
    ASSUME NEW t \in [Consumers -> TaskStates], NEW c \in Woken(t),
           NEW st \in {"idle", "parked"}
    PROVE  Cardinality(Woken([t EXCEPT ![c] = st])) = Cardinality(Woken(t)) - 1
<1>1. Woken([t EXCEPT ![c] = st]) = Woken(t) \ {c}
  BY DEF Woken
<1>. QED  BY <1>1, WokenFinite, FS_RemoveElement

\* What _wake_next does to the wakeups under way.
LEMMA WakeNextCounts ==
    ASSUME getters \in Seq(Consumers), NEW t \in [Consumers -> TaskStates],
           Listed(getters, t), WakeNext(t)
    PROVE  \/ Pending(task') = {}
           \/ /\ Pending(t) # {}
              /\ Cardinality(Woken(task')) = Cardinality(Woken(t)) + 1
<1>1. CASE Pending(t) = {} /\ task' = t
  BY <1>1
<1>2. CASE \E c \in Pending(t) : task' = [t EXCEPT ![c] = "woken"]
  BY <1>2, WakeAddsOne
<1>. QED  BY <1>1, <1>2, WakeNextEffect

\* Every step keeps a wakeup under way for every waiting entry.
LEMMA WakeupStep == Struct /\ NoLostWakeup /\ [Next]_vars => NoLostWakeup'
<1> SUFFICES ASSUME Struct, NoLostWakeup, [Next]_vars, Pending(task') # {}
             PROVE  Size' <= Cardinality(Woken(task'))
  BY DEF NoLostWakeup, Pending, Woken, Size
<1>0. /\ TypeOK /\ EntriesNumbered /\ Listed(getters, task)
      /\ getters \in Seq(Consumers) /\ task \in [Consumers -> TaskStates]
      /\ IsFiniteSet(items) /\ items \subseteq Entry
  BY DEF Struct, TypeOK
<1>n. /\ Size \in Nat /\ Cardinality(Woken(task)) \in Nat
      /\ Cardinality(Woken(task')) \in Nat
  BY <1>0, FS_CardinalityType, WokenFinite DEF Size
<1>1. ASSUME NEW p \in Priorities, PutAccepted(p)  PROVE Size' <= Cardinality(Woken(task'))
  <2>1. Stored(items \cup {NewEntry(p)})
    BY <1>1 DEF PutAccepted
  <2>2. Size' = Size + 1 /\ WakeNext(task)
    BY <2>1, StoredEffect DEF Size
  <2>3. Pending(task) # {} /\ Cardinality(Woken(task')) = Cardinality(Woken(task)) + 1
    BY <2>2, <1>0, WakeNextCounts
  <2>. QED  BY <2>2, <2>3, <1>n DEF NoLostWakeup
<1>2. ASSUME NEW p \in Priorities, PutDisplacesOldest(p)
      PROVE  Size' <= Cardinality(Woken(task'))
  <2> DEFINE S == items \ {OldestEntry(items)}
  <2>1. Stored(S \cup {NewEntry(p)})
    BY <1>2 DEF PutDisplacesOldest
  <2>2. Cardinality(S) \in Nat /\ Cardinality(S) <= Size
    BY <1>0, FS_Subset, FS_CardinalityType DEF Size
  <2>3. Size' = Cardinality(S) + 1 /\ WakeNext(task)
    BY <2>1, StoredEffect
  <2>4. Pending(task) # {} /\ Cardinality(Woken(task')) = Cardinality(Woken(task)) + 1
    BY <2>3, <1>0, WakeNextCounts
  <2>. QED  BY <2>2, <2>3, <2>4, <1>n DEF NoLostWakeup
<1>3. CASE UNCHANGED <<items, task>>
  BY <1>3, <1>n DEF NoLostWakeup, Size
<1>4. CASE GetNow
  <2>1. Size' = Size - 1 /\ task' = task
    BY <1>4, <1>0, PopEffect DEF GetNow
  <2>. QED  BY <2>1, <1>n DEF NoLostWakeup
<1>5. ASSUME NEW c \in Consumers, ResumeServed(c)  PROVE Size' <= Cardinality(Woken(task'))
  <2>1. Size' = Size - 1 /\ task' = [task EXCEPT ![c] = "idle"] /\ task[c] = "woken"
    BY <1>5, <1>0, PopEffect DEF ResumeServed
  <2>2. Pending(task') = Pending(task) /\ c \in Woken(task)
    BY <2>1, <1>0 DEF Pending, Woken
  <2>3. Cardinality(Woken(task')) = Cardinality(Woken(task)) - 1
    BY <2>1, <2>2, <1>0, ResumeTakesOne
  <2>4. Size' = Size - 1
    BY <2>1
  <2>5. Size <= Cardinality(Woken(task))
    BY <2>2 DEF NoLostWakeup
  <2>. QED  BY <2>3, <2>4, <2>5, <1>n
<1>6. CASE items = {} /\ items' = items
  <2>1. Size' = 0
    BY <1>6, FS_EmptySet DEF Size
  <2>. QED  BY <2>1, <1>n
<1>7. ASSUME NEW c \in Consumers, Cancel(c)  PROVE Size' <= Cardinality(Woken(task'))
  <2>1. items' = items /\ Pending(task') \subseteq Pending(task)
    BY <1>7, <1>0 DEF Cancel, NoTransfer, Pending
  <2>2. Woken(task') = Woken(task)
    BY <1>7, <1>0 DEF Cancel, Woken
  <2>. QED  BY <2>1, <2>2, <1>n DEF NoLostWakeup, Size
<1>8. ASSUME NEW c \in Consumers, ResumeAbandonsWait(c)
      PROVE  Size' <= Cardinality(Woken(task'))
  <2>1. items' = items /\ Pending(task') = Pending(task) /\ Woken(task') = Woken(task)
    BY <1>8, <1>0 DEF ResumeAbandonsWait, NoTransfer, Pending, Woken
  <2>. QED  BY <2>1, <1>n DEF NoLostWakeup, Size
<1>9. ASSUME NEW c \in Consumers, ResumeHandsOff(c), items # {}
      PROVE  Size' <= Cardinality(Woken(task'))
  <2> DEFINE t == [task EXCEPT ![c] = "idle"]
  <2>1. items' = items /\ WakeNext(t) /\ task[c] = "woken_cancelled"
    BY <1>9 DEF ResumeHandsOff, NoTransfer
  <2>2. t \in [Consumers -> TaskStates] /\ Listed(getters, t)
        /\ Pending(t) = Pending(task)
    BY <2>1, <1>0 DEF TaskStates, Listed, Pending
  <2>3. Cardinality(Woken(t)) = Cardinality(Woken(task)) - 1
    <3>1. c \in Woken(task)
      BY <2>1 DEF Woken
    <3>. QED  BY <3>1, <1>0, ResumeTakesOne
  <2> HIDE DEF t
  <2>4. Pending(t) # {} /\ Cardinality(Woken(task')) = Cardinality(Woken(t)) + 1
    BY <2>1, <2>2, <1>0, WakeNextCounts
  <2>. QED  BY <2>1, <2>2, <2>3, <2>4, <1>n DEF NoLostWakeup, Size
<1>10. CASE Close
  <2>1. Pending(task') = {}
    BY <1>10 DEF Close, Pending
  <2>. QED  BY <2>1
<1>11. CASE Clear \/ Drain
  <2>1. items' = {}
    BY <1>11 DEF Clear, Drain
  <2>2. Size' = 0
    BY <2>1, FS_EmptySet DEF Size
  <2>. QED  BY <2>2, <1>n
<1>12. CASE Sweep
  <2>1. PICK R \in SUBSET items : RemoveIf(R)
    BY <1>12 DEF Sweep
  <2>2. Size' <= Size /\ task' = task /\ Size' \in Nat
    BY <2>1, <1>0, FS_Subset, FS_CardinalityType DEF RemoveIf, Size
  <2>. QED  BY <2>2, <1>n DEF NoLostWakeup
<1>13. CASE PutDropsNewest \/ PutRejected
  BY <1>13, <1>3 DEF PutDropsNewest, PutRejected
<1>14. ASSUME NEW c \in Consumers,
              \/ GetParks(c) \/ GetRaisesClosed(c) \/ ResumeParksAgain(c)
              \/ ResumeRaisesClosed(c) \/ (ResumeHandsOff(c) /\ items = {})
       PROVE  Size' <= Cardinality(Woken(task'))
  BY <1>14, <1>6 DEF GetParks, GetRaisesClosed, ResumeParksAgain, ResumeRaisesClosed,
                     ResumeHandsOff, NoTransfer, vars
<1>15. CASE UNCHANGED vars
  BY <1>15, <1>3 DEF vars
<1>. QED
  BY <1>1, <1>2, <1>4, <1>5, <1>7, <1>8, <1>9, <1>10, <1>11, <1>12, <1>13, <1>14,
     <1>15 DEF Next, Step, Put, Resume

\* While a consumer is parked there is a wakeup under way for every stored
\* entry: no interleaving of put, get, cancellation, handoff and close leaves
\* an entry behind a sleeping consumer.
THEOREM WakeupNeverLost == Spec => []NoLostWakeup
<1>1. Init => NoLostWakeup
  BY FS_EmptySet, WokenFinite DEF Init, NoLostWakeup, Pending
<1>. QED  BY <1>1, StructInvariant, WakeupStep, PTL DEF Spec

-----------------------------------------------------------------------------
(* The books: conservation, bounds, order, and close.                       *)

\* What has been served in a band was submitted before what is still queued,
\* and before anything yet to be submitted.
ServedBehind == StableOrder /\ \A p \in Priorities : lastServed[p] < enqueued

Books == Conservation /\ Bounded /\ ServedBehind /\ ClosedParksNobody

\* The four bookkeeping invariants hold initially.
LEMMA BooksInit == Init => Books
<1> SUFFICES ASSUME Init  PROVE Books
  OBVIOUS
<1>1. Size = 0
  BY FS_EmptySet DEF Init, Size
<1>2. Conservation /\ Bounded
  BY <1>1, CapacityAssumption DEF Init, Conservation, Bounded
<1>. QED
  BY <1>2 DEF Init, Books, ServedBehind, StableOrder, ClosedParksNobody, Pending

\* Every step enters each item in exactly one of the counts.
LEMMA ConservationStep == Struct /\ Conservation /\ [Next]_vars => Conservation'
<1> SUFFICES ASSUME Struct, Conservation, [Next]_vars  PROVE Conservation'
  OBVIOUS
<1>0. TypeOK /\ EntriesNumbered /\ Size \in Nat
  BY FS_CardinalityType DEF Struct, TypeOK, Size
<1>n. /\ offered \in Nat /\ dequeued \in Nat /\ dropped \in Nat
      /\ rejected \in Nat /\ removed \in Nat
      /\ offered = dequeued + dropped + rejected + removed + Size
  BY <1>0 DEF TypeOK, Conservation
<1>1. ASSUME NEW p \in Priorities, PutAccepted(p)  PROVE Conservation'
  <2>1. Size' = Size + 1
    BY <1>1, StoredEffect DEF PutAccepted, Size
  <2>2. /\ offered' = offered + 1
        /\ UNCHANGED <<dequeued, dropped, rejected, removed>>
    BY <1>1 DEF PutAccepted, Offer, Stored
  <2>. QED  BY <2>1, <2>2, <1>n, <1>0 DEF Conservation
<1>2. ASSUME NEW p \in Priorities, PutDisplacesOldest(p)  PROVE Conservation'
  <2>0. items # {}
    BY <1>2, FS_EmptySet, CapacityAssumption DEF PutDisplacesOldest, Size
  <2>1. OldestEntry(items) \in items
    BY <1>0, <2>0, OldestEntryIsOldest DEF TypeOK
  <2>2. Cardinality(items \ {OldestEntry(items)}) = Size - 1
    BY <2>1, <1>0, FS_RemoveElement DEF TypeOK, Size
  <2>3. Stored((items \ {OldestEntry(items)}) \cup {NewEntry(p)})
    BY <1>2 DEF PutDisplacesOldest
  <2>4. Size' = Cardinality(items \ {OldestEntry(items)}) + 1
    BY <2>3, StoredEffect
  <2>5. /\ offered' = offered + 1 /\ dropped' = dropped + 1
        /\ UNCHANGED <<dequeued, rejected, removed>>
    BY <1>2 DEF PutDisplacesOldest, Offer, Stored
  <2>. QED  BY <2>2, <2>4, <2>5, <1>n, <1>0 DEF Conservation
<1>3. CASE PutDropsNewest \/ PutRejected
  <2>1. Size' = Size
    BY <1>3 DEF PutDropsNewest, PutRejected, Size
  <2>. QED  BY <2>1, <1>3, <1>n, <1>0
               DEF PutDropsNewest, PutRejected, Offer, Conservation
<1>4. CASE Pop
  <2>1. Size' = Size - 1
    BY <1>0, <1>4, PopEffect
  <2>2. dequeued' = dequeued + 1 /\ UNCHANGED <<offered, dropped, rejected, removed>>
    BY <1>4 DEF Pop
  <2>. QED  BY <2>1, <2>2, <1>n, <1>0 DEF Conservation
<1>5. CASE UNCHANGED <<items, counters, history>>
  BY <1>5, <1>n DEF counters, history, Conservation, Size
<1>6. CASE Clear
  <2>1. Size' = 0
    BY <1>6, FS_EmptySet DEF Clear, Size
  <2>. QED  BY <2>1, <1>6, <1>n, <1>0 DEF Clear, history, Conservation
<1>7. CASE Drain
  <2>1. Size' = 0
    BY <1>7, FS_EmptySet DEF Drain, Size
  <2>. QED  BY <2>1, <1>7, <1>n, <1>0 DEF Drain, Conservation
<1>8. CASE Sweep
  <2>1. PICK R \in SUBSET items : RemoveIf(R)
    BY <1>8 DEF Sweep
  <2>2. /\ IsFiniteSet(R) /\ Cardinality(R) \in Nat
        /\ Cardinality(items \ R) = Size - Cardinality(R)
    <3>1. IsFiniteSet(R) /\ items \cap R = R
      BY <1>0, FS_Subset DEF TypeOK
    <3>. QED  BY <3>1, <1>0, FS_Difference, FS_CardinalityType DEF TypeOK, Size
  <2>3. Size' = Size - Cardinality(R)
    BY <2>1, <2>2 DEF RemoveIf, Size
  <2>4. removed' = removed + Cardinality(R) /\ UNCHANGED <<offered, counters>>
    BY <2>1 DEF RemoveIf
  <2>. QED  BY <2>2, <2>3, <2>4, <1>n, <1>0 DEF counters, Conservation
<1>. QED
  BY <1>1, <1>2, <1>3, <1>4, <1>5, <1>6, <1>7, <1>8
     DEF Next, Step, Put, Resume, GetNow, GetParks, GetRaisesClosed, Cancel, ResumeServed,
         ResumeParksAgain, ResumeRaisesClosed, ResumeAbandonsWait, ResumeHandsOff,
         Close, NoTransfer, vars

\* Every step keeps depth, high-water mark and capacity in order.
LEMMA BoundedStep == Struct /\ Bounded /\ [Next]_vars => Bounded'
<1> SUFFICES ASSUME Struct, Bounded, [Next]_vars  PROVE Bounded'
  OBVIOUS
<1>0. /\ TypeOK /\ EntriesNumbered /\ Size \in Nat /\ highWaterMark \in Nat
      /\ Capacity \in Nat /\ Size <= highWaterMark /\ highWaterMark <= Capacity
  BY FS_CardinalityType, CapacityAssumption DEF Struct, TypeOK, Size, Bounded
<1>1. ASSUME NEW p \in Priorities, PutAccepted(p)  PROVE Bounded'
  <2>1. /\ Size' = Size + 1 /\ Size' <= highWaterMark'
        /\ highWaterMark' = highWaterMark \/ highWaterMark' = Size'
    BY <1>1, StoredEffect DEF PutAccepted, Size
  <2>2. Size < Capacity
    BY <1>1 DEF PutAccepted
  <2>. QED  BY <2>1, <2>2, <1>0 DEF Bounded
<1>2. ASSUME NEW p \in Priorities, PutDisplacesOldest(p)  PROVE Bounded'
  <2>0. items # {}
    BY <1>2, FS_EmptySet, CapacityAssumption DEF PutDisplacesOldest, Size
  <2>1. OldestEntry(items) \in items
    BY <1>0, <2>0, OldestEntryIsOldest DEF TypeOK
  <2>2. Cardinality(items \ {OldestEntry(items)}) = Size - 1
    BY <2>1, <1>0, FS_RemoveElement DEF TypeOK, Size
  <2>3. Stored((items \ {OldestEntry(items)}) \cup {NewEntry(p)})
    BY <1>2 DEF PutDisplacesOldest
  <2>4. /\ Size' = Cardinality(items \ {OldestEntry(items)}) + 1
        /\ Size' <= highWaterMark'
        /\ highWaterMark' = highWaterMark \/ highWaterMark' = Size'
    BY <2>3, StoredEffect
  <2>. QED  BY <2>2, <2>4, <1>0 DEF Bounded
<1>3. CASE items' \subseteq items /\ highWaterMark' = highWaterMark
  <2>1. Size' <= Size /\ Size' \in Nat
    BY <1>3, <1>0, FS_Subset, FS_CardinalityType DEF TypeOK, Size
  <2>. QED  BY <2>1, <1>3, <1>0 DEF Bounded
<1>4. CASE Sweep
  BY <1>3, <1>4 DEF Sweep, RemoveIf, counters
<1>. QED
  BY <1>1, <1>2, <1>3, <1>4
     DEF Next, Step, Put, Resume, PutDropsNewest, PutRejected, GetNow, Pop, GetParks,
         GetRaisesClosed, Cancel, ResumeServed, ResumeParksAgain, ResumeRaisesClosed,
         ResumeAbandonsWait, ResumeHandsOff, Close, Clear, Drain, NoTransfer,
         vars, counters

\* Every step serves an entry that precedes those left in its band.
LEMMA OrderStep == Struct /\ ServedBehind /\ [Next]_vars => ServedBehind'
<1> SUFFICES ASSUME Struct, ServedBehind, [Next]_vars  PROVE ServedBehind'
  OBVIOUS
<1>0. /\ TypeOK /\ EntriesNumbered /\ enqueued \in Nat
      /\ \A e \in items : e.seq \in Nat /\ e.pri \in Priorities /\ e.seq < enqueued
      /\ \A p \in Priorities : lastServed[p] \in Int /\ lastServed[p] < enqueued
      /\ \A e \in items : lastServed[e.pri] < e.seq
  <2>1. TypeOK /\ EntriesNumbered
    BY DEF Struct
  <2>2. \A e \in items : e.seq \in Nat /\ e.pri \in Priorities
    BY <2>1 DEF TypeOK, Entry
  <2>. QED  BY <2>1, <2>2 DEF TypeOK, EntriesNumbered, ServedBehind, StableOrder
<1>1. ASSUME NEW p \in Priorities, NEW S \in SUBSET items,
             Stored(S \cup {NewEntry(p)}), lastServed' = lastServed
      PROVE  ServedBehind'
  <2>1. /\ items' = S \cup {[seq |-> enqueued, pri |-> p]}
        /\ enqueued' = enqueued + 1
    BY <1>1 DEF Stored, NewEntry
  <2>2. \A e \in items' : lastServed'[e.pri] < e.seq
    BY <2>1, <1>0, <1>1
  <2>3. \A q \in Priorities : lastServed'[q] < enqueued'
    BY <2>1, <1>0, <1>1
  <2>. QED  BY <2>2, <2>3 DEF ServedBehind, StableOrder
<1>2. CASE items' \subseteq items /\ UNCHANGED <<lastServed, enqueued>>
  BY <1>2, <1>0 DEF ServedBehind, StableOrder
<1>3. CASE Pop
  <2> DEFINE e == NextEntry(items)
  <2>1. /\ e \in items /\ items' = items \ {e} /\ enqueued' = enqueued
        /\ \A f \in items' : Precedes(e, f)
        /\ lastServed' = [lastServed EXCEPT ![e.pri] = e.seq]
    BY <1>0, <1>3, PopEffect DEF Pop
  <2> HIDE DEF e
  <2>2. \A q \in Priorities : lastServed'[q] = IF q = e.pri THEN e.seq ELSE lastServed[q]
    BY <2>1, <1>0 DEF TypeOK
  <2>3. ASSUME NEW f \in items'  PROVE lastServed'[f.pri] < f.seq
    <3>1. f \in items /\ f.pri \in Priorities
      BY <2>1, <1>0
    <3>2. CASE f.pri = e.pri
      <4>1. e.seq < f.seq
        <5>1. Precedes(e, f)
          BY <2>1
        <5>2. ~ (e.pri < f.pri)
          <6>1. Priorities \subseteq Int
            BY PrioritiesAssumption
          <6>2. f.pri \in Int
            BY <3>1, <6>1
          <6>. QED  BY <6>2, <3>2
        <5>. QED  BY <5>1, <5>2 DEF Precedes
      <4>. QED  BY <4>1, <3>1, <3>2, <2>2
    <3>3. CASE f.pri # e.pri
      BY <3>1, <3>3, <2>2, <1>0
    <3>. QED  BY <3>2, <3>3
  <2>4. \A q \in Priorities : lastServed'[q] < enqueued'
    BY <2>1, <2>2, <1>0
  <2>. QED  BY <2>3, <2>4 DEF ServedBehind, StableOrder
<1>4. CASE Drain
  <2>1. items' = {} /\ enqueued' = enqueued
    BY <1>4 DEF Drain
  <2>2. \A p \in Priorities :
           \/ lastServed'[p] = lastServed[p]
           \/ \E e \in items : e.pri = p /\ e.seq = lastServed'[p]
    BY <1>4, <1>0, DrainServes
  <2>3. \A p \in Priorities : lastServed'[p] < enqueued'
    BY <2>1, <2>2, <1>0
  <2>. QED  BY <2>1, <2>3 DEF ServedBehind, StableOrder
<1>5. CASE Sweep
  BY <1>2, <1>5 DEF Sweep, RemoveIf, counters
<1>6. CASE Put
  <2>1. ASSUME NEW p \in Priorities, PutAccepted(p) \/ PutDisplacesOldest(p)
        PROVE  ServedBehind'
    BY <2>1, <1>1 DEF PutAccepted, PutDisplacesOldest, Offer
  <2>2. CASE PutDropsNewest \/ PutRejected
    BY <2>2, <1>2 DEF PutDropsNewest, PutRejected, Offer
  <2>. QED  BY <2>1, <2>2, <1>6 DEF Put
<1>. QED
  BY <1>2, <1>3, <1>4, <1>5, <1>6
     DEF Next, Step, Resume, GetNow, GetParks, GetRaisesClosed, Cancel, ResumeServed,
         ResumeParksAgain, ResumeRaisesClosed, ResumeAbandonsWait, ResumeHandsOff,
         Close, Clear, NoTransfer, vars, counters, history

\* No step parks a consumer on a closed queue.
LEMMA CloseStep == Struct /\ ClosedParksNobody /\ [Next]_vars => ClosedParksNobody'
<1> SUFFICES ASSUME Struct, ClosedParksNobody, [Next]_vars, closed'
             PROVE  Pending(task') = {} /\ getters' = <<>>
  BY DEF ClosedParksNobody, Pending
<1>0. /\ task \in [Consumers -> TaskStates] /\ getters \in Seq(Consumers)
  BY DEF Struct, TypeOK
<1>1. CASE Close
  BY <1>1 DEF Close, Pending
<1>2. CASE ~ Close
  <2>1. closed
    BY <1>2 DEF Next, Step, Put, PutDropsNewest, PutRejected, PutAccepted,
       PutDisplacesOldest, Offer, GetNow, Pop, GetParks, GetRaisesClosed, Cancel,
       Resume, ResumeServed, ResumeParksAgain, ResumeRaisesClosed,
       ResumeAbandonsWait, ResumeHandsOff, NoTransfer, Clear, Drain, Sweep,
       RemoveIf, vars
  <2>2. getters = <<>> /\ \A c \in Consumers : task[c] # "parked"
    BY <2>1 DEF ClosedParksNobody, Pending
  <2>3. \A t : PendingAt(t) = {}
    BY <2>2 DEF PendingAt
  <2>4. \A c \in Consumers : Without(getters, c) = <<>>
    BY <2>2 DEF Without
  <2>5. CASE UNCHANGED <<getters, task>>
    BY <2>2, <2>5 DEF Pending
  <2>6. ASSUME NEW c \in Consumers, Cancel(c) \/ Resume(c)
        PROVE  Pending(task') = {} /\ getters' = <<>>
    <3>1. getters' = <<>>
      BY <2>1, <2>2, <2>3, <2>4, <2>6
         DEF Cancel, Resume, ResumeServed, ResumeParksAgain, ResumeRaisesClosed,
             ResumeAbandonsWait, ResumeHandsOff, WakeNext
    <3>2. \E st \in TaskStates \ {"parked"} : task' = [task EXCEPT ![c] = st]
      BY <2>1, <2>3, <2>6
         DEF Cancel, Resume, ResumeServed, ResumeParksAgain, ResumeRaisesClosed,
             ResumeAbandonsWait, ResumeHandsOff, WakeNext, TaskStates
    <3>. QED  BY <3>1, <3>2, <2>2, <1>0 DEF Pending
  <2>. QED
    BY <1>2, <2>1, <2>5, <2>6
       DEF Next, Step, Put, PutDropsNewest, PutRejected, PutAccepted, PutDisplacesOldest,
           Offer, GetNow, GetParks, GetRaisesClosed, Clear, Drain, Sweep, RemoveIf, vars
<1>. QED  BY <1>1, <1>2

\* The four bookkeeping invariants hold in every reachable state.
LEMMA BooksInvariant == Spec => []Books
<1>1. Struct /\ Books /\ [Next]_vars => Books'
  BY ConservationStep, BoundedStep, OrderStep, CloseStep DEF Books
<1>. QED  BY <1>1, BooksInit, StructInvariant, PTL DEF Spec

\* Every item offered to the open queue is served, dropped, refused, swept or
\* still stored, exactly once.
THEOREM BooksBalance == Spec => []Conservation
<1>1. Books => Conservation
  BY DEF Books
<1>. QED  BY <1>1, BooksInvariant, PTL

\* The depth never exceeds the high-water mark, nor that the capacity.
THEOREM DepthBounded == Spec => []Bounded
<1>1. Books => Bounded
  BY DEF Books
<1>. QED  BY <1>1, BooksInvariant, PTL

\* Within a priority band entries are served in the order of submission.
THEOREM ServedInOrder == Spec => []StableOrder
<1>1. Books => StableOrder
  BY DEF Books, ServedBehind
<1>. QED  BY <1>1, BooksInvariant, PTL

\* A closed queue has no parked consumer, whatever raced with the close.
THEOREM CloseWakesAll == Spec => []ClosedParksNobody
<1>1. Books => ClosedParksNobody
  BY DEF Books
<1>. QED  BY <1>1, BooksInvariant, PTL

-----------------------------------------------------------------------------
(* Refinement of Channel: every step of the queue is a step of the channel  *)
(* or leaves the channel alone.                                             *)

\* Resolving waiters moves consumers from "parked" to "woken", which the
\* channel does not see.
LEMMA WakeNextInvisible ==
    ASSUME getters \in Seq(Consumers), NEW t \in [Consumers -> TaskStates],
           Listed(getters, t), WakeNext(t),
           Waiting = {c \in Consumers : t[c] \in {"parked", "woken"}}
    PROVE  Waiting' = Waiting
<1>1. CASE task' = t
  BY <1>1 DEF Waiting
<1>2. CASE \E c \in Pending(t) : task' = [t EXCEPT ![c] = "woken"]
  BY <1>2 DEF Waiting, Pending
<1>. QED  BY <1>1, <1>2, WakeNextEffect

\* Every step of the queue is a step of the channel, or invisible to it.
LEMMA ChannelStep ==
    Struct /\ Bounded /\ [Next]_vars => [Chan!ChanNext]_(Chan!chanVars)
<1> SUFFICES ASSUME Struct, Bounded, [Next]_vars
             PROVE  [Chan!ChanNext]_(Chan!chanVars)
  OBVIOUS
<1>0. /\ TypeOK /\ EntriesNumbered /\ Listed(getters, task)
      /\ getters \in Seq(Consumers) /\ task \in [Consumers -> TaskStates]
      /\ IsFiniteSet(items) /\ items \subseteq Entry
  BY DEF Struct, TypeOK
<1>s. Size \in Nat /\ Capacity \in Nat /\ Size <= Capacity
  BY <1>0, FS_CardinalityType, CapacityAssumption DEF Size, Bounded, TypeOK
<1>a. Chan!Cardinality(items) = Cardinality(items)
  BY DEF Chan!Cardinality, Cardinality, Chan!IsFiniteSet, IsFiniteSet
<1>1. ASSUME NEW p \in Priorities, PutAccepted(p) \/ PutDisplacesOldest(p)
      PROVE  Chan!Accept
  <2>1. PICK S \in SUBSET items : Stored(S \cup {NewEntry(p)})
    BY <1>1 DEF PutAccepted, PutDisplacesOldest
  <2>2. WakeNext(task) /\ enqueued' = enqueued + 1
    BY <2>1, StoredEffect
  <2>3. Waiting' = Waiting
    BY <2>2, <1>0, WakeNextInvisible DEF Waiting
  <2>4. ~closed /\ closed' = closed
    BY <1>1 DEF PutAccepted, PutDisplacesOldest, Offer
  <2>5. CASE PutAccepted(p)
    <3>1. /\ Cardinality(items) < Capacity
          /\ items' = items \cup {[seq |-> enqueued, pri |-> p]}
      BY <2>5 DEF PutAccepted, Stored, NewEntry, Size
    <3>. QED  BY <3>1, <2>2, <2>3, <2>4, <1>a DEF Chan!Accept
  <2>6. CASE PutDisplacesOldest(p)
    <3>1. /\ Cardinality(items) = Capacity /\ policy = "drop_oldest"
          /\ items' = (items \ {OldestEntry(items)})
                        \cup {[seq |-> enqueued, pri |-> p]}
      BY <2>6, <1>s DEF PutDisplacesOldest, Stored, NewEntry, Size
    <3>2. OldestEntry(items) = Chan!Eldest(items)
      BY DEF OldestEntry, Chan!Eldest
    <3>. QED  BY <3>1, <3>2, <2>2, <2>3, <2>4, <1>a DEF Chan!Accept
  <2>. QED  BY <1>1, <2>5, <2>6
<1>p. policy' = policy
  BY DEF Next, vars
<1>q. ASSUME Chan!ChanStep  PROVE [Chan!ChanNext]_(Chan!chanVars)
  BY <1>p, <1>q DEF Chan!ChanNext
<1>2. CASE UNCHANGED <<items, enqueued, closed>> /\ Waiting' = Waiting
  BY <1>2, <1>p DEF Chan!chanVars
<1>3. CASE PutDropsNewest \/ PutRejected
  BY <1>2, <1>3 DEF PutDropsNewest, PutRejected, Offer, Waiting
<1>4. ASSUME Pop  PROVE /\ items # {} /\ items' = items \ {Chan!First(items)}
                        /\ UNCHANGED <<enqueued, closed>>
  <2>1. NextEntry(items) = Chan!First(items)
    BY DEF NextEntry, Chan!First, Precedes, Chan!Before
  <2>. QED  BY <1>4, <2>1 DEF Pop
<1>5. CASE GetNow
  <2>1. Waiting' = Waiting
    BY <1>5 DEF GetNow, Waiting
  <2>. QED  BY <2>1, <1>4, <1>5, <1>q DEF GetNow, Chan!ChanStep, Chan!ServeCaller
<1>6. ASSUME NEW c \in Consumers, ResumeServed(c)  PROVE Chan!ServeWaiting(c)
  <2>1. c \in Waiting /\ Waiting' = Waiting \ {c}
    BY <1>6, <1>0 DEF ResumeServed, Waiting
  <2>. QED  BY <2>1, <1>4, <1>6 DEF ResumeServed, Chan!ServeWaiting
<1>7. ASSUME NEW c \in Consumers, GetParks(c)  PROVE Chan!Wait(c)
  <2>1. c \notin Waiting /\ Waiting' = Waiting \cup {c}
    BY <1>7, <1>0 DEF GetParks, Waiting
  <2>. QED  BY <2>1, <1>7 DEF GetParks, NoTransfer, counters, Chan!Wait
<1>8. ASSUME NEW c \in Consumers, ResumeRaisesClosed(c)  PROVE Chan!TurnAway(c)
  <2>1. c \in Waiting /\ Waiting' = Waiting \ {c}
    BY <1>8, <1>0 DEF ResumeRaisesClosed, Waiting
  <2>. QED  BY <2>1, <1>8
            DEF ResumeRaisesClosed, NoTransfer, counters, Chan!TurnAway, Chan!GiveUp
<1>9. ASSUME NEW c \in Consumers, Cancel(c)  PROVE Chan!GiveUp(c)
  <2>1. c \in Waiting /\ Waiting' = Waiting \ {c}
    BY <1>9, <1>0 DEF Cancel, Waiting
  <2>. QED  BY <2>1, <1>9 DEF Cancel, NoTransfer, counters, Chan!GiveUp
<1>10. ASSUME NEW c \in Consumers, ResumeParksAgain(c) \/ ResumeAbandonsWait(c)
       PROVE  UNCHANGED <<items, enqueued, closed>> /\ Waiting' = Waiting
  <2>1. Waiting' = Waiting
    BY <1>10, <1>0 DEF ResumeParksAgain, ResumeAbandonsWait, Waiting
  <2>. QED  BY <2>1, <1>10 DEF ResumeParksAgain, ResumeAbandonsWait, NoTransfer, counters
<1>11. ASSUME NEW c \in Consumers, ResumeHandsOff(c)
       PROVE  UNCHANGED <<items, enqueued, closed>> /\ Waiting' = Waiting
  <2> DEFINE t == [task EXCEPT ![c] = "idle"]
  <2>1. /\ task[c] = "woken_cancelled" /\ (WakeNext(t) \/ task' = t)
        /\ UNCHANGED <<items, enqueued, closed>>
    BY <1>11 DEF ResumeHandsOff, NoTransfer, counters
  <2>2. /\ t \in [Consumers -> TaskStates] /\ Listed(getters, t)
        /\ Waiting = {d \in Consumers : t[d] \in {"parked", "woken"}}
    BY <2>1, <1>0 DEF TaskStates, Listed, Waiting
  <2> HIDE DEF t
  <2>3. CASE WakeNext(t)
    BY <2>1, <2>2, <2>3, <1>0, WakeNextInvisible
  <2>4. CASE task' = t
    <3>1. Waiting' = {d \in Consumers : t[d] \in {"parked", "woken"}}
      BY <2>4 DEF Waiting
    <3>. QED  BY <3>1, <2>1, <2>2
  <2>. QED  BY <2>1, <2>3, <2>4
<1>12. CASE Close
  <2>1. Waiting' = Waiting
    BY <1>12, <1>0 DEF Close, Waiting
  <2>. QED  BY <2>1, <1>12, <1>q DEF Close, counters, Chan!ChanStep, Chan!Shut
<1>13. ASSUME NEW R \in SUBSET items, R # {}, items' = items \ R,
              UNCHANGED <<task, enqueued, closed>>
       PROVE  Chan!Discard
  BY <1>13 DEF Chan!Discard, Waiting
<1>14. CASE Clear \/ Drain
  <2>1. /\ items # {} /\ items' = items \ items
        /\ UNCHANGED <<task, enqueued, closed>>
    BY <1>14 DEF Clear, Drain
  <2>. QED  BY <2>1, <1>13, <1>q DEF Chan!ChanStep
<1>15. CASE Sweep
  <2>1. PICK R \in SUBSET items : R # {} /\ RemoveIf(R)
    BY <1>15 DEF Sweep
  <2>. QED  BY <2>1, <1>13, <1>q DEF RemoveIf, counters, Chan!ChanStep
<1>16. CASE UNCHANGED vars
  BY <1>2, <1>16 DEF vars, counters, Waiting
<1>17. ASSUME NEW c \in Consumers, GetRaisesClosed(c)
       PROVE  UNCHANGED vars
  BY <1>17 DEF GetRaisesClosed
<1>. QED
  BY <1>q, <1>1, <1>2, <1>3, <1>5, <1>6, <1>7, <1>8, <1>9, <1>10, <1>11, <1>12, <1>14,
     <1>15, <1>16, <1>17 DEF Next, Step, Put, Resume, Chan!ChanStep

\* The queue implements the safety part of the channel: whatever the
\* interleaving of futures, wakeups and cancellations, its users see entries
\* leave in order, wait only on an empty open channel and are turned away
\* only by a drained closed one.
THEOREM QueueImplementsChannel == Spec => Chan!ChanSafety
<1>1. Init => Chan!ChanInit
  BY DEF Init, Chan!ChanInit, Waiting
<1>2. Books => Bounded
  BY DEF Books
<1>. QED
  BY <1>1, <1>2, ChannelStep, StructInvariant, BooksInvariant, PTL
     DEF Spec, Chan!ChanSafety

=============================================================================
