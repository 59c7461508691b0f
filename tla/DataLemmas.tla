------------------------------ MODULE DataLemmas ------------------------------
(***************************************************************************)
(* Facts about finite sets, numbers and sequences that the proofs share:   *)
(* minimal elements, which give a CHOOSE something to choose, and what is  *)
(* left of a line when somebody leaves it.                                 *)
(***************************************************************************)
EXTENDS SequencesExt, FiniteSetTheorems, SequenceTheorems, WellFoundedInduction, TLAPS

\* A transitive, irreflexive relation R has a minimal element on every
\* nonempty finite set.
LEMMA FiniteMinimal ==
    ASSUME NEW S, IsFiniteSet(S), S # {}, NEW R,
           \A x \in S : <<x, x>> \notin R,
           \A x, y, z \in S : <<x, y>> \in R /\ <<y, z>> \in R => <<x, z>> \in R
    PROVE  \E x \in S : \A y \in S : <<y, x>> \notin R
<1> DEFINE Below(x) == {y \in S : <<y, x>> \in R}
           B == {Below(x) : x \in S}
<1>1. B \subseteq FiniteSubsetsOf(S) /\ B # {}
  <2>1. B \subseteq SUBSET S
    OBVIOUS
  <2>3. B # {}
    <3>1. PICK x \in S : TRUE
      OBVIOUS
    <3>2. Below(x) \in B
      BY <3>1
    <3>. QED  BY <3>2
  <2>2. FiniteSubsetsOf(S) = SUBSET S
    BY FS_FiniteSubsetsOfFinite, Zenon
  <2>. QED  BY <2>1, <2>2, <2>3, Zenon
<1>2. PICK b \in B : \A c \in B : <<c, b>> \notin StrictSubsetOrdering(S)
  BY <1>1, FS_StrictSubsetOrderingWellFounded, WFMin, Zenon
<1>3. PICK x \in S : b = Below(x)
  OBVIOUS
<1>4. ASSUME NEW y \in S, <<y, x>> \in R
      PROVE  FALSE
  <2>1. Below(y) \subseteq Below(x)
    BY <1>4
  <2>2. y \in Below(x) /\ y \notin Below(y)
    BY <1>4
  <2>3. Below(y) # Below(x)
    BY <2>2
  <2>4. <<Below(y), Below(x)>> \in StrictSubsetOrdering(S)
    BY <2>1, <2>3 DEF StrictSubsetOrdering
  <2>. QED  BY <1>2, <1>3, <2>4
<1>. QED  BY <1>4

\* The least number of a set.
LEMMA LeastNumber ==
    ASSUME NEW N \in SUBSET Nat, N # {}
    PROVE  \E n \in N : \A m \in N : n <= m
<1>1. PICK n \in N : \A m \in N : ~ (<<m, n>> \in OpToRel(<, Nat))
  BY WFMin, NatLessThanWellFounded
<1>2. \A m \in N : ~ (m < n)
  BY <1>1, Zenon DEF OpToRel
<1>. QED  BY <1>2

\* The greatest of a nonempty set of numbers up to n.
LEMMA GreatestNumber ==
    ASSUME NEW n \in Nat, NEW S \in SUBSET (0 .. n), S # {}
    PROVE  \E m \in S : \A k \in S : k <= m
<1> DEFINE L == {x \in 0 .. n : n - x \in S}
<1>1. L \in SUBSET Nat /\ L # {}
  <2>1. PICK k : k \in S /\ k \in 0 .. n
    OBVIOUS
  <2>2. n - k \in 0 .. n /\ n - (n - k) = k
    BY <2>1
  <2>3. n - k \in L
    BY <2>1, <2>2
  <2>. QED  BY <2>3
<1>2. PICK l \in L : \A k \in L : l <= k
  BY <1>1, LeastNumber
<1>3. n - l \in S /\ l \in 0 .. n
  OBVIOUS
<1>4. ASSUME NEW k \in S PROVE k <= n - l
  <2>1. n - k \in 0 .. n /\ n - (n - k) = k
    OBVIOUS
  <2>2. l <= n - k
    BY <1>2, <2>1
  <2>. QED  BY <1>3, <2>2
<1>. QED  BY <1>3, <1>4

\* RemoveFirst takes out one occurrence, the first, and closes the gap.
LEMMA RemoveFirstIs ==
    ASSUME NEW S, NEW q \in Seq(S), NEW e, \E i \in 1 .. Len(q) : q[i] = e
    PROVE  \E i \in 1 .. Len(q) :
              /\ q[i] = e /\ \A j \in 1 .. i - 1 : q[j] # e
              /\ RemoveFirst(q, e)
                    = [j \in 1 .. Len(q) - 1 |-> IF j < i THEN q[j] ELSE q[j + 1]]
<1> DEFINE I == {i \in 1 .. Len(q) : q[i] = e}
<1>1. PICK i \in I : \A j \in I : i <= j
  <2>1. I # {} /\ I \subseteq Nat
    OBVIOUS
  <2>. QED  BY <2>1, LeastNumber
<1>2. Min(I) = i
  BY <1>1 DEF Min
<1>3. RemoveFirst(q, e) = SubSeq(q, 1, i - 1) \o SubSeq(q, i + 1, Len(q))
  BY <1>2 DEF RemoveFirst, SelectInSeq, RemoveAt
<1>4. SubSeq(q, 1, i - 1) \o SubSeq(q, i + 1, Len(q))
         = [j \in 1 .. Len(q) - 1 |-> IF j < i THEN q[j] ELSE q[j + 1]]
  <2> DEFINE a == SubSeq(q, 1, i - 1)
             b == SubSeq(q, i + 1, Len(q))
  <2>1. /\ a \in Seq(S) /\ Len(a) = i - 1 /\ \A j \in 1 .. i - 1 : a[j] = q[j]
        /\ b \in Seq(S) /\ Len(b) = Len(q) - i
        /\ \A j \in 1 .. Len(q) - i : b[j] = q[i + j]
    BY <1>1
  <2> HIDE DEF a, b
  <2>2. /\ a \o b \in Seq(S) /\ Len(a \o b) = Len(q) - 1
        /\ \A j \in 1 .. Len(q) - 1 : (a \o b)[j] = IF j < i THEN q[j] ELSE q[j + 1]
    <3>1. /\ a \o b \in Seq(S) /\ Len(a \o b) = Len(a) + Len(b)
          /\ \A j \in 1 .. Len(a) + Len(b) :
                (a \o b)[j] = IF j <= Len(a) THEN a[j] ELSE b[j - Len(a)]
      BY <2>1, ConcatProperties
    <3>. QED  BY <1>1, <2>1, <3>1
  <2> DEFINE c == a \o b
  <2> HIDE DEF c
  <2>3. c = [j \in 1 .. Len(q) - 1 |-> IF j < i THEN q[j] ELSE q[j + 1]]
    <3>1. c \in [1 .. Len(q) - 1 -> S]
      <4>1. c \in Seq(S) /\ Len(c) = Len(q) - 1
        BY <2>2 DEF c
      <4>. QED  BY <4>1, LenProperties
    <3>2. \A j \in 1 .. Len(q) - 1 : c[j] = IF j < i THEN q[j] ELSE q[j + 1]
      BY <2>2 DEF c
    <3>. QED  BY <3>1, <3>2
  <2>. QED  BY <2>3 DEF a, b, c
<1>5. \A j \in 1 .. i - 1 : q[j] # e
  BY <1>1
<1>. QED  BY <1>1, <1>3, <1>4, <1>5

\* A line that e leaves, in which everybody stands once: the others keep their
\* order, and whoever is first stays first.
LEMMA LeaveLine ==
    ASSUME NEW S, NEW q \in Seq(S), NEW e,
           IsInjective(q),
           NEW r, r = RemoveFirst(q, e)
    PROVE  /\ r \in Seq(S)
           /\ ToSet(r) = ToSet(q) \ {e}
           /\ IsInjective(r)
           /\ q # <<>> /\ q[1] # e => r # <<>> /\ r[1] = q[1]
<1>h. \A i, j \in DOMAIN q : q[i] = q[j] => i = j
  BY DEF IsInjective
<1>1. CASE \A i \in 1 .. Len(q) : q[i] # e
  <2>1. r = q
    BY <1>1 DEF RemoveFirst
  <2>. QED  BY <1>1, <2>1 DEF ToSet
<1>2. CASE \E i \in 1 .. Len(q) : q[i] = e
  <2>0. PICK i \in 1 .. Len(q) :
              /\ q[i] = e /\ \A j \in 1 .. i - 1 : q[j] # e
              /\ RemoveFirst(q, e)
                    = [j \in 1 .. Len(q) - 1 |-> IF j < i THEN q[j] ELSE q[j + 1]]
    BY <1>2, RemoveFirstIs, Zenon
  <2>1. /\ i \in 1 .. Len(q) /\ q[i] = e
        /\ r = [j \in 1 .. Len(q) - 1 |-> IF j < i THEN q[j] ELSE q[j + 1]]
    BY <2>0, Zenon
  <2>2. r \in Seq(S) /\ Len(r) = Len(q) - 1 /\ DOMAIN r = 1 .. Len(q) - 1
    BY <2>1
  <2>3. \A k \in DOMAIN r : r[k] \in ToSet(q) \ {e}
    BY <1>h, <2>1 DEF ToSet
  <2>4. ASSUME NEW k \in 1 .. Len(q), k # i
        PROVE  \E j \in DOMAIN r : r[j] = q[k]
    <3>1. CASE k < i
      BY <2>1, <3>1
    <3>2. CASE k > i
      <4>1. k - 1 \in 1 .. Len(q) - 1 /\ ~ (k - 1 < i) /\ (k - 1) + 1 = k
        BY <3>2
      <4>. QED  BY <2>1, <4>1
    <3>. QED  BY <2>4, <3>1, <3>2
  <2>5. ToSet(r) = ToSet(q) \ {e}
    BY <2>1, <2>3, <2>4 DEF ToSet
  <2>6. IsInjective(r)
    BY <1>h, <2>1 DEF IsInjective
  <2>7. ASSUME q # <<>>, q[1] # e
        PROVE  r # <<>> /\ r[1] = q[1]
    <3>1. 1 < i /\ 1 \in 1 .. Len(q) - 1
      BY <2>1, <2>7
    <3>2. r[1] = q[1]
      BY <2>1, <3>1
    <3>3. r # <<>>
      BY <2>2, <3>1
    <3>. QED  BY <3>2, <3>3
  <2>. QED  BY <2>2, <2>5, <2>6, <2>7
<1>. QED  BY <1>1, <1>2

\* A line that somebody else joins.
LEMMA JoinLine ==
    ASSUME NEW S, NEW q \in Seq(S), NEW e \in S, e \notin ToSet(q),
           IsInjective(q),
           NEW r, r = Append(q, e)
    PROVE  /\ ToSet(r) = ToSet(q) \cup {e}
           /\ IsInjective(r)
           /\ r # <<>>
           /\ q # <<>> => r[1] = q[1]
<1>1. /\ DOMAIN r = 1 .. Len(q) + 1 /\ DOMAIN q = 1 .. Len(q)
      /\ r[Len(q) + 1] = e /\ \A i \in 1 .. Len(q) : r[i] = q[i]
  OBVIOUS
<1>2. \A i \in 1 .. Len(q) : q[i] # e
  BY <1>1 DEF ToSet
<1>3. ToSet(r) = ToSet(q) \cup {e}
  <2>1. 1 .. Len(q) + 1 = (1 .. Len(q)) \cup {Len(q) + 1}
    OBVIOUS
  <2>. QED  BY <1>1, <2>1 DEF ToSet
<1>4. IsInjective(r)
  <2>1. \A i, j \in DOMAIN q : q[i] = q[j] => i = j
    BY DEF IsInjective
  <2>. QED  BY <1>1, <1>2, <2>1 DEF IsInjective
<1>5. r # <<>> /\ (q # <<>> => r[1] = q[1])
  OBVIOUS
<1>. QED  BY <1>3, <1>4, <1>5

\* How many numbers there are up to n.
LEMMA PrefixCount ==
    ASSUME NEW M \in Nat, NEW n \in 0 .. M, NEW S \in SUBSET (1 .. M),
           \A i \in 1 .. M : i \in S <=> i <= n
    PROVE  Cardinality(S) = n
<1>1. S = 1 .. n
  <2>1. \A i : i \in 1 .. n <=> i \in 1 .. M /\ i <= n
    OBVIOUS
  <2>2. \A i : i \in S <=> i \in 1 .. n
    BY <2>1
  <2>. QED  BY <2>2, Zenon
<1>. QED  BY <1>1, FS_Interval

\* A product grows by a factor when the other one grows by one, and more.
LEMMA Factors ==
    ASSUME NEW p \in Nat \ {0}, NEW a \in Nat, NEW b \in Nat
    PROVE  /\ p * a \in Nat /\ p * (a + 1) = p * a + p
           /\ a <= b <=> p * a <= p * b
           /\ a < b <=> p * a + p <= p * b
<1>1. p * a \in Nat /\ p * b \in Nat /\ p * (a + 1) = p * a + p /\ p * (b + 1) = p * b + p
  OBVIOUS
<1>2. ASSUME NEW k \in Nat, NEW x \in Nat, NEW y \in Nat, y = x + k
      PROVE  p * y = p * x + p * k /\ p * k \in Nat
  BY <1>2
<1>3. a <= b => p * a <= p * b
  <2> HAVE a <= b
  <2>1. PICK k \in Nat : b = a + k
    <3>1. b - a \in Nat /\ b = a + (b - a)
      OBVIOUS
    <3>. QED  BY <3>1
  <2>2. p * b = p * a + p * k /\ p * k \in Nat
    BY <1>2, <2>1
  <2>. QED  BY <1>1, <2>2
<1>4. a < b => p * a + p <= p * b
  <2> HAVE a < b
  <2>1. PICK k \in Nat : b = (a + 1) + k
    <3>1. b - a - 1 \in Nat /\ b = (a + 1) + (b - a - 1)
      OBVIOUS
    <3>. QED  BY <3>1
  <2>2. p * b = p * (a + 1) + p * k /\ p * k \in Nat
    BY <1>2, <2>1
  <2>. QED  BY <1>1, <2>2
<1>5. b < a => p * b + p <= p * a
  <2> HAVE b < a
  <2>1. PICK k \in Nat : a = (b + 1) + k
    <3>1. a - b - 1 \in Nat /\ a = (b + 1) + (a - b - 1)
      OBVIOUS
    <3>. QED  BY <3>1
  <2>2. p * a = p * (b + 1) + p * k /\ p * k \in Nat
    BY <1>2, <2>1
  <2>. QED  BY <1>1, <2>2
<1>6. PICK pa \in Nat, pb \in Nat : pa = p * a /\ pb = p * b
  BY <1>1
<1>7. /\ a <= b => pa <= pb
      /\ a < b => pa + p <= pb
      /\ b < a => pb + p <= pa
      /\ b = a => pa = pb
  BY <1>3, <1>4, <1>5, <1>6
<1>8. (a <= b <=> pa <= pb) /\ (a < b <=> pa + p <= pb)
  BY <1>7
<1>. QED  BY <1>1, <1>6, <1>8

\* A quotient and a remainder are known by what they make up.
LEMMA Divided ==
    ASSUME NEW p \in Nat \ {0}, NEW q \in Nat, NEW r \in 0 .. p - 1, NEW n, n = p * q + r
    PROVE  n \div p = q /\ n % p = r
<1>0. n \in Nat
  BY Factors
<1>1. n \div p \in Nat /\ n % p \in 0 .. p - 1 /\ n = p * (n \div p) + (n % p)
  BY <1>0
<1>2. PICK d, m : d = n \div p /\ m = n % p
  OBVIOUS
<1>3. d \in Nat /\ m \in 0 .. p - 1 /\ p * d + m = p * q + r
  BY <1>1, <1>2
<1>4. /\ p * d \in Nat /\ p * q \in Nat
      /\ d < q => p * d + p <= p * q
      /\ q < d => p * q + p <= p * d
  BY <1>3, Factors
<1>5. ~ (d < q) /\ ~ (q < d)
  BY <1>3, <1>4
<1>6. d = q
  BY <1>3, <1>5
<1>. QED  BY <1>2, <1>3, <1>6

\* What makes up a number, by quotient and remainder.
LEMMA Division ==
    ASSUME NEW p \in Nat \ {0}, NEW n \in Nat
    PROVE  \E q \in Nat, r \in 0 .. p - 1 : n = p * q + r /\ n \div p = q /\ n % p = r
<1>1. n \div p \in Nat /\ n % p \in 0 .. p - 1 /\ n = p * (n \div p) + (n % p)
  OBVIOUS
<1>. QED  BY <1>1

\* A quotient is below a number if the dividend is below its multiple.
LEMMA QuotientBelow ==
    ASSUME NEW p \in Nat \ {0}, NEW n \in Nat, NEW t \in Nat
    PROVE  n \div p < t <=> n < p * t
<1>1. PICK q \in Nat, r \in 0 .. p - 1 : n = p * q + r /\ n \div p = q /\ n % p = r
  BY Division, Zenon
<1>2. PICK pq, pt \in Nat : pq = p * q /\ pt = p * t
  OBVIOUS
<1>3. (q < t <=> pq + p <= pt) /\ (t <= q <=> pt <= pq)
  BY <1>2, Factors
<1>4. n = pq + r
  BY <1>1, <1>2
<1>5. q < t <=> n < pt
  BY <1>3, <1>4
<1>. QED  BY <1>1, <1>2, <1>5
=============================================================================
