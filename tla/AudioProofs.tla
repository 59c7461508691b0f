------------------------------ MODULE AudioProofs ------------------------------
(***************************************************************************)
(* Proofs about audio, for rings, blocks, rates, payloads and frames of    *)
(* any size: the ring keeps the newest samples, and what comes in is the   *)
(* resampled signal of its stream, cut into full frames with their dates.  *)
(***************************************************************************)
EXTENDS AudioRing, InboundAudio, DataLemmas

-----------------------------------------------------------------------------
(* The ring buffer keeps the newest samples. *)

\* The cell i places after a cell, around the end where it must.
Around(c, i) == IF c + i < RingCapacity THEN c + i ELSE c + i - RingCapacity

\* The samples held are the last ones that were written, from head on.
RingInv ==
    /\ data \in [Cells -> Nat]
    /\ head \in Cells /\ size \in 0 .. RingCapacity
    /\ droppedSamples \in Nat /\ written \in Nat /\ consumed \in Nat
    /\ size = written - consumed - droppedSamples
    /\ \A i \in 0 .. size - 1 : data[Around(head, i)] = written - size + i + 1

\* A remainder that the ring needs is reached by one subtraction at most.
LEMMA Remainder ==
    ASSUME NEW n \in Nat \ {0}, NEW a \in 0 .. 2 * n - 1
    PROVE  a % n = IF a < n THEN a ELSE a - n
OBVIOUS

\* Stepping around the ring is the remainder, and stays among its cells.
LEMMA Wrapped ==
    ASSUME NEW c \in Cells, NEW i \in 0 .. RingCapacity
    PROVE  (c + i) % RingCapacity = Around(c, i) /\ Around(c, i) \in Cells
<1>1. PICK n : n = RingCapacity /\ n \in Nat \ {0}
  BY RingAssumption
<1>2. c + i \in 0 .. 2 * n - 1 /\ c \in 0 .. n - 1 /\ i \in 0 .. n
  <2>1. c \in 0 .. n - 1 /\ i \in 0 .. n
    BY <1>1 DEF Cells
  <2>. QED  BY <1>1, <2>1
<1>3. PICK a : a = c + i /\ a \in 0 .. 2 * n - 1
  BY <1>2
<1>4. a % n = IF a < n THEN a ELSE a - n
  BY <1>1, <1>3, Remainder
<1>5. Around(c, i) = IF a < n THEN a ELSE a - n
  BY <1>1, <1>2, <1>3 DEF Around
<1>6. Around(c, i) \in Cells
  BY <1>1, <1>3, <1>5 DEF Cells
<1>. QED  BY <1>1, <1>3, <1>4, <1>5, <1>6

\* What is copied from a cell on, in one slice or two.
LEMMA CopyIs ==
    ASSUME data \in [Cells -> Nat], NEW c \in Cells, NEW take \in 0 .. RingCapacity
    PROVE  Copy(c, take) = [k \in 1 .. take |-> data[Around(c, k - 1)]]
<1>1. PICK n : n = RingCapacity /\ n \in Nat \ {0}
  BY RingAssumption
<1>2. c \in 0 .. n - 1 /\ take \in 0 .. n /\ Cells = 0 .. n - 1
  BY <1>1 DEF Cells
<1>3. CASE take <= n - c
  <2>1. Lesser(take, RingCapacity - c) = take
    BY <1>1, <1>2, <1>3 DEF Lesser
  <2>2. Copy(c, take) = Slice(c, c + take)
    BY <2>1 DEF Copy
  <2>3. (c + take) - c = take
    BY <1>2
  <2>4. \A k \in 1 .. take : Around(c, k - 1) = c + k - 1
    BY <1>1, <1>2, <1>3 DEF Around
  <2>. QED  BY <2>2, <2>3, <2>4 DEF Slice
<1>4. CASE take > n - c
  <2> DEFINE a == Slice(c, n)
             b == Slice(0, take - (n - c))
  <2>1. Lesser(take, RingCapacity - c) = n - c /\ n - c # take
    BY <1>1, <1>2, <1>4 DEF Lesser
  <2>2. Copy(c, take) = a \o b
    BY <1>1, <2>1 DEF Copy
  <2>3. /\ a \in Seq(Nat) /\ Len(a) = n - c
        /\ \A k \in 1 .. n - c : a[k] = data[c + k - 1]
    <3>1. \A k \in 1 .. n - c : c + k - 1 \in Cells
      BY <1>1, <1>2
    <3>2. a = [k \in 1 .. n - c |-> data[c + k - 1]] /\ n - c \in Nat
      BY <1>1, <1>2 DEF Slice
    <3>. QED  BY <3>1, <3>2
  <2>4. /\ b \in Seq(Nat) /\ Len(b) = take - (n - c)
        /\ \A k \in 1 .. take - (n - c) : b[k] = data[k - 1]
    <3>1. \A k \in 1 .. take - (n - c) : 0 + k - 1 \in Cells /\ 0 + k - 1 = k - 1
      BY <1>1, <1>2
    <3>2. /\ b = [k \in 1 .. take - (n - c) |-> data[0 + k - 1]]
          /\ take - (n - c) \in Nat /\ take - (n - c) - 0 = take - (n - c)
      BY <1>1, <1>2, <1>4 DEF Slice
    <3>. QED  BY <3>1, <3>2
  <2> HIDE DEF a, b
  <2>5. /\ Len(a \o b) = take /\ a \o b \in Seq(Nat)
        /\ \A k \in 1 .. take : (a \o b)[k] = IF k <= n - c THEN a[k] ELSE b[k - (n - c)]
    <3>1. /\ Len(a \o b) = Len(a) + Len(b) /\ a \o b \in Seq(Nat)
          /\ \A k \in 1 .. Len(a) + Len(b) :
                (a \o b)[k] = IF k <= Len(a) THEN a[k] ELSE b[k - Len(a)]
      BY <2>3, <2>4, ConcatProperties
    <3>2. Len(a) + Len(b) = take
      BY <1>1, <1>2, <2>3, <2>4
    <3>. QED  BY <2>3, <3>1, <3>2
  <2>6. ASSUME NEW k \in 1 .. take
        PROVE  (a \o b)[k] = data[Around(c, k - 1)]
    <3>1. CASE k <= n - c
      <4>1. k \in 1 .. n - c /\ Around(c, k - 1) = c + k - 1
        BY <1>1, <1>2, <3>1 DEF Around
      <4>. QED  BY <2>3, <2>5, <3>1, <4>1
    <3>2. CASE k > n - c
      <4>1. k - (n - c) \in 1 .. take - (n - c) /\ Around(c, k - 1) = k - (n - c) - 1
        BY <1>1, <1>2, <3>2 DEF Around
      <4>2. ~ (k <= n - c)
        BY <1>1, <1>2, <3>2
      <4>. QED  BY <2>4, <2>5, <4>1, <4>2
    <3>3. k <= n - c \/ k > n - c
      BY <1>1, <1>2
    <3>. QED  BY <3>1, <3>2, <3>3
  <2> DEFINE s == a \o b
  <2>7. s \in Seq(Nat) /\ Len(s) = take /\ \A k \in 1 .. take : s[k] = data[Around(c, k - 1)]
    BY <2>5, <2>6
  <2> HIDE DEF s
  <2>8. s = [k \in 1 .. take |-> s[k]]
    BY <2>7
  <2>9. s = [k \in 1 .. take |-> data[Around(c, k - 1)]]
    BY <2>7, <2>8
  <2>. QED  BY <2>2, <2>9 DEF s
<1>. QED  BY <1>1, <1>2, <1>3, <1>4

\* A place further around.
LEMMA AroundTwice ==
    ASSUME NEW c \in Cells, NEW i \in 0 .. RingCapacity, NEW j \in 0 .. RingCapacity,
           i + j <= RingCapacity
    PROVE  Around(Around(c, i), j) = Around(c, i + j)
BY RingAssumption DEF Around, Cells

\* What peek() and tail() copy, of samples that are held.
LEMMA RingReads ==
    ASSUME RingInv, NEW count \in 0 .. RingCapacity
    PROVE  /\ TailCopy(count) = Newest(Lesser(count, size))
           /\ Peek(count) = SubSeq(Newest(size), 1, Lesser(count, size))
<1>1. PICK n : n = RingCapacity /\ n \in Nat \ {0}
  BY RingAssumption
<1>2. /\ data \in [Cells -> Nat] /\ head \in Cells /\ size \in 0 .. n
      /\ written \in Nat /\ size <= written
      /\ \A i \in 0 .. size - 1 : data[Around(head, i)] = written - size + i + 1
  BY <1>1 DEF RingInv
<1>3. PICK take : take = Lesser(count, size) /\ take \in 0 .. size /\ take \in 0 .. n
  BY <1>1, <1>2 DEF Lesser
<1>4. TailCopy(count) = Newest(take)
  <2>1. PICK back : back = size - take /\ back \in 0 .. n
    BY <1>1, <1>2, <1>3
  <2>2. PICK start : start = Around(head, back) /\ start \in Cells
    BY <1>1, <1>2, <2>1, Wrapped
  <2>3. (head + size - take) % RingCapacity = start
    <3>1. head + size - take = head + back
      BY <1>1, <1>2, <1>3, <2>1 DEF Cells
    <3>. QED  BY <1>1, <1>2, <2>1, <2>2, <3>1, Wrapped
  <2>4. TailCopy(count) = [k \in 1 .. take |-> data[Around(start, k - 1)]]
    BY <1>1, <1>2, <1>3, <2>2, <2>3, CopyIs DEF TailCopy
  <2>5. ASSUME NEW k \in 1 .. take
        PROVE  data[Around(start, k - 1)] = written - take + k
    <3>1. back + (k - 1) \in 0 .. size - 1 /\ k - 1 \in 0 .. n /\ back + (k - 1) <= n
      BY <1>1, <1>2, <1>3, <2>1
    <3>2. Around(start, k - 1) = Around(head, back + (k - 1))
      BY <1>1, <1>2, <2>1, <2>2, <3>1, AroundTwice
    <3>3. written - size + (back + (k - 1)) + 1 = written - take + k
      BY <1>2, <1>3, <2>1
    <3>. QED  BY <1>2, <3>1, <3>2, <3>3
  <2>. QED  BY <2>4, <2>5 DEF Newest
<1>5. Peek(count) = SubSeq(Newest(size), 1, take)
  <2>1. Peek(count) = [k \in 1 .. take |-> data[Around(head, k - 1)]]
    BY <1>1, <1>2, <1>3, CopyIs DEF Peek
  <2>2. \A k \in 1 .. take : data[Around(head, k - 1)] = written - size + k
    <3> TAKE k \in 1 .. take
    <3>1. k - 1 \in 0 .. size - 1 /\ written - size + (k - 1) + 1 = written - size + k
      BY <1>2, <1>3
    <3>. QED  BY <1>2, <3>1
  <2>3. SubSeq(Newest(size), 1, take) = [k \in 1 .. take |-> written - size + k]
    <3>1. PICK s : s = Newest(size) /\ s = [k \in 1 .. size |-> written - size + k]
      BY DEF Newest
    <3>2. s \in Seq(Int) /\ Len(s) = size /\ \A k \in 1 .. size : s[k] = written - size + k
      BY <1>2, <3>1
    <3>3. SubSeq(s, 1, take) = [k \in 1 .. take |-> s[k]]
      BY <1>1, <1>2, <1>3, <3>2
    <3>4. \A k \in 1 .. take : s[k] = written - size + k
      BY <1>2, <1>3, <3>2
    <3>. QED  BY <3>1, <3>3, <3>4
  <2>. QED  BY <2>1, <2>2, <2>3
<1>. QED  BY <1>3, <1>4, <1>5

\* Where the samples that a write leaves are.
LEMMA FittingKeeps ==
    ASSUME RingInv, NEW count \in Nat, WriteFitting(count),
           written' = written + count, UNCHANGED consumed
    PROVE  RingInv' /\ (droppedSamples' # droppedSamples => size' = RingCapacity)
<1>1. PICK n : n = RingCapacity /\ n \in Nat \ {0}
  BY RingAssumption
<1>2. /\ data \in [Cells -> Nat] /\ head \in 0 .. n - 1 /\ size \in 0 .. n /\ Cells = 0 .. n - 1
      /\ droppedSamples \in Nat /\ written \in Nat /\ consumed \in Nat
      /\ size = written - consumed - droppedSamples
      /\ \A i \in 0 .. size - 1 : data[Around(head, i)] = written - size + i + 1
  BY <1>1 DEF RingInv, Cells
<1>3. PICK evicted : evicted = IF count > n - size THEN count - (n - size) ELSE 0
  OBVIOUS
<1>4. count \in 0 .. n - 1 /\ evicted \in 0 .. size /\ size - evicted + count \in 0 .. n
  BY <1>1, <1>2, <1>3 DEF WriteFitting
<1>5. PICK start : start = Around(head, size) /\ start \in 0 .. n - 1
  BY <1>1, <1>2, Wrapped
<1>6. PICK first : first = Lesser(count, n - start)
  OBVIOUS
<1>7. first \in 0 .. count /\ first <= n - start /\ (first = count \/ first = n - start)
  BY <1>1, <1>4, <1>5, <1>6 DEF Lesser
<1>8. /\ (head + size) % n = start /\ (head + evicted) % n = Around(head, evicted)
      /\ Around(head, evicted) \in 0 .. n - 1
  <2>1. head \in Cells /\ size \in 0 .. n /\ evicted \in 0 .. n
    BY <1>1, <1>2, <1>4
  <2>. QED  BY <1>1, <1>2, <1>5, <2>1, Wrapped
<1>9. /\ head' = Around(head, evicted) /\ size' = size - evicted + count
      /\ droppedSamples' = droppedSamples + evicted
      /\ data' = [c \in Cells |->
                     IF c \in start .. start + first - 1 THEN written + (c - start) + 1
                     ELSE IF c < count - first THEN written + first + c + 1
                     ELSE data[c]]
  BY <1>1, <1>3, <1>6, <1>8 DEF WriteFitting
<1>10. data' \in [Cells -> Nat]
  <2>1. \A c \in Cells : c \in start .. start + first - 1 => written + (c - start) + 1 \in Nat
    BY <1>2, <1>5
  <2>2. \A c \in Cells : c < count - first => written + first + c + 1 \in Nat
    BY <1>2, <1>7
  <2>. QED  BY <1>2, <1>9, <2>1, <2>2
<1>11. ASSUME NEW i \in 0 .. size' - 1
       PROVE  data'[Around(head', i)] = written' - size' + i + 1
  <2>1. PICK j : j = evicted + i /\ j \in 0 .. size + count - 1 /\ i \in 0 .. n - 1
    <3>1. evicted + i \in 0 .. size + count - 1 /\ i \in 0 .. n - 1
      BY <1>1, <1>2, <1>4, <1>9
    <3>. QED  BY <3>1
  <2>2. written' - size' + i + 1 = written - size + j + 1
    BY <1>2, <1>4, <1>9, <2>1
  <2>3. PICK c : c = Around(head', i) /\ c \in Cells
    <3>1. head' \in Cells /\ i \in 0 .. n
      BY <1>1, <1>2, <1>8, <1>9, <2>1
    <3>2. Around(head', i) \in Cells
      BY <1>1, <3>1, Wrapped
    <3>. QED  BY <3>2
  <2>4. CASE j < size
    <3>1. c = Around(head, j)
      BY <1>1, <1>2, <1>4, <1>9, <2>1, <2>3, <2>4 DEF Around
    <3>2. c \notin start .. start + first - 1 /\ ~ (c < count - first)
      BY <1>1, <1>2, <1>3, <1>4, <1>5, <1>7, <1>9, <2>1, <2>4, <3>1 DEF Around
    <3>3. data'[c] = data[c]
      BY <1>9, <2>3, <3>2
    <3>4. data[c] = written - size + j + 1
      BY <1>2, <2>1, <2>4, <3>1
    <3>. QED  BY <2>2, <2>3, <3>3, <3>4
  <2>5. CASE j >= size
    <3>1. PICK d : d = j - size /\ d \in 0 .. count - 1
      BY <1>2, <1>4, <2>1, <2>5
    <3>2. c = Around(start, d)
      BY <1>1, <1>2, <1>3, <1>4, <1>5, <1>9, <2>1, <2>3, <3>1 DEF Around
    <3>3. CASE d < first
      <4>1. c = start + d /\ c \in start .. start + first - 1
        BY <1>1, <1>5, <1>7, <3>1, <3>2, <3>3 DEF Around
      <4>2. data'[c] = written + (c - start) + 1
        BY <1>9, <2>3, <4>1
      <4>3. written + (c - start) + 1 = written - size + j + 1
        <5>1. c - start = j - size /\ j \in Int
          BY <1>1, <1>5, <2>1, <3>1, <4>1
        <5>. QED  BY <1>2, <5>1
      <4>. QED  BY <2>2, <2>3, <4>2, <4>3
    <3>4. CASE d >= first
      <4>1. first = n - start /\ c = d - first
        BY <1>1, <1>5, <1>7, <3>1, <3>2, <3>4 DEF Around
      <4>2. c < start /\ c < count - first
        BY <1>1, <1>4, <1>5, <1>7, <3>1, <3>4, <4>1
      <4>3. data'[c] = written + first + c + 1
        <5>1. c \notin start .. start + first - 1
          BY <1>1, <1>2, <1>5, <2>3, <4>2
        <5>. QED  BY <1>9, <2>3, <4>2, <5>1
      <4>4. written + first + c + 1 = written - size + j + 1
        BY <1>1, <1>2, <1>4, <1>7, <2>1, <3>1, <4>1
      <4>. QED  BY <2>2, <2>3, <4>3, <4>4
    <3>5. d < first \/ d >= first
      BY <1>7, <3>1
    <3>. QED  BY <3>3, <3>4, <3>5
  <2>. QED  BY <1>2, <2>1, <2>4, <2>5
<1>12. size' = written' - consumed' - droppedSamples'
  BY <1>2, <1>4, <1>9
<1>13. /\ head' \in Cells /\ size' \in 0 .. RingCapacity
       /\ droppedSamples' \in Nat /\ written' \in Nat /\ consumed' \in Nat
  BY <1>1, <1>2, <1>4, <1>8, <1>9
<1>14. droppedSamples' # droppedSamples => size' = RingCapacity
  BY <1>1, <1>2, <1>3, <1>9
<1>15. \A i \in 0 .. size' - 1 : data'[Around(head', i)] = written' - size' + i + 1
  BY <1>11
<1>. QED  BY <1>10, <1>12, <1>13, <1>14, <1>15 DEF RingInv, Around

\* Every operation of the ring keeps the invariant.
LEMMA RingStep ==
    RingInv /\ [RingNext]_ringVars
        => RingInv' /\ (droppedSamples' # droppedSamples => size' = RingCapacity)
<1> SUFFICES ASSUME RingInv, [RingNext]_ringVars
             PROVE  RingInv' /\ (droppedSamples' # droppedSamples => size' = RingCapacity)
  OBVIOUS
<1>1. PICK n : n = RingCapacity /\ n \in Nat \ {0}
  BY RingAssumption
<1>2. /\ data \in [Cells -> Nat] /\ head \in 0 .. n - 1 /\ size \in 0 .. n /\ Cells = 0 .. n - 1
      /\ droppedSamples \in Nat /\ written \in Nat /\ consumed \in Nat
      /\ size = written - consumed - droppedSamples
      /\ \A i \in 0 .. size - 1 : data[Around(head, i)] = written - size + i + 1
  BY <1>1 DEF RingInv, Cells
<1>3. CASE UNCHANGED ringVars
  BY <1>3 DEF ringVars, RingInv, Around
<1>4. ASSUME NEW count \in 1 .. MaxBlock, Write(count)
      PROVE  RingInv' /\ (droppedSamples' # droppedSamples => size' = RingCapacity)
  <2>1. count \in Nat /\ written' = written + count /\ UNCHANGED consumed
    BY <1>4, RingAssumption DEF Write
  <2>2. CASE WriteFitting(count)
    BY <2>1, <2>2, FittingKeeps
  <2>3. CASE WriteOverrun(count)
    <3>1. /\ count >= n /\ droppedSamples' = droppedSamples + (size + (count - n))
          /\ data' = [c \in Cells |-> written + count - n + c + 1]
          /\ head' = 0 /\ size' = n
      BY <1>1, <2>3 DEF WriteOverrun
    <3>2. \A c \in Cells : written + count - n + c + 1 \in Nat
      BY <1>1, <1>2, <2>1, <3>1
    <3>3. data' \in [Cells -> Nat]
      BY <3>1, <3>2
    <3>4. ASSUME NEW i \in 0 .. n - 1
          PROVE  data'[Around(head', i)] = written' - size' + i + 1
      <4>1. Around(head', i) = i /\ i \in Cells
        BY <1>1, <1>2, <3>1 DEF Around
      <4>2. written + count - n + i + 1 = written' - size' + i + 1
        BY <1>1, <1>2, <2>1, <3>1
      <4>. QED  BY <3>1, <4>1, <4>2
    <3>5. size' = written' - consumed' - droppedSamples' /\ droppedSamples' \in Nat
      BY <1>1, <1>2, <2>1, <3>1
    <3>6. head' \in Cells /\ size' \in 0 .. RingCapacity /\ written' \in Nat /\ consumed' \in Nat
      BY <1>1, <1>2, <2>1, <3>1
    <3>7. \A i \in 0 .. size' - 1 : data'[Around(head', i)] = written' - size' + i + 1
      BY <3>1, <3>4
    <3>. QED  BY <1>1, <3>1, <3>3, <3>5, <3>6, <3>7 DEF RingInv, Around
  <2>. QED  BY <1>4, <2>2, <2>3 DEF Write
<1>5. ASSUME NEW count \in 1 .. RingCapacity, Drop(count)
      PROVE  RingInv' /\ (droppedSamples' # droppedSamples => size' = RingCapacity)
  <2>1. PICK take : take = Lesser(count, size) /\ take \in 0 .. size
    BY <1>1, <1>2 DEF Lesser
  <2>0. /\ n \in Nat /\ size \in 0 .. n /\ take \in 0 .. size /\ written \in Nat
        /\ consumed \in Nat /\ droppedSamples \in Nat
        /\ size = written - consumed - droppedSamples
    BY <1>1, <1>2, <2>1
  <2>2. /\ head' = (head + take) % RingCapacity /\ size' = size - take
        /\ consumed' = consumed + take /\ UNCHANGED <<data, droppedSamples, written>>
    BY <1>5, <2>1 DEF Drop
  <2>3. head \in Cells /\ take \in 0 .. RingCapacity
    BY <1>1, <1>2, <2>1
  <2>4. head' = Around(head, take) /\ head' \in Cells
    BY <2>2, <2>3, Wrapped
  <2>5. ASSUME NEW i \in 0 .. size' - 1
        PROVE  data'[Around(head', i)] = written' - size' + i + 1
    <3>1. /\ take + i \in 0 .. size - 1 /\ i \in 0 .. RingCapacity /\ take + i <= RingCapacity
          /\ written - size + (take + i) + 1 = written' - size' + i + 1
      <4>1. size' = size - take /\ written' = written /\ n = RingCapacity
        BY <1>1, <2>2
      <4>. QED  BY <2>0, <4>1
    <3>2. Around(head', i) = Around(head, take + i)
      BY <2>3, <2>4, <3>1, AroundTwice
    <3>. QED  BY <1>2, <2>2, <3>1, <3>2
  <2>6. /\ size' = written' - consumed' - droppedSamples' /\ size' \in 0 .. RingCapacity
        /\ consumed' \in Nat
    <3>1. size' = size - take /\ written' = written /\ consumed' = consumed + take
          /\ droppedSamples' = droppedSamples /\ n = RingCapacity
      BY <1>1, <2>2
    <3>. QED  BY <2>0, <3>1
  <2>. QED  BY <1>2, <2>2, <2>4, <2>5, <2>6 DEF RingInv, Around
<1>6. ASSUME Clear
      PROVE  RingInv' /\ (droppedSamples' # droppedSamples => size' = RingCapacity)
  <2>1. /\ head' = 0 /\ size' = 0 /\ consumed' = consumed + size
        /\ UNCHANGED <<data, droppedSamples, written>>
    BY <1>6 DEF Clear
  <2>2. /\ head' \in Cells /\ size' \in 0 .. RingCapacity /\ consumed' \in Nat
        /\ size' = written' - consumed' - droppedSamples'
    BY <1>1, <1>2, <2>1
  <2>3. \A i \in 0 .. size' - 1 : FALSE
    BY <2>1
  <2>. QED  BY <1>2, <2>1, <2>2, <2>3 DEF RingInv
<1>. QED  BY <1>3, <1>4, <1>5, <1>6 DEF RingNext

\* An empty ring.
LEMMA InitRing == RingInit => RingInv
<1> SUFFICES ASSUME RingInit PROVE RingInv
  OBVIOUS
<1>1. 0 \in Cells
  BY RingAssumption DEF Cells
<1>2. \A i \in 0 .. size - 1 : FALSE
  BY DEF RingInit
<1>. QED  BY <1>1, <1>2, RingAssumption DEF RingInit, RingInv

\* See RingKeepsNewest: whatever is written, read, dropped and cleared, in
\* blocks of any size, and wherever the ring wraps around.
THEOREM RingExact == RingSpec => RingKeepsNewest
<1> DEFINE Reads == /\ size = written - consumed - droppedSamples
                    /\ \A count \in 0 .. RingCapacity :
                          /\ TailCopy(count) = Newest(Lesser(count, size))
                          /\ Peek(count) = SubSeq(Newest(size), 1, Lesser(count, size))
<1>1. RingInv => Reads
  BY RingReads DEF RingInv
<1>2. RingInv /\ [RingNext]_ringVars
        => RingInv' /\ [droppedSamples' # droppedSamples => size' = RingCapacity]_ringVars
  BY RingStep
<1>. QED  BY InitRing, <1>1, <1>2, PTL DEF RingSpec, RingKeepsNewest

-----------------------------------------------------------------------------
(* The resampler answers with the outputs its input allows. *)

\* The input sample an output is centred at.
Centre(s, m) == (m * Down(s)) \div Up(s)

\* The c outputs after the first m.
Stretch(s, m, c) == [k \in 1 .. c |-> Sample(s, m + k - 1)]

\* m outputs are what n input samples allow, no more and no fewer.
Exhausted(s, n, m) == /\ Centre(s, m) + HalfTaps(s) >= n
                      /\ m > 0 => Centre(s, m - 1) + HalfTaps(s) < n

\* A buffer holds the last samples before position n.
EndsAt(b, n) == b \in Seq(Int) /\ \A k \in 1 .. Len(b) : b[k] = n - Len(b) + k - 1

\* A resampler that was fed n samples and gave m.
Fed(s, r, n, m) ==
    /\ n \in Nat /\ m \in Nat /\ Exhausted(s, n, m)
    /\ IF Passthrough(s) THEN r = FreshResampler(s) /\ m = n
       ELSE /\ r = [buffer |-> r.buffer, origin |-> HalfTaps(s), frac |-> r.frac]
            /\ EndsAt(r.buffer, n) /\ r.frac \in 0 .. Up(s) - 1
            /\ m * Down(s) = Up(s) * (n - Len(r.buffer) + HalfTaps(s)) + r.frac

\* What process() answers after m outputs, with n samples fed in all.
Continued(s, res, n, m) ==
    \E q \in Nat : Fed(s, res.state, n, m + q) /\ res.out = Stretch(s, m, q)

\* The CHOOSE of Gcd has a greatest divisor to choose.
LEMMA GcdIs ==
    ASSUME NEW a \in Nat \ {0}, NEW b \in Nat \ {0}
    PROVE  /\ Gcd(a, b) \in 1 .. a /\ a % Gcd(a, b) = 0 /\ b % Gcd(a, b) = 0
           /\ a = b => Gcd(a, b) = a
<1> DEFINE S == {d \in 1 .. a : a % d = 0 /\ b % d = 0}
<1>1. 1 \in S /\ S \in SUBSET (0 .. a)
  <2>1. a % 1 = 0 /\ b % 1 = 0
    OBVIOUS
  <2>. QED  BY <2>1
<1>2. PICK d \in S : \A k \in S : k <= d
  BY <1>1, GreatestNumber
<1>3. \A e \in d + 1 .. a : e \in 1 .. a /\ ~ (e <= d)
  BY <1>2
<1>4. d \in 1 .. a /\ a % d = 0 /\ b % d = 0
      /\ \A e \in d + 1 .. a : ~ (a % e = 0 /\ b % e = 0)
  BY <1>2, <1>3
<1>5. /\ Gcd(a, b) \in 1 .. a /\ a % Gcd(a, b) = 0 /\ b % Gcd(a, b) = 0
      /\ \A e \in Gcd(a, b) + 1 .. a : ~ (a % e = 0 /\ b % e = 0)
  BY <1>4, Zenon DEF Gcd
<1>6. ASSUME a = b PROVE Gcd(a, b) = a
  <2>1. PICK g : g = Gcd(a, b) /\ g \in 1 .. a
    BY <1>5
  <2>2. a % a = 0
    OBVIOUS
  <2>3. a \notin g + 1 .. a
    BY <1>5, <1>6, <2>1, <2>2
  <2>. QED  BY <2>1, <2>3
<1>. QED  BY <1>5, <1>6

\* What the rates of a stream are to each other, and how far its filter reaches.
LEMMA Rates ==
    ASSUME NEW s \in Streams
    PROVE  /\ s.src \in Nat \ {0} /\ s.dst \in Nat \ {0}
           /\ Up(s) \in Nat \ {0} /\ Down(s) \in Nat \ {0} /\ HalfTaps(s) \in Nat
           /\ \E g \in Nat \ {0} : s.dst = Up(s) * g /\ s.src = Down(s) * g
           /\ Passthrough(s) => Up(s) = 1 /\ Down(s) = 1 /\ HalfTaps(s) = 0
           /\ ~Passthrough(s) => /\ Down(s) <= Up(s) * HalfTaps(s)
                                 /\ s.src <= s.dst * HalfTaps(s)
<1>1. PICK a, b : a = s.src /\ b = s.dst /\ a \in Nat \ {0} /\ b \in Nat \ {0}
  BY AudioAssumption
<1>2. PICK g : /\ g = Gcd(a, b) /\ g \in Nat \ {0} /\ a % g = 0 /\ b % g = 0 /\ (a = b => g = a)
  <2>1. \A g \in 1 .. a : g \in Nat \ {0}
    BY <1>1
  <2>. QED  BY <1>1, <2>1, GcdIs
<1>3. PICK up, down : /\ up = Up(s) /\ down = Down(s) /\ up \in Nat /\ down \in Nat
                      /\ b = g * up /\ a = g * down
  <2>0. a \in Nat /\ b \in Nat
    BY <1>1
  <2>1. PICK up \in Nat, r \in 0 .. g - 1 :
             b = g * up + r /\ b \div g = up /\ b % g = r
    BY <1>2, <2>0, Division, Zenon
  <2>2. PICK down \in Nat, left \in 0 .. g - 1 :
             a = g * down + left /\ a \div g = down /\ a % g = left
    BY <1>2, <2>0, Division, Zenon
  <2>3. b = g * up /\ a = g * down
    BY <1>2, <2>1, <2>2
  <2>. QED  BY <1>1, <1>2, <2>1, <2>2, <2>3 DEF Up, Down
<1>4. up # 0 /\ down # 0 /\ up * g = b /\ down * g = a
  BY <1>1, <1>2, <1>3
<1>5. PICK h : h = HalfLen /\ h \in Nat \ {0}
  BY AudioAssumption
<1>6. CASE Passthrough(s)
  <2>1. a = b /\ HalfTaps(s) = 0
    BY <1>1, <1>6 DEF Passthrough, HalfTaps
  <2>2. g * up = g * 1 /\ g * down = g * 1
    BY <1>1, <1>2, <1>3, <2>1
  <2>3. up = 1 /\ down = 1
    <3>1. \A x, y \in Nat : x <= y <=> g * x <= g * y
      BY <1>2, Factors
    <3>2. g * 1 \in Nat
      BY <1>2
    <3>3. up <= 1 /\ 1 <= up /\ down <= 1 /\ 1 <= down
      BY <1>3, <2>2, <3>1, <3>2
    <3>. QED  BY <1>3, <3>3
  <2>. QED  BY <1>1, <1>2, <1>3, <1>4, <1>6, <2>1, <2>3
<1>7. CASE ~Passthrough(s)
  <2>1. PICK taps : taps = HalfTaps(s) /\ taps \in Nat \ {0} /\ a <= b * taps
    <3>1. CASE a > b
      <4>1. PICK n : n = h * a + b - 1 /\ n \in Nat /\ h * a >= a /\ h * a \in Nat
        <5>1. a * h \in Nat /\ a * 1 <= a * h /\ a * h = h * a /\ a * 1 = a
          BY <1>1, <1>5, Factors
        <5>. QED  BY <1>1, <5>1
      <4>2. PICK q \in Nat, r \in 0 .. b - 1 :
                 n = b * q + r /\ n \div b = q /\ n % b = r
        BY <1>1, <4>1, Division, Zenon
      <4>3. b * q \in Nat /\ b * q >= a
        <5>1. PICK y, ha : y = b * q /\ y \in Nat /\ ha = h * a /\ ha \in Nat /\ ha >= a
          BY <1>1, <4>1, <4>2, Factors
        <5>2. ha + b - 1 = y + r
          BY <4>1, <4>2, <5>1
        <5>3. r \in 0 .. b - 1
          BY <4>2
        <5>4. y >= a
          BY <1>1, <5>1, <5>2, <5>3
        <5>. QED  BY <5>1, <5>4
      <4>4. q # 0
        BY <1>1, <4>3
      <4>5. HalfTaps(s) = q
        BY <1>1, <1>5, <1>7, <3>1, <4>1, <4>2 DEF HalfTaps, Passthrough
      <4>. QED  BY <4>2, <4>3, <4>4, <4>5
    <3>2. CASE ~ (a > b)
      <4>1. HalfTaps(s) = h
        BY <1>1, <1>5, <1>7, <3>2 DEF HalfTaps, Passthrough
      <4>2. b * 1 <= b * h /\ b * 1 = b /\ b * h \in Nat
        BY <1>1, <1>5, Factors
      <4>. QED  BY <1>1, <1>5, <3>2, <4>1, <4>2
    <3>. QED  BY <3>1, <3>2
  <2>2. down <= up * taps
    <3>1. PICK ut : ut = up * taps /\ ut \in Nat
      BY <1>3, <2>1
    <3>2. b * taps = g * ut
      BY <1>2, <1>3, <2>1, <3>1
    <3>3. down <= ut <=> g * down <= g * ut
      BY <1>2, <1>3, <3>1, Factors
    <3>. QED  BY <1>3, <2>1, <3>1, <3>2, <3>3
  <2>. QED  BY <1>1, <1>2, <1>3, <1>4, <1>7, <2>1, <2>2
<1>. QED  BY <1>6, <1>7

\* Where an output is centred, and how far past that sample.
LEMMA CentreIs ==
    ASSUME NEW s \in Streams, NEW m \in Nat
    PROVE  /\ Centre(s, m) \in Nat /\ (m * Down(s)) % Up(s) \in 0 .. Up(s) - 1
           /\ m * Down(s) = Up(s) * Centre(s, m) + ((m * Down(s)) % Up(s))
<1>1. Up(s) \in Nat \ {0} /\ Down(s) \in Nat \ {0}
  BY Rates
<1>2. PICK n : n = m * Down(s) /\ n \in Nat
  BY <1>1
<1>3. PICK q \in Nat, r \in 0 .. Up(s) - 1 :
           n = Up(s) * q + r /\ n \div Up(s) = q /\ n % Up(s) = r
  BY <1>1, <1>2, Division, Zenon
<1>. QED  BY <1>2, <1>3 DEF Centre

\* The outputs that a number of samples allows are one number.
LEMMA ExhaustedOnce ==
    ASSUME NEW s \in Streams, NEW n \in Nat, NEW i \in Nat, NEW j \in Nat,
           Exhausted(s, n, i), Exhausted(s, n, j)
    PROVE  i = j
<1>1. Up(s) \in Nat \ {0} /\ Down(s) \in Nat \ {0} /\ HalfTaps(s) \in Nat
  BY Rates
<1>2. ASSUME NEW x \in Nat, NEW y \in Nat, x < y PROVE Centre(s, x) <= Centre(s, y - 1)
  <2>1. PICK z : z = y - 1 /\ z \in Nat /\ x <= z
    BY <1>2
  <2>2. Down(s) * x <= Down(s) * z /\ Down(s) * x = x * Down(s) /\ Down(s) * z = z * Down(s)
    BY <1>1, <2>1, Factors
  <2>3. PICK u, cx, cz, fx, fz, dx, dz :
          /\ u = Up(s) /\ u \in Nat \ {0}
          /\ cx = Centre(s, x) /\ cx \in Nat /\ fx \in 0 .. u - 1 /\ dx = x * Down(s) /\ dx = u * cx + fx
          /\ cz = Centre(s, z) /\ cz \in Nat /\ fz \in 0 .. u - 1 /\ dz = z * Down(s) /\ dz = u * cz + fz
    <3>1. /\ Centre(s, x) \in Nat /\ (x * Down(s)) % Up(s) \in 0 .. Up(s) - 1
          /\ x * Down(s) = Up(s) * Centre(s, x) + ((x * Down(s)) % Up(s))
      BY CentreIs
    <3>2. /\ Centre(s, z) \in Nat /\ (z * Down(s)) % Up(s) \in 0 .. Up(s) - 1
          /\ z * Down(s) = Up(s) * Centre(s, z) + ((z * Down(s)) % Up(s))
      BY <2>1, CentreIs
    <3>. QED  BY <1>1, <3>1, <3>2, Zenon
  <2>4. cz < cx => u * cz + u <= u * cx
    BY <2>3, Factors
  <2>5. u * cz \in Nat /\ u * cx \in Nat
    BY <2>3
  <2>6. dx <= dz
    BY <2>2, <2>3
  <2>7. ~ (cz < cx)
    <3>1. PICK px, pz : px = u * cx /\ pz = u * cz /\ px \in Nat /\ pz \in Nat
      BY <2>5
    <3>2. /\ u \in Nat \ {0} /\ fx \in 0 .. u - 1 /\ fz \in 0 .. u - 1
          /\ dx = px + fx /\ dz = pz + fz
      BY <2>3, <3>1
    <3>3. cz < cx => pz + u <= px
      BY <2>4, <3>1
    <3>. QED  BY <2>6, <3>1, <3>2, <3>3
  <2>. QED  BY <2>1, <2>3, <2>7
<1>3. ASSUME NEW x \in Nat, NEW y \in Nat, x < y, Exhausted(s, n, x), Exhausted(s, n, y) PROVE FALSE
  <2>1. y > 0 /\ y - 1 \in Nat
    BY <1>3
  <2>2. Centre(s, x) \in Nat /\ Centre(s, y - 1) \in Nat
    BY <1>3, <2>1, CentreIs
  <2>3. Centre(s, x) + HalfTaps(s) >= n /\ Centre(s, y - 1) + HalfTaps(s) < n
    BY <1>3, <2>1 DEF Exhausted
  <2>. QED  BY <1>1, <1>2, <1>3, <2>2, <2>3
<1>. QED  BY <1>3

\* How many outputs are ready: those whose kernel ends inside the buffer.
LEMMA ReadyIs ==
    ASSUME NEW u \in Nat \ {0}, NEW d \in Nat \ {0}, NEW f \in 0 .. u - 1, NEW room \in Nat \ {0},
           NEW k \in Nat
    PROVE  /\ (u * room - 1 - f) \div d + 1 \in Nat \ {0}
           /\ k < (u * room - 1 - f) \div d + 1 <=> f + k * d < u * room
<1> DEFINE q == (u * room - 1 - f) \div d + 1
<1> HIDE DEF q
<1>1. PICK ur : ur = u * room /\ ur \in Nat /\ ur >= u
  <2>1. u * 1 <= u * room /\ u * 1 = u /\ u * room \in Nat
    BY Factors
  <2>. QED  BY <2>1
<1>2. PICK n : n = ur - 1 - f /\ n \in Nat
  BY <1>1
<1>3. q = n \div d + 1 /\ n \div d \in Nat
  <2>1. q = n \div d + 1
    BY <1>1, <1>2 DEF q
  <2>2. PICK x \in Nat, r \in 0 .. d - 1 : n = d * x + r /\ n \div d = x /\ n % d = r
    BY <1>2, Division, Zenon
  <2>. QED  BY <2>1, <2>2
<1>4. k < q <=> f + k * d < u * room
  <2>1. PICK dk : dk = d * k /\ dk = k * d /\ dk \in Nat
    OBVIOUS
  <2>2. n \div d < k <=> n < dk
    BY <1>2, <2>1, QuotientBelow
  <2>3. k < q <=> ~ (n \div d < k)
    BY <1>3
  <2>4. f + dk < ur <=> ~ (n < dk)
    BY <1>1, <1>2, <2>1
  <2>. QED  BY <1>1, <2>1, <2>2, <2>3, <2>4
<1>. QED  BY <1>3, <1>4 DEF q

\* Where the outputs of a block are centred, from where the last one was.
LEMMA CentreFrom ==
    ASSUME NEW s \in Streams, NEW m \in Nat, NEW from \in Int, NEW f \in 0 .. Up(s) - 1,
           m * Down(s) = Up(s) * from + f, NEW j \in Nat
    PROVE  /\ (f + j * Down(s)) \div Up(s) \in Nat /\ (f + j * Down(s)) % Up(s) \in 0 .. Up(s) - 1
           /\ f + j * Down(s) = Up(s) * ((f + j * Down(s)) \div Up(s)) + ((f + j * Down(s)) % Up(s))
           /\ Centre(s, m + j) = from + (f + j * Down(s)) \div Up(s)
           /\ from + (f + j * Down(s)) \div Up(s) \in Nat
           /\ ((m + j) * Down(s)) % Up(s) = (f + j * Down(s)) % Up(s)
           /\ (m + j) * Down(s) = Up(s) * (from + (f + j * Down(s)) \div Up(s))
                                  + ((f + j * Down(s)) % Up(s))
<1> DEFINE u == Up(s)
           d == Down(s)
           e == (f + j * d) \div u
           g == (f + j * d) % u
<1>0. f \in 0 .. u - 1 /\ m * d = u * from + f
  OBVIOUS
<1>1. u \in Nat \ {0} /\ d \in Nat \ {0}
  BY Rates
<1> HIDE DEF u, d
<1>2. PICK n : n = f + j * d /\ n \in Nat
  BY <1>0, <1>1
<1>3. e \in Nat /\ g \in 0 .. u - 1 /\ n = u * e + g
  <2>1. PICK x \in Nat, y \in 0 .. u - 1 : n = u * x + y /\ n \div u = x /\ n % u = y
    BY <1>1, <1>2, Division, Zenon
  <2>. QED  BY <1>2, <2>1
<1> HIDE DEF e, g
<1>9. n \div u = e /\ n % u = g
  BY <1>2 DEF e, g
<1>4. PICK c \in Int : c = from + e
  BY <1>3
<1>5. PICK all : all = (m + j) * d /\ all \in Nat /\ all = u * c + g
  <2>1. (m + j) * d = m * d + j * d /\ (m + j) * d \in Nat
    BY <1>1
  <2>2. u * c = u * from + u * e
    BY <1>1, <1>3, <1>4
  <2>a. u * e \in Int /\ u * from \in Int /\ u * c \in Int /\ m * d \in Int /\ j * d \in Int
    BY <1>1, <1>3
  <2>3. PICK md \in Int, jd \in Int, uf \in Int, ue \in Int, uc \in Int :
           md = m * d /\ jd = j * d /\ uf = u * from /\ ue = u * e /\ uc = u * c
    BY <2>a, Zenon
  <2>b. f + j * d = u * e + g
    BY <1>2, <1>3
  <2>4. md = uf + f /\ f + jd = ue + g /\ uc = uf + ue
    BY <1>0, <2>b, <2>2, <2>3
  <2>c. f \in Int /\ g \in Int
    BY <1>0, <1>1, <1>3
  <2>5. md + jd = uc + g
    BY <2>c, <2>3, <2>4
  <2>. QED  BY <2>1, <2>3, <2>5
<1>6. c \in Nat
  <2> SUFFICES ASSUME c < 0 PROVE FALSE
    OBVIOUS
  <2>1. PICK z : z = 0 - c - 1 /\ z \in Nat
    OBVIOUS
  <2>2. u * c = 0 - u * z - u /\ u * z \in Nat
    BY <1>1, <2>1
  <2>. QED  BY <1>1, <1>3, <1>5, <2>2
<1>7. all \div u = c /\ all % u = g
  BY <1>1, <1>3, <1>5, <1>6, Divided
<1>8. Centre(s, m + j) = ((m + j) * d) \div u
  BY DEF Centre, d, u
<1>10. /\ e \in Nat /\ g \in 0 .. u - 1 /\ f + j * d = u * e + g
       /\ Centre(s, m + j) = from + e /\ from + e \in Nat
       /\ ((m + j) * d) % u = g /\ (m + j) * d = u * (from + e) + g
  <2>1. ((m + j) * d) \div u = c /\ ((m + j) * d) % u = g /\ (m + j) * d = u * c + g
    BY <1>5, <1>7
  <2>. QED  BY <1>2, <1>3, <1>4, <1>6, <1>8, <2>1
<1>. QED  BY <1>10 DEF e, g, u, d

\* A fresh resampler was fed nothing.
LEMMA FedFresh ==
    ASSUME NEW s \in Streams
    PROVE  Fed(s, FreshResampler(s), 0, 0)
<1>1. /\ Up(s) \in Nat \ {0} /\ Down(s) \in Nat \ {0} /\ HalfTaps(s) \in Nat
  BY Rates
<1>2. Exhausted(s, 0, 0)
  BY <1>1, CentreIs DEF Exhausted
<1>3. PICK h, r : h = HalfTaps(s) /\ h \in Nat /\ r = FreshResampler(s)
  BY <1>1
<1>4. r = [buffer |-> [k \in 1 .. h |-> k - h - 1], origin |-> h, frac |-> 0]
  BY <1>3 DEF FreshResampler
<1>5. /\ r = [buffer |-> r.buffer, origin |-> h, frac |-> r.frac] /\ r.frac = 0
      /\ r.buffer = [k \in 1 .. h |-> k - h - 1] /\ r.buffer \in Seq(Int) /\ Len(r.buffer) = h
  BY <1>3, <1>4
<1>6. EndsAt(r.buffer, 0)
  BY <1>3, <1>5 DEF EndsAt
<1>7. 0 * Down(s) = Up(s) * (0 - Len(r.buffer) + h) + r.frac
  <2>1. 0 - Len(r.buffer) + h = 0
    BY <1>3, <1>5
  <2>2. 0 * Down(s) = 0 /\ Up(s) * 0 + 0 = 0
    BY <1>1
  <2>. QED  BY <1>5, <2>1, <2>2, Zenon
<1>8. r.frac \in 0 .. Up(s) - 1
  BY <1>1, <1>5
<1>. QED  BY <1>2, <1>3, <1>5, <1>6, <1>7, <1>8 DEF Fed

\* The buffer with a block behind it ends where the longer input does.
LEMMA JoinBlock ==
    ASSUME NEW b, NEW n \in Nat, NEW c \in Nat, EndsAt(b, n),
           NEW t, t = b \o Block(n, c)
    PROVE  EndsAt(t, n + c) /\ Len(t) = Len(b) + c /\ Len(b) \in Nat
<1>1. PICK x : x = Block(n, c) /\ x = [k \in 1 .. c |-> n + k - 1]
  BY DEF Block
<1>2. x \in Seq(Int) /\ Len(x) = c
  BY <1>1
<1>3. b \in Seq(Int) /\ t \in Seq(Int) /\ Len(t) = Len(b) + c
  BY <1>1, <1>2 DEF EndsAt
<1>4. PICK l : l = Len(b) /\ l \in Nat /\ \A k \in 1 .. l : b[k] = n - l + k - 1
  <2>1. Len(b) \in Nat
    BY DEF EndsAt
  <2>. QED  BY <2>1, Zenon DEF EndsAt
<1>5. ASSUME NEW k \in 1 .. l + c PROVE t[k] = n - l + k - 1
  <2>1. CASE k <= l
    <3>1. t[k] = b[k]
      BY <1>1, <1>2, <1>3, <1>4, <1>5, <2>1
    <3>2. k \in 1 .. l
      BY <1>4, <1>5, <2>1
    <3>. QED  BY <1>4, <3>1, <3>2, Zenon
  <2>2. CASE k > l
    <3>1. t[k] = x[k - l]
      BY <1>1, <1>2, <1>3, <1>4, <1>5, <2>2
    <3>2. k - l \in 1 .. c /\ n + (k - l) - 1 = n - l + k - 1
      BY <1>4, <1>5, <2>2
    <3>3. x[k - l] = n + (k - l) - 1
      BY <1>1, <3>2
    <3>. QED  BY <3>1, <3>2, <3>3
  <2>3. k <= l \/ k > l
    BY <1>4, <1>5
  <2>. QED  BY <2>1, <2>2, <2>3, Zenon
<1>6. Len(t) = l + c
  BY <1>3, <1>4
<1>7. ASSUME NEW k \in 1 .. Len(t) PROVE t[k] = (n + c) - Len(t) + k - 1
  <2>1. k \in 1 .. l + c
    BY <1>6, <1>7
  <2>2. n - l + k - 1 = (n + c) - Len(t) + k - 1
    BY <1>4, <1>6, <2>1
  <2>. QED  BY <1>5, <2>1, <2>2, Zenon
<1>. QED  BY <1>3, <1>4, <1>7, Zenon DEF EndsAt

\* Without a change of rate every sample is its own output.
LEMMA SameRate ==
    ASSUME NEW s \in Streams, Passthrough(s), NEW x \in Nat
    PROVE  Centre(s, x) = x /\ Sample(s, x) = <<x, x, 0>>
<1>1. Up(s) = 1 /\ Down(s) = 1 /\ HalfTaps(s) = 0
  BY Rates
<1>2. x * 1 = x /\ x \div 1 = x /\ x % 1 = 0
  <2>1. x = 1 * x + 0
    OBVIOUS
  <2>. QED  BY <2>1, Divided
<1>3. PhaseIndex(s, 0) = 0
  BY <1>1, AudioAssumption DEF PhaseIndex
<1>4. Centre(s, x) = x
  BY <1>1, <1>2 DEF Centre
<1>. QED  BY <1>1, <1>2, <1>3, <1>4 DEF Sample

\* One block through a resampler that changes nothing.
LEMMA PassBlock ==
    ASSUME NEW s \in Streams, Passthrough(s), NEW r, NEW n, NEW m, Fed(s, r, n, m), NEW c \in Nat
    PROVE  /\ Fed(s, Process(s, r, Block(n, c)).state, n + c, m + c)
           /\ Process(s, r, Block(n, c)).out = Stretch(s, m, c)
<1> DEFINE res == Process(s, r, Block(n, c))
<1> HIDE DEF res
<1>1. n \in Nat /\ m = n /\ r = FreshResampler(s) /\ HalfTaps(s) = 0
  BY Rates DEF Fed
<1>2. PICK x : x = Block(n, c) /\ x = [k \in 1 .. c |-> n + k - 1]
  BY DEF Block
<1>3. res = [state |-> r, out |-> [k \in DOMAIN x |-> <<x[k], x[k], 0>>]]
  BY <1>2 DEF Process, res
<1>4. \A k \in 1 .. c : Sample(s, n + k - 1) = <<n + k - 1, n + k - 1, 0>>
  <2> TAKE k \in 1 .. c
  <2>1. n + k - 1 \in Nat
    BY <1>1
  <2>. QED  BY <2>1, SameRate
<1>5. res.out = [k \in 1 .. c |-> Sample(s, m + k - 1)]
  <2>1. DOMAIN x = 1 .. c /\ \A k \in 1 .. c : x[k] = n + k - 1
    BY <1>2
  <2>2. \A k \in DOMAIN x : <<x[k], x[k], 0>> = Sample(s, m + k - 1)
    BY <1>1, <1>4, <2>1, Zenon
  <2>3. res.out = [k \in DOMAIN x |-> <<x[k], x[k], 0>>]
    BY <1>3
  <2>4. [k \in DOMAIN x |-> <<x[k], x[k], 0>>] = [k \in 1 .. c |-> Sample(s, m + k - 1)]
    BY <2>1, <2>2, Zenon
  <2>. QED  BY <2>3, <2>4
<1>6. Exhausted(s, n + c, n + c)
  <2>1. PICK z : z = n + c /\ z \in Nat
    BY <1>1
  <2>2. Centre(s, z) = z
    BY <2>1, SameRate
  <2>3. z > 0 => Centre(s, z - 1) = z - 1
    BY <2>1, SameRate
  <2>. QED  BY <1>1, <2>1, <2>2, <2>3 DEF Exhausted
<1>7. res.state = FreshResampler(s)
  BY <1>1, <1>3
<1>. QED  BY <1>1, <1>5, <1>6, <1>7 DEF Fed, res, Stretch

\* One block through the filter: its outputs are the next of the stream, and as
\* many as the input allows.
LEMMA FilterBlock ==
    ASSUME NEW s \in Streams, ~Passthrough(s), NEW r, NEW n, NEW m, Fed(s, r, n, m),
           NEW c \in Nat
    PROVE  Continued(s, Process(s, r, Block(n, c)), n + c, m)
<1> DEFINE res == Process(s, r, Block(n, c))
           u == Up(s)
           d == Down(s)
           h == HalfTaps(s)
           f == r.frac
           t == r.buffer \o Block(n, c)
           l == Len(t)
           base == (n + c) - l
           from == base + h
           q == Ready(s, r, t)
           room == l - h - h
<1> HIDE DEF res, u, d, h, f, t, l, base, from, q, room
<1>1. u \in Nat \ {0} /\ d \in Nat \ {0} /\ h \in Nat /\ d <= u * h
  BY Rates DEF u, d, h
<1>2. /\ r = [buffer |-> r.buffer, origin |-> h, frac |-> f]
      /\ f \in 0 .. u - 1 /\ EndsAt(r.buffer, n)
      /\ m * d = u * (n - Len(r.buffer) + h) + f
  BY DEF Fed, u, d, h, f
<1>3. n \in Nat /\ m \in Nat /\ Exhausted(s, n, m)
  BY DEF Fed
<1>4. EndsAt(t, n + c) /\ l = Len(r.buffer) + c /\ Len(r.buffer) \in Nat
  BY <1>2, <1>3, JoinBlock DEF t, l
<1>5. /\ l \in Nat /\ base \in Int /\ from \in Int /\ base = n - Len(r.buffer)
      /\ base = (n + c) - l /\ from = base + h /\ room = l - h - h
  BY <1>1, <1>3, <1>4 DEF base, from, room
<1>6. \A k \in 1 .. l : t[k] = base + k - 1
  BY <1>4, Zenon DEF EndsAt, base, l
<1>7. m * d = u * from + f
  <2>1. from = n - Len(r.buffer) + h
    BY <1>5
  <2>. QED  BY <1>2, <2>1, Zenon
<1>a. /\ l \in Nat /\ n \in Nat /\ m \in Nat /\ h \in Nat /\ base \in Int /\ from \in Int
      /\ base = (n + c) - l /\ from = base + h /\ room = l - h - h
      /\ u \in Nat /\ d \in Nat /\ f \in Nat /\ f \in 0 .. u - 1
  BY <1>1, <1>2, <1>3, <1>5
<1>8. ASSUME NEW j \in Nat
      PROVE  /\ (f + j * d) \div u \in Nat /\ (f + j * d) % u \in 0 .. u - 1
             /\ f + j * d = u * ((f + j * d) \div u) + ((f + j * d) % u)
             /\ Centre(s, m + j) = from + (f + j * d) \div u
             /\ from + (f + j * d) \div u \in Nat
             /\ ((m + j) * d) % u = (f + j * d) % u
             /\ (m + j) * d = u * (from + (f + j * d) \div u) + ((f + j * d) % u)
  <2>1. /\ m \in Nat /\ from \in Int /\ f \in 0 .. Up(s) - 1
        /\ m * Down(s) = Up(s) * from + f
    BY <1>a, <1>7 DEF u, d
  <2>2. /\ (f + j * Down(s)) \div Up(s) \in Nat /\ (f + j * Down(s)) % Up(s) \in 0 .. Up(s) - 1
        /\ f + j * Down(s) = Up(s) * ((f + j * Down(s)) \div Up(s)) + ((f + j * Down(s)) % Up(s))
        /\ Centre(s, m + j) = from + (f + j * Down(s)) \div Up(s)
        /\ from + (f + j * Down(s)) \div Up(s) \in Nat
        /\ ((m + j) * Down(s)) % Up(s) = (f + j * Down(s)) % Up(s)
        /\ (m + j) * Down(s) = Up(s) * (from + (f + j * Down(s)) \div Up(s))
                               + ((f + j * Down(s)) % Up(s))
    BY <1>8, <2>1, CentreFrom, ZenonT(30)
  <2>. QED  BY <2>2, Zenon DEF u, d
<1>9. q = IF l - 1 - h - h < 0 THEN 0 ELSE (u * (l - 1 - h - h + 1) - 1 - f) \div d + 1
  <2>1. r.origin = h
    BY <1>2
  <2>. QED  BY <2>1 DEF Ready, q, u, d, h, f, l
<1>10. res = IF q = 0 THEN [state |-> [r EXCEPT !.buffer = t], out |-> <<>>]
             ELSE [state |-> Advance(s, r, t, q), out |-> Outputs(s, r, t, q)]
  BY Zenon DEF Process, res, t, q
<1>11. CASE l - 1 - h - h < 0
  <2>1. q = 0 /\ res.out = <<>> /\ res.state = [buffer |-> t, origin |-> h, frac |-> f]
    BY <1>2, <1>9, <1>10, <1>11
  <2>2. Exhausted(s, n + c, m)
    <3>1. Centre(s, m + 0) = from + (f + 0 * d) \div u
      BY <1>8, Zenon
    <3>2. f + 0 * d = f /\ m + 0 = m
      BY <1>a
    <3>3. f \div u = 0
      BY <1>1, <1>a
    <3>4. Centre(s, m) = from
      BY <1>a, <3>1, <3>2, <3>3
    <3>5. from + h >= n + c
      BY <1>a, <1>11
    <3>6. m > 0 => Centre(s, m - 1) \in Nat /\ Centre(s, m - 1) + h < n
      BY <1>3, CentreIs DEF Exhausted, h
    <3>7. m > 0 => Centre(s, m - 1) + h < n + c
      BY <1>a, <3>6
    <3>. QED  BY <3>4, <3>5, <3>7 DEF Exhausted, h
  <2>3. Fed(s, [buffer |-> t, origin |-> h, frac |-> f], n + c, m)
    <3>1. n + c \in Nat /\ m \in Nat
      BY <1>3
    <3>2. m * d = u * ((n + c) - l + h) + f
      BY <1>5, <1>7, Zenon
    <3>. QED  BY <1>a, <1>4, <2>2, <3>1, <3>2 DEF Fed, u, d, h, l
  <2>4. res.out = [k \in 1 .. 0 |-> Sample(s, m + k - 1)] /\ m + 0 = m
    BY <1>3, <2>1
  <2>. QED  BY <2>1, <2>3, <2>4 DEF res, Stretch, Continued
<1>12. CASE ~ (l - 1 - h - h < 0)
  <2>1. room \in Nat \ {0} /\ l - 1 - h - h + 1 = room
    BY <1>a, <1>12
  <2>2. q = (u * room - 1 - f) \div d + 1
    BY <1>9, <1>12, <2>1, Zenon
  <2>3. ASSUME NEW k \in Nat PROVE q \in Nat \ {0} /\ (k < q <=> f + k * d < u * room)
    <3>1. /\ (u * room - 1 - f) \div d + 1 \in Nat \ {0}
          /\ k < (u * room - 1 - f) \div d + 1 <=> f + k * d < u * room
      BY <1>1, <1>a, <2>1, <2>3, ReadyIs, Zenon
    <3>. QED  BY <2>2, <3>1, Zenon
  <2>4. q \in Nat \ {0}
    <3>1. 0 \in Nat
      OBVIOUS
    <3>. QED  BY <2>3, <3>1, Zenon
  <2>5. ASSUME NEW k \in Nat PROVE k < q <=> (f + k * d) \div u < room
    <3>1. f + k * d \in Nat
      BY <1>a
    <3>2. (f + k * d) \div u < room <=> f + k * d < u * room
      BY <1>1, <2>1, <3>1, QuotientBelow, Zenon
    <3>. QED  BY <2>3, <3>2, Zenon
  <2>6. res = [state |-> Advance(s, r, t, q), out |-> Outputs(s, r, t, q)]
    BY <1>10, <2>4
  <2>7. ASSUME NEW k \in 1 .. q
        PROVE  Outputs(s, r, t, q)[k] = Sample(s, m + k - 1)
    <3>1. PICK j : j = k - 1 /\ j \in Nat /\ j < q /\ m + j = m + k - 1
      BY <1>a, <2>4, <2>7
    <3>2. PICK e : e = (f + j * d) \div u /\ e \in Nat /\ e < room
      BY <1>8, <2>5, <3>1, Zenon
    <3>3. (k - 1) * d + f = f + j * d
      <4>1. j * d \in Nat
        BY <1>a, <3>1
      <4>. QED  BY <1>a, <3>1, <4>1
    <3>4. Outputs(s, r, t, q)[k] =
             <<t[(h + ((k - 1) * d + f) \div u) - h + 1], t[h + ((k - 1) * d + f) \div u + h + 1],
               PhaseIndex(s, ((k - 1) * d + f) % u)>>
      <4>1. r.origin = h
        BY <1>2
      <4>2. Outputs(s, r, t, q) =
               [i \in 1 .. q |->
                  <<t[(r.origin + ((i - 1) * d + f) \div u) - h + 1],
                    t[r.origin + ((i - 1) * d + f) \div u + h + 1],
                    PhaseIndex(s, ((i - 1) * d + f) % u)>>]
        BY DEF Outputs, u, d, h, f
      <4>. QED  BY <2>7, <4>1, <4>2
    <3>5. /\ (h + e) - h + 1 \in 1 .. l /\ h + e + h + 1 \in 1 .. l
          /\ base + ((h + e) - h + 1) - 1 = (from + e) - h
          /\ base + (h + e + h + 1) - 1 = from + e + h
      BY <1>a, <3>2
    <3>6. t[(h + e) - h + 1] = (from + e) - h /\ t[h + e + h + 1] = from + e + h
      BY <1>6, <3>5
    <3>7. Sample(s, m + j) = <<Centre(s, m + j) - h, Centre(s, m + j) + h,
                               PhaseIndex(s, ((m + j) * d) % u)>>
      BY DEF Sample, Centre, u, d, h
    <3>8. Centre(s, m + j) = from + e /\ ((m + j) * d) % u = (f + j * d) % u
      BY <1>8, <3>1, <3>2, Zenon
    <3>. QED  BY <3>1, <3>2, <3>3, <3>4, <3>6, <3>7, <3>8
  <2>8. res.out = [k \in 1 .. q |-> Sample(s, m + k - 1)]
    <3>1. Outputs(s, r, t, q) = [k \in 1 .. q |-> Outputs(s, r, t, q)[k]]
      BY DEF Outputs
    <3>2. [k \in 1 .. q |-> Outputs(s, r, t, q)[k]] = [k \in 1 .. q |-> Sample(s, m + k - 1)]
      BY <2>7, Zenon
    <3>. QED  BY <2>6, <3>1, <3>2
  <2> DEFINE e == (f + q * d) \div u
             g == (f + q * d) % u
             cut == SubSeq(t, e + 1, l)
  <2>9. /\ e \in Nat /\ g \in 0 .. u - 1 /\ f + q * d = u * e + g
        /\ Centre(s, m + q) = from + e /\ (m + q) * d = u * (from + e) + g
    BY <1>8, <2>4
  <2> HIDE DEF e, g, cut
  <2>10. e >= room /\ e <= l
    <3>1. ~ (q < q) /\ q \in Nat
      BY <2>4
    <3>2. ~ (e < room)
      BY <2>5, <3>1, Zenon DEF e
    <3>3. PICK z, qd : z = q - 1 /\ z \in Nat /\ z < q /\ qd = q * d /\ qd \in Nat
                       /\ z * d = qd - d /\ f + z * d < u * room
      <4>1. PICK z : z = q - 1 /\ z \in Nat /\ z < q
        BY <2>4
      <4>2. d * (z + 1) = d * z + d /\ d * z \in Nat /\ z * d = d * z /\ q * d = d * (z + 1)
        BY <1>1, <2>4, <4>1
      <4>3. q * d \in Nat /\ z * d = q * d - d
        BY <1>a, <4>2
      <4>4. f + z * d < u * room
        BY <2>3, <4>1, Zenon
      <4>. QED  BY <4>1, <4>3, <4>4, Zenon
    <3>4. f + q * d < u * (room + h)
      <4>1. u * (room + h) = u * room + u * h /\ u * room \in Nat /\ u * h \in Nat
        BY <1>1, <2>1
      <4>2. PICK ur, uh, zd : /\ ur = u * room /\ uh = u * h /\ zd = z * d
                              /\ ur \in Nat /\ uh \in Nat /\ u * (room + h) = ur + uh
        BY <4>1, Zenon
      <4>3. d <= uh /\ zd = qd - d /\ f + zd < ur
        BY <1>1, <3>3, <4>2, Zenon
      <4>4. f + qd < ur + uh
        BY <1>a, <3>3, <4>2, <4>3
      <4>. QED  BY <3>3, <4>2, <4>4
    <3>5. f + q * d \in Nat /\ room + h \in Nat
      BY <1>a, <2>1, <3>3
    <3>6. e < room + h
      BY <1>1, <3>4, <3>5, QuotientBelow DEF e
    <3>. QED  BY <1>a, <2>1, <2>9, <3>2, <3>6
  <2>11. Advance(s, r, t, q) = [buffer |-> cut, origin |-> h, frac |-> g]
    <3>1. /\ r.origin = h /\ r.frac = f
      BY <1>2
    <3>2. Advance(s, r, t, q) =
             LET keep == (h + (f + q * d) \div u) - h
                 skip == IF keep > 0 THEN keep ELSE 0
             IN [buffer |-> SubSeq(t, skip + 1, l), origin |-> (h + (f + q * d) \div u) - skip,
                 frac |-> (f + q * d) % u]
      BY <3>1 DEF Advance, u, d, h, f, l
    <3>3. (h + e) - h = e /\ (IF e > 0 THEN e ELSE 0) = e /\ (h + e) - e = h
      BY <1>a, <2>9
    <3>. QED  BY <3>2, <3>3 DEF e, g, cut
  <2>12. EndsAt(cut, n + c) /\ Len(cut) = l - e
    <3>1. /\ cut \in Seq(Int) /\ Len(cut) = l - e
          /\ \A k \in 1 .. l - e : cut[k] = t[e + k]
      <4>1. t \in Seq(Int) /\ Len(t) = l
        BY <1>4 DEF EndsAt, l
      <4>. QED  BY <1>a, <2>9, <2>10, <4>1 DEF cut
    <3>2. ASSUME NEW k \in 1 .. Len(cut) PROVE cut[k] = (n + c) - Len(cut) + k - 1
      <4>1. k \in 1 .. l - e /\ e + k \in 1 .. l
        BY <1>a, <2>9, <2>10, <3>1, <3>2
      <4>2. cut[k] = base + (e + k) - 1
        BY <1>6, <3>1, <4>1, Zenon
      <4>3. base + (e + k) - 1 = (n + c) - Len(cut) + k - 1
        BY <1>a, <2>9, <3>1, <4>1
      <4>. QED  BY <4>2, <4>3
    <3>. QED  BY <3>1, <3>2 DEF EndsAt
  <2>13. Exhausted(s, n + c, m + q)
    <3>1. from + e + h >= n + c
      BY <1>a, <2>1, <2>9, <2>10
    <3>2. PICK z : z = q - 1 /\ z \in Nat /\ z < q /\ m + z = (m + q) - 1
      BY <1>a, <2>4
    <3>3. PICK y : y = (f + z * d) \div u /\ y \in Nat /\ y < room /\ Centre(s, m + z) = from + y
      BY <1>8, <2>5, <3>2, Zenon
    <3>4. from + y + h < n + c
      BY <1>a, <2>1, <3>3
    <3>5. Centre(s, (m + q) - 1) = from + y
      BY <3>2, <3>3
    <3>. QED  BY <1>a, <2>9, <3>1, <3>4, <3>5 DEF Exhausted, h
  <2>14. Fed(s, [buffer |-> cut, origin |-> h, frac |-> g], n + c, m + q)
    <3>1. n + c \in Nat /\ m + q \in Nat
      BY <1>a, <2>4
    <3>2. (n + c) - Len(cut) + h = from + e
      BY <1>a, <2>9, <2>12
    <3>3. (m + q) * d = u * ((n + c) - Len(cut) + h) + g
      BY <2>9, <3>2
    <3>. QED  BY <2>9, <2>12, <2>13, <3>1, <3>3 DEF Fed, u, d, h
  <2>15. res.state = [buffer |-> cut, origin |-> h, frac |-> g]
    BY <2>6, <2>11
  <2>. QED  BY <2>4, <2>8, <2>14, <2>15 DEF res, Stretch, Continued
<1>. QED  BY <1>11, <1>12

\* One block of a stream, through either kind of resampler.
LEMMA NextBlock ==
    ASSUME NEW s \in Streams, NEW r, NEW n, NEW m, Fed(s, r, n, m),
           NEW c \in Nat
    PROVE  Continued(s, Process(s, r, Block(n, c)), n + c, m)
<1>1. CASE Passthrough(s)
  BY <1>1, PassBlock, SMT DEF Continued
<1>2. CASE ~Passthrough(s)
  BY <1>2, FilterBlock, Zenon
<1>. QED  BY <1>1, <1>2, Zenon

\* Two blocks of outputs after each other.
LEMMA JoinOutputs ==
    ASSUME NEW s, NEW i \in Nat, NEW j \in Nat
    PROVE  Stretch(s, 0, i) \o Stretch(s, i, j) = Stretch(s, 0, i + j)
<1> DEFINE a == Stretch(s, 0, i)
           b == Stretch(s, i, j)
           w == Stretch(s, 0, i + j)
           S == {Sample(s, k) : k \in Nat}
<1>1. /\ \A k \in 1 .. i : a[k] = Sample(s, k - 1) /\ k - 1 \in Nat
      /\ \A k \in 1 .. j : b[k] = Sample(s, i + k - 1) /\ i + k - 1 \in Nat
      /\ \A k \in 1 .. i + j : w[k] = Sample(s, k - 1) /\ k - 1 \in Nat
  <2>1. /\ \A k \in 1 .. i : a[k] = Sample(s, 0 + k - 1) /\ 0 + k - 1 = k - 1 /\ k - 1 \in Nat
        /\ \A k \in 1 .. j : b[k] = Sample(s, i + k - 1) /\ i + k - 1 \in Nat
        /\ \A k \in 1 .. i + j : w[k] = Sample(s, 0 + k - 1) /\ 0 + k - 1 = k - 1 /\ k - 1 \in Nat
    BY DEF Stretch
  <2>. QED  BY <2>1
<1>2. a \in Seq(S) /\ Len(a) = i /\ b \in Seq(S) /\ Len(b) = j /\ w \in Seq(S) /\ Len(w) = i + j
  <2>1. \A k \in 1 .. i : a[k] \in S
    BY <1>1
  <2>2. \A k \in 1 .. j : b[k] \in S
    BY <1>1
  <2>3. \A k \in 1 .. i + j : w[k] \in S
    BY <1>1
  <2>4. a \in [1 .. i -> S] /\ b \in [1 .. j -> S] /\ w \in [1 .. i + j -> S]
    BY <2>1, <2>2, <2>3 DEF Stretch
  <2> HIDE DEF a, b, w, S
  <2>. QED  BY <2>4
<1> HIDE DEF a, b, w, S
<1>3. a \o b \in Seq(S) /\ Len(a \o b) = i + j
  BY <1>2
<1>4. ASSUME NEW k \in 1 .. i + j PROVE (a \o b)[k] = w[k]
  <2>1. CASE k <= i
    <3>1. (a \o b)[k] = a[k] /\ k \in 1 .. i
      BY <1>2, <1>4, <2>1
    <3>. QED  BY <1>1, <3>1
  <2>2. CASE k > i
    <3>1. (a \o b)[k] = b[k - i] /\ k - i \in 1 .. j /\ i + (k - i) - 1 = k - 1
      BY <1>2, <1>4, <2>2
    <3>2. b[k - i] = Sample(s, i + (k - i) - 1)
      BY <1>1, <3>1, Zenon
    <3>. QED  BY <1>1, <3>1, <3>2
  <2>3. k <= i \/ k > i
    BY <1>4
  <2>. QED  BY <2>1, <2>2, <2>3
<1>5. a \o b = w
  BY <1>2, <1>3, <1>4, SeqEqual
<1>. QED  BY <1>5 DEF a, b, w

\* resample() of a whole signal gives what its stream gives, flush included.
LEMMA ResampleIs ==
    ASSUME NEW s \in Streams, NEW n \in Nat, NEW m \in Nat, Exhausted(s, n + HalfTaps(s), m)
    PROVE  Resample(s, n) = Stretch(s, 0, m)
<1> DEFINE front == Process(s, FreshResampler(s), Block(0, n))
           tail == Process(s, front.state, Block(n, HalfTaps(s)))
<1>1. Fed(s, FreshResampler(s), 0, 0) /\ HalfTaps(s) \in Nat
  BY FedFresh, Rates
<1>2. PICK i \in Nat : Fed(s, front.state, 0 + n, 0 + i) /\ front.out = Stretch(s, 0, i)
  <2>1. Continued(s, front, 0 + n, 0)
    BY <1>1, NextBlock, Zenon
  <2>. QED  BY <2>1, Zenon DEF Continued
<1>3. Fed(s, front.state, n, i)
  <2>1. 0 + n = n /\ 0 + i = i
    OBVIOUS
  <2>. QED  BY <1>2, <2>1
<1>4. PICK j \in Nat : Fed(s, tail.state, n + HalfTaps(s), i + j) /\ tail.out = Stretch(s, i, j)
  <2>1. Continued(s, tail, n + HalfTaps(s), i)
    BY <1>1, <1>3, NextBlock, Zenon
  <2>. QED  BY <2>1, Zenon DEF Continued
<1>5. i + j = m
  <2>1. i + j \in Nat /\ n + HalfTaps(s) \in Nat
    BY <1>1
  <2>2. Exhausted(s, n + HalfTaps(s), i + j)
    BY <1>4, Zenon DEF Fed
  <2>. QED  BY <2>1, <2>2, ExhaustedOnce, Zenon
<1>6. Resample(s, n) = front.out \o tail.out
  BY Zenon DEF Resample, FlushBlock
<1>7. Resample(s, n) = Stretch(s, 0, i + j)
  <2>1. front.out \o tail.out = Stretch(s, 0, i) \o Stretch(s, i, j)
    BY <1>2, <1>4, Zenon
  <2>2. Stretch(s, 0, i) \o Stretch(s, i, j) = Stretch(s, 0, i + j)
    BY JoinOutputs, Zenon
  <2>. QED  BY <1>6, <2>1, <2>2, Zenon
<1>. QED  BY <1>5, <1>7

\* How far the date of a frame is from its place in the stream.
Late(s) == 0 .. (MaxPayload + HalfTaps(s)) * s.dst

\* A chunk is dated no earlier than the first sample it gives, and later by at
\* most a payload and half a kernel.
LEMMA DateFits ==
    ASSUME NEW s \in Streams, NEW n \in Nat, NEW m \in Nat, Exhausted(s, n, m),
           NEW c \in 0 .. MaxPayload, NEW date \in {n * s.dst, (n + c) * s.dst}
    PROVE  date \in Nat /\ m * s.src \in Nat /\ date - m * s.src \in Late(s)
<1> DEFINE a == s.src
           b == s.dst
           u == Up(s)
           d == Down(s)
           h == HalfTaps(s)
           at == Centre(s, m)
           f == (m * d) % u
<1>1. /\ a \in Nat \ {0} /\ b \in Nat \ {0} /\ u \in Nat \ {0} /\ d \in Nat \ {0} /\ h \in Nat
      /\ Passthrough(s) => u = 1 /\ d = 1 /\ h = 0
      /\ ~Passthrough(s) => a <= b * h
  BY Rates, Zenon
<1>2. PICK g \in Nat \ {0} : b = u * g /\ a = d * g
  BY Rates, Zenon
<1>3. at \in Nat /\ f \in 0 .. u - 1 /\ m * d = u * at + f
  BY CentreIs, Zenon
<1>4. at + h >= n /\ (m > 0 => Centre(s, m - 1) + h < n)
  BY DEF Exhausted
<1>5. MaxPayload \in Nat
  BY AudioAssumption
<1>6. m * a \in Nat /\ b * n \in Nat /\ b * at \in Nat /\ b * h \in Nat /\ b * c \in Nat
      /\ b * MaxPayload \in Nat /\ c \in Nat /\ c <= MaxPayload
  BY <1>1, <1>3, <1>5
<1>7. /\ n * b = b * n /\ (n + c) * b = b * n + b * c
      /\ (MaxPayload + h) * b = b * MaxPayload + b * h
  BY <1>1, <1>5
<1>8. Passthrough(s) => a = b
  BY DEF Passthrough
<1> HIDE DEF a, b, u, d, h, at, f
<1>9. m * a >= b * at
  <2>1. m * a = g * (m * d) /\ b * at = g * (u * at)
    BY <1>1, <1>2, <1>3
  <2>2. m * d \in Nat /\ u * at \in Nat /\ u * at <= m * d
    <3>1. u * at \in Nat
      BY <1>1, <1>3
    <3>2. PICK x : x = u * at /\ x \in Nat /\ m * d = x + f /\ f \in Nat
      BY <1>1, <1>3, <3>1
    <3>. QED  BY <3>2
  <2>3. g * (u * at) <= g * (m * d)
    BY <1>2, <2>2, Factors
  <2>. QED  BY <2>1, <2>3
<1>10. b * n <= b * at + b * h
  <2>1. n <= at + h /\ at + h \in Nat
    BY <1>1, <1>3, <1>4 DEF h, at
  <2>2. b * n <= b * (at + h)
    BY <1>1, <2>1, Factors
  <2>3. b * (at + h) = b * at + b * h
    BY <1>1, <1>3
  <2>. QED  BY <2>2, <2>3
<1>11. b * c <= b * MaxPayload
  BY <1>1, <1>5, <1>6, Factors
<1>12. m * a <= b * n
  <2>1. CASE m = 0
    BY <1>1, <1>6, <2>1
  <2>2. CASE m > 0 /\ Passthrough(s)
    <3>1. PICK z : z = m - 1 /\ z \in Nat
      BY <2>2
    <3>2. Centre(s, z) = z
      BY <2>2, <3>1, SameRate
    <3>3. m <= n
      BY <1>1, <1>4, <2>2, <3>1, <3>2 DEF h
    <3>4. b * m <= b * n
      BY <1>1, <3>3, Factors
    <3>5. m * a = b * m
      BY <1>1, <1>8, <2>2
    <3>. QED  BY <3>4, <3>5
  <2>3. CASE m > 0 /\ ~Passthrough(s)
    <3>1. PICK z : z = m - 1 /\ z \in Nat
      BY <2>3
    <3>2. PICK y, e : y = Centre(s, z) /\ y \in Nat /\ e \in 0 .. u - 1 /\ z * d = u * y + e
      <4>1. /\ Centre(s, z) \in Nat /\ (z * d) % u \in 0 .. u - 1
            /\ z * d = u * Centre(s, z) + ((z * d) % u)
        BY <3>1, CentreIs, Zenon DEF u, d
      <4>. QED  BY <4>1, Zenon
    <3>3. y + 1 + h <= n
      BY <1>1, <1>4, <2>3, <3>1, <3>2 DEF h
    <3>4. b * (y + 1) + b * h <= b * n /\ b * (y + 1) \in Nat
      <4>1. b * (y + 1 + h) <= b * n
        BY <1>1, <3>2, <3>3, Factors
      <4>2. b * (y + 1 + h) = b * (y + 1) + b * h
        BY <1>1, <3>2
      <4>. QED  BY <1>1, <3>2, <4>1, <4>2
    <3>5. z * a <= b * (y + 1) /\ z * a \in Nat
      <4>1. z * a = g * (z * d) /\ b * (y + 1) = g * (u * (y + 1))
        BY <1>1, <1>2, <3>1, <3>2
      <4>2. z * d \in Nat /\ u * (y + 1) \in Nat /\ z * d <= u * (y + 1)
        <5>1. u * (y + 1) = u * y + u /\ u * y \in Nat
          BY <1>1, <3>2
        <5>2. PICK x : x = u * y /\ x \in Nat /\ z * d = x + e /\ u * (y + 1) = x + u
          BY <3>2, <5>1
        <5>. QED  BY <1>1, <3>2, <5>2
      <4>3. g * (z * d) <= g * (u * (y + 1))
        BY <1>2, <4>2, Factors
      <4>. QED  BY <1>1, <3>1, <4>1, <4>3
    <3>6. m * a = z * a + a
      BY <1>1, <3>1
    <3>7. a <= b * h
      BY <1>1, <2>3
    <3>8. PICK ma, za, by, bh, bn : /\ ma = m * a /\ za = z * a /\ by = b * (y + 1) /\ bh = b * h /\ bn = b * n
      OBVIOUS
    <3>9. /\ ma \in Nat /\ za \in Nat /\ by \in Nat /\ bh \in Nat /\ bn \in Nat /\ a \in Nat
          /\ ma = za + a /\ a <= bh /\ za <= by /\ by + bh <= bn
      BY <1>1, <1>6, <3>4, <3>5, <3>6, <3>7, <3>8, Zenon
    <3>. QED  BY <3>8, <3>9
  <2>. QED  BY <2>1, <2>2, <2>3
<1>13. PICK ma, bn, bat, bh, bc, bp : /\ ma = m * a /\ bn = b * n /\ bat = b * at /\ bh = b * h
                                     /\ bc = b * c /\ bp = b * MaxPayload
  OBVIOUS
<1>14. /\ ma \in Nat /\ bn \in Nat /\ bat \in Nat /\ bh \in Nat /\ bc \in Nat /\ bp \in Nat
       /\ ma >= bat /\ bn <= bat + bh /\ bc <= bp /\ ma <= bn
       /\ (MaxPayload + h) * b = bp + bh
       /\ date = bn \/ date = bn + bc
  <2>1. date = b * n \/ date = b * n + b * c
    BY <1>7 DEF b
  <2>. QED  BY <1>6, <1>7, <1>9, <1>10, <1>11, <1>12, <1>13, <2>1 DEF a, b, h, at
<1>15. date \in Nat /\ date - ma \in 0 .. bp + bh
  BY <1>14
<1>. QED  BY <1>13, <1>14, <1>15 DEF Late, a, b, h

-----------------------------------------------------------------------------
(* The frames hold the outputs, in their places. *)

\* What a slot of the frames holds in a stream of m outputs.
Contents(s) == {Sample(s, i) : i \in Nat} \cup {Silence}
Value(s, m, i) == IF i < m THEN Sample(s, i) ELSE Silence

Chunks(s) == [samples : Seq(Contents(s)), sequence : Nat, capturedAt : Int]

\* x is the k-th frame of a stream of m outputs.
Nth(s, m, x, k) ==
    /\ x \in Chunks(s) /\ Len(x.samples) = FrameSamples /\ x.sequence = k - 1
    /\ x.capturedAt - (k - 1) * FrameTime(s) \in Late(s)
    /\ \A j \in 1 .. FrameSamples :
          x.samples[j] = Value(s, m, (k - 1) * FrameSamples + (j - 1))

\* The frames of a stream of m outputs, as far as they go.
Sliced(s, fs, m) == fs \in Seq(Chunks(s)) /\ \A k \in 1 .. Len(fs) : Nth(s, m, fs[k], k)

\* The slicer after a number of frames: what it holds is the rest of m outputs.
Held(s, w, count, m) ==
    /\ w = [pending |-> w.pending, capturedAt |-> w.capturedAt, sequence |-> count]
    /\ w.pending \in Seq(Contents(s)) /\ Len(w.pending) < FrameSamples
    /\ count * FrameSamples + Len(w.pending) = m
    /\ \A j \in 1 .. Len(w.pending) :
          w.pending[j] = Sample(s, count * FrameSamples + (j - 1))
    /\ w.capturedAt \in Int
    /\ w.pending = <<>> => w.capturedAt = NoDate
    /\ w.pending # <<>> => w.capturedAt - count * FrameTime(s) \in Late(s)

\* Where a slot of a frame lies.
LEMMA SlotBelow ==
    ASSUME NEW count \in Nat, NEW k \in 1 .. count, NEW j \in 1 .. FrameSamples
    PROVE  /\ (k - 1) * FrameSamples + (j - 1) \in Nat
           /\ (k - 1) * FrameSamples + (j - 1) < count * FrameSamples
<1>1. PICK p, z : p = FrameSamples /\ p \in Nat \ {0} /\ z = k - 1 /\ z \in Nat /\ z < count
  BY AudioAssumption
<1>2. p * z + p <= p * count /\ p * z \in Nat /\ p * count \in Nat
      /\ z * p = p * z /\ count * p = p * count
  BY <1>1, Factors
<1>3. PICK pz, pc : pz = z * p /\ pc = count * p /\ pz \in Nat /\ pc \in Nat /\ pz + p <= pc
  BY <1>2, Zenon
<1>4. j \in 1 .. p
  BY <1>1
<1>5. pz + (j - 1) \in Nat /\ pz + (j - 1) < pc
  BY <1>1, <1>3, <1>4
<1>. QED  BY <1>1, <1>3, <1>5

\* Frames stay what they are when the stream goes on.
LEMMA SlicedStays ==
    ASSUME NEW s \in Streams, NEW fs, NEW m \in Nat, NEW q \in Nat, Sliced(s, fs, m),
           Len(fs) * FrameSamples <= m
    PROVE  Sliced(s, fs, m + q)
<1>1. fs \in Seq(Chunks(s)) /\ Len(fs) \in Nat /\ FrameSamples \in Nat
  BY AudioAssumption DEF Sliced
<1>2. ASSUME NEW k \in 1 .. Len(fs) PROVE Nth(s, m + q, fs[k], k)
  <2>1. Nth(s, m, fs[k], k)
    BY DEF Sliced
  <2>2. ASSUME NEW j \in 1 .. FrameSamples
        PROVE  Value(s, m, (k - 1) * FrameSamples + (j - 1))
                  = Value(s, m + q, (k - 1) * FrameSamples + (j - 1))
    <3>1. PICK i, c : i = (k - 1) * FrameSamples + (j - 1) /\ i \in Nat /\ i < c
                      /\ c = Len(fs) * FrameSamples
      BY <1>1, SlotBelow, Zenon
    <3>2. c \in Nat /\ c <= m
      BY <1>1, <3>1
    <3>3. i < m /\ i < m + q
      BY <3>1, <3>2
    <3>4. Value(s, m, i) = Value(s, m + q, i)
      BY <3>3 DEF Value
    <3>. QED  BY <3>1, <3>4
  <2>. QED  BY <2>1, <2>2, Zenon DEF Nth
<1>. QED  BY <1>1, <1>2, Zenon DEF Sliced

\* A part of a sequence, from where it starts.
LEMMA Section ==
    ASSUME NEW S, NEW b \in Seq(S), NEW i \in Nat, NEW n \in Nat, i + n <= Len(b),
           NEW x, x = SubSeq(b, i + 1, i + n)
    PROVE  x \in Seq(S) /\ Len(x) = n /\ \A j \in 1 .. n : x[j] = b[i + j]
<1>1. \A j \in (i + 1) .. (i + n) : b[j] \in S
  OBVIOUS
<1>2. x \in Seq(S) /\ Len(x) = (IF i + 1 <= i + n THEN (i + n) - (i + 1) + 1 ELSE 0)
  BY <1>1, SubSeqProperties
<1>3. Len(x) = n
  BY <1>2
<1>4. \A j \in 1 .. n : x[j] = b[i + j]
  BY <1>2
<1>. QED  BY <1>2, <1>3, <1>4

\* One chunk through the slicer: the frames go on where they were.
LEMMA PushSlices ==
    ASSUME NEW s \in Streams, NEW fs, NEW w, NEW m \in Nat,
           Sliced(s, fs, m), Held(s, w, Len(fs), m),
           NEW q \in Nat \ {0}, NEW date \in Nat, date - m * s.src \in Late(s)
    PROVE  /\ Sliced(s, fs \o SlicerPush(s, w, Stretch(s, m, q), date).out, m + q)
           /\ Held(s, SlicerPush(s, w, Stretch(s, m, q), date).state,
                   Len(fs \o SlicerPush(s, w, Stretch(s, m, q), date).out), m + q)
<1> DEFINE res == SlicerPush(s, w, Stretch(s, m, q), date)
           count == Len(fs)
           p == FrameSamples
           held == Len(w.pending)
           block == w.pending \o Stretch(s, m, q)
           l == Len(block)
           c == l \div p
           cut == c * p
           rest == SubSeq(block, cut + 1, l)
           from == IF w.capturedAt = NoDate THEN date ELSE w.capturedAt
           ft == FrameTime(s)
           base == count * p
<1>1. /\ p \in Nat \ {0} /\ s.src \in Nat \ {0} /\ ft = p * s.src /\ ft \in Nat
      /\ (MaxPayload + HalfTaps(s)) * s.dst \in Nat
  <2>1. MaxPayload \in Nat /\ HalfTaps(s) \in Nat /\ s.dst \in Nat /\ s.src \in Nat \ {0}
    BY AudioAssumption, Rates
  <2>2. p \in Nat \ {0} /\ ft = p * s.src
    BY AudioAssumption DEF FrameTime
  <2>3. p * s.src \in Nat
    BY <2>1, <2>2
  <2>4. (MaxPayload + HalfTaps(s)) * s.dst \in Nat
    BY <2>1
  <2>. QED  BY <2>1, <2>2, <2>3, <2>4, Zenon
<1>2. /\ fs \in Seq(Chunks(s)) /\ count \in Nat /\ base \in Nat
  BY <1>1 DEF Sliced
<1>3. /\ w.pending \in Seq(Contents(s)) /\ held \in Nat /\ held < p /\ base + held = m
      /\ \A j \in 1 .. held : w.pending[j] = Sample(s, base + (j - 1))
      /\ w.capturedAt \in Int /\ w.sequence = count
      /\ w.pending = <<>> => w.capturedAt = NoDate
      /\ w.pending # <<>> => w.capturedAt - count * ft \in Late(s)
  BY DEF Held
<1>4. /\ Stretch(s, m, q) \in Seq(Contents(s)) /\ Len(Stretch(s, m, q)) = q
      /\ \A j \in 1 .. q : Stretch(s, m, q)[j] = Sample(s, m + j - 1)
  <2>1. \A j \in 1 .. q : m + j - 1 \in Nat
    OBVIOUS
  <2>2. \A j \in 1 .. q : Sample(s, m + j - 1) \in Contents(s)
    BY <2>1 DEF Contents
  <2> DEFINE x == Stretch(s, m, q)
  <2>3. x = [j \in 1 .. q |-> Sample(s, m + j - 1)]
    BY DEF Stretch
  <2> HIDE DEF x
  <2>4. x \in [1 .. q -> Contents(s)] /\ \A j \in 1 .. q : x[j] = Sample(s, m + j - 1)
    BY <2>2, <2>3
  <2>5. x \in Seq(Contents(s)) /\ Len(x) = q
    BY <2>4
  <2>. QED  BY <2>4, <2>5, Zenon DEF x
<1> HIDE DEF res, count, p, held, block, l, c, cut, rest, from, ft, base
<1>5. /\ block \in Seq(Contents(s)) /\ l \in Nat \ {0} /\ l = held + q /\ base + l = m + q
      /\ \A j \in 1 .. l : block[j] = Sample(s, base + (j - 1))
  <2>1. block \in Seq(Contents(s)) /\ l = held + q
    <3>1. w.pending \in Seq(Contents(s)) /\ Stretch(s, m, q) \in Seq(Contents(s)) /\ Len(Stretch(s, m, q)) = q
      BY <1>3, <1>4
    <3>. QED  BY <3>1, ConcatProperties DEF block, l, held
  <2>2. ASSUME NEW j \in 1 .. l PROVE block[j] = Sample(s, base + (j - 1))
    <3>1. CASE j <= held
      <4>1. block[j] = w.pending[j] /\ j \in 1 .. held
        BY <1>3, <1>4, <2>1, <2>2, <3>1 DEF block, held
      <4>. QED  BY <1>3, <4>1
    <3>2. CASE j > held
      <4>1. block[j] = Stretch(s, m, q)[j - held] /\ j - held \in 1 .. q
        BY <1>3, <1>4, <2>1, <2>2, <3>2, SMTT(30) DEF block, held
      <4>2. m + (j - held) - 1 = base + (j - 1)
        BY <1>2, <1>3, <2>1, <2>2
      <4>. QED  BY <1>4, <4>1, <4>2
    <3>3. j <= held \/ j > held
      BY <1>3, <2>1, <2>2
    <3>. QED  BY <3>1, <3>2, <3>3
  <2>3. l \in Nat \ {0} /\ base + l = m + q
    BY <1>2, <1>3, <2>1
  <2>. QED  BY <2>1, <2>2, <2>3
<1>6. PICK r \in 0 .. p - 1 : c \in Nat /\ cut \in Nat /\ l = cut + r /\ cut = p * c /\ r \in Nat
  <2>1. PICK x \in Nat, r \in 0 .. p - 1 : l = p * x + r /\ l \div p = x /\ l % p = r
    BY <1>1, <1>5, Division, Zenon
  <2>2. c = x /\ cut = p * c /\ cut \in Nat
    BY <1>1, <2>1 DEF c, cut
  <2>3. r \in Nat
    BY <1>1, <2>1
  <2>. QED  BY <2>1, <2>2, <2>3
<1>a. /\ p \in Nat /\ cut \in Nat /\ r \in Nat /\ r < p /\ l \in Nat /\ l = cut + r /\ c \in Nat
      /\ base \in Nat /\ base + l = m + q /\ count \in Nat /\ ft \in Nat
  BY <1>1, <1>2, <1>5, <1>6, SMTT(30)
<1>7. from \in Int /\ from - count * ft \in Late(s)
  <2>1. CASE w.capturedAt = NoDate
    <3>1. count * ft \in Nat
      BY <1>1, <1>2
    <3>2. w.pending = <<>>
      <4>1. PICK x, y : x = count * ft /\ x \in Nat /\ y = (MaxPayload + HalfTaps(s)) * s.dst /\ y \in Nat
        BY <1>1, <3>1, Zenon
      <4>2. w.pending # <<>> => -1 - x \in 0 .. y
        BY <1>3, <2>1, <4>1 DEF Late, NoDate
      <4>. QED  BY <4>1, <4>2
    <3>3. m = base
      BY <1>2, <1>3, <3>2 DEF held
    <3>4. m * s.src = count * ft
      BY <1>1, <1>2, <3>3 DEF base
    <3>. QED  BY <2>1, <3>4 DEF from
  <2>2. CASE w.capturedAt # NoDate
    BY <1>3, <2>2 DEF from
  <2>. QED  BY <2>1, <2>2
<1>8. /\ res.state = [pending |-> rest,
                      capturedAt |-> IF rest = <<>> /\ c > 0 THEN NoDate ELSE from + cut * s.src,
                      sequence |-> count + c]
      /\ res.out = [k \in 1 .. c |-> Wrap(s, SubSeq(block, (k - 1) * p + 1, k * p), from, count, k - 1)]
  BY <1>3 DEF SlicerPush, res, block, l, c, cut, rest, from, p
<1>9. ASSUME NEW k \in 1 .. c PROVE Nth(s, m + q, res.out[k], count + k)
  <2>1. PICK z, at : z = k - 1 /\ z \in Nat /\ at = z * p /\ at \in Nat /\ k * p = at + p /\ at + p <= cut
    <3>1. p * (k - 1) + p <= p * c /\ p * (k - 1) \in Nat /\ k - 1 \in Nat
      BY <1>1, <1>6, <1>9, Factors
    <3>2. k * p = p * (k - 1) + p /\ (k - 1) * p = p * (k - 1)
      BY <1>1, <1>9
    <3>. QED  BY <1>6, <3>1, <3>2
  <2>a. z \in Nat /\ at \in Nat /\ at + p <= cut
    BY <2>1
  <2>2. PICK x : x = SubSeq(block, at + 1, at + p)
    OBVIOUS
  <2>3. res.out[k] = [samples |-> x, sequence |-> count + z, capturedAt |-> from + z * ft]
    BY <1>8, <1>9, <2>1, <2>2 DEF Wrap, ft
  <2>4. x \in Seq(Contents(s)) /\ Len(x) = p /\ \A j \in 1 .. p : x[j] = block[at + j]
    <3>1. at + p <= l /\ l = Len(block) /\ at \in Nat /\ p \in Nat
      BY <1>a, <2>a DEF l
    <3>2. block \in Seq(Contents(s))
      BY <1>5
    <3>. QED  BY <2>2, <3>1, <3>2, Section
  <2>5. ASSUME NEW j \in 1 .. p
        PROVE  x[j] = Value(s, m + q, ((count + k) - 1) * p + (j - 1))
    <3>1. at + j \in 1 .. l /\ base + ((at + j) - 1) = (base + at) + (j - 1)
          /\ (base + at) + (j - 1) < m + q
      BY <1>a, <2>a, <2>5
    <3>2. x[j] = Sample(s, (base + at) + (j - 1))
      BY <1>5, <2>4, <3>1
    <3>3. ((count + k) - 1) * p = base + at
      BY <1>1, <1>2, <1>9, <2>1 DEF base
    <3>. QED  BY <3>1, <3>2, <3>3 DEF Value
  <2>6. from + z * ft \in Int /\ (from + z * ft) - ((count + k) - 1) * ft \in Late(s)
    <3>1. z * ft \in Nat /\ count * ft \in Nat /\ ((count + k) - 1) * ft = count * ft + z * ft
      <4>1. (count + k) - 1 = count + z
        BY <1>a, <2>1, <1>9
      <4>2. (count + z) * ft = count * ft + z * ft /\ z * ft \in Nat /\ count * ft \in Nat
        BY <1>a, <2>a
      <4>. QED  BY <4>1, <4>2
    <3>2. (from + z * ft) - ((count + k) - 1) * ft = from - count * ft
      BY <1>7, <3>1
    <3>. QED  BY <1>7, <3>1, <3>2
  <2>7. count + z = (count + k) - 1 /\ count + z \in Nat
    BY <1>2, <2>1, <1>9
  <2>8. res.out[k] \in Chunks(s)
    BY <2>3, <2>4, <2>6, <2>7 DEF Chunks
  <2>. QED  BY <2>3, <2>4, <2>5, <2>6, <2>7, <2>8 DEF Nth, p, ft
<1>10. res.out \in Seq(Chunks(s)) /\ Len(res.out) = c
  <2>1. \A k \in 1 .. c : res.out[k] \in Chunks(s)
    BY <1>9, Zenon DEF Nth
  <2>. QED  BY <1>6, <1>8, <2>1
<1>11. Len(fs \o res.out) = count + c
  BY <1>2, <1>10 DEF count
<1>12. Sliced(s, fs \o res.out, m + q)
  <2>1. Sliced(s, fs, m + q)
    <3>1. Len(fs) * FrameSamples <= m
      BY <1>2, <1>3 DEF base, count, p
    <3>. QED  BY <3>1, SlicedStays
  <2>2. ASSUME NEW k \in 1 .. count + c PROVE Nth(s, m + q, (fs \o res.out)[k], k)
    <3>1. CASE k <= count
      <4>1. (fs \o res.out)[k] = fs[k] /\ k \in 1 .. Len(fs)
        BY <1>2, <1>10, <2>2, <3>1 DEF count
      <4>. QED  BY <2>1, <4>1 DEF Sliced
    <3>2. CASE k > count
      <4>1. (fs \o res.out)[k] = res.out[k - count] /\ k - count \in 1 .. c /\ count + (k - count) = k
        BY <1>2, <1>6, <1>10, <2>2, <3>2 DEF count
      <4>2. Nth(s, m + q, res.out[k - count], count + (k - count))
        BY <1>9, <4>1, Zenon
      <4>. QED  BY <4>1, <4>2
    <3>3. k <= count \/ k > count
      BY <1>2, <2>2
    <3>. QED  BY <3>1, <3>2, <3>3
  <2>3. fs \o res.out \in Seq(Chunks(s))
    BY <1>2, <1>10
  <2>. QED  BY <1>11, <2>2, <2>3 DEF Sliced
<1>13. Held(s, res.state, count + c, m + q)
  <2>1. rest \in Seq(Contents(s)) /\ Len(rest) = r /\ \A j \in 1 .. r : rest[j] = block[cut + j]
    <3>1. block \in Seq(Contents(s)) /\ l = Len(block)
      BY <1>5 DEF l
    <3>. QED  BY <1>a, <3>1 DEF rest
  <2>2. (count + c) * p = base + cut
    BY <1>1, <1>2, <1>6 DEF base
  <2>3. base + cut + r = m + q /\ r < p /\ r \in Nat
    BY <1>1, <1>2, <1>5, <1>6, SMTT(30)
  <2>4. ASSUME NEW j \in 1 .. r PROVE rest[j] = Sample(s, (base + cut) + (j - 1))
    <3>1. cut + j \in 1 .. l /\ base + ((cut + j) - 1) = (base + cut) + (j - 1)
      BY <1>1, <1>2, <1>6, <2>3, <2>4
    <3>. QED  BY <1>5, <2>1, <2>4, <3>1
  <2>5. from + cut * s.src \in Int /\ (from + cut * s.src) - (count + c) * ft \in Late(s)
    <3>1. cut * s.src = c * ft /\ c * ft \in Nat /\ count * ft \in Nat
          /\ (count + c) * ft = count * ft + c * ft
      <4>1. cut = c * p
        BY <1>1, <1>6
      <4>2. c * p * s.src = c * (p * s.src)
        BY <1>1, <1>a
      <4>3. (count + c) * ft = count * ft + c * ft /\ c * ft \in Nat /\ count * ft \in Nat
        BY <1>a
      <4>. QED  BY <1>1, <4>1, <4>2, <4>3, Zenon
    <3>2. (from + cut * s.src) - (count + c) * ft = from - count * ft
      BY <1>7, <3>1
    <3>. QED  BY <1>7, <3>1, <3>2
  <2>6. rest = <<>> => c > 0
    <3>1. rest = <<>> => cut # 0
      BY <1>5, <1>6, <2>1
    <3>2. c = 0 => cut = 0
      BY <1>1, <1>6
    <3>. QED  BY <1>6, <3>1, <3>2
  <2>7. PICK st : st = res.state
    OBVIOUS
  <2>8. /\ st = [pending |-> st.pending, capturedAt |-> st.capturedAt, sequence |-> count + c]
        /\ st.pending = rest /\ st.capturedAt = IF rest = <<>> /\ c > 0 THEN NoDate ELSE from + cut * s.src
    BY <1>8, <2>7
  <2>9. /\ st.capturedAt \in Int
        /\ rest = <<>> => st.capturedAt = NoDate
        /\ rest # <<>> => st.capturedAt - (count + c) * ft \in Late(s)
    <3>1. NoDate \in Int
      BY DEF NoDate
    <3>. QED  BY <2>5, <2>6, <2>8, <3>1
  <2>10. Held(s, st, count + c, m + q)
    <3>1. Len(rest) < p /\ (count + c) * p + Len(rest) = m + q
      BY <2>1, <2>2, <2>3
    <3>2. \A j \in 1 .. Len(rest) : rest[j] = Sample(s, (count + c) * p + (j - 1))
      BY <2>1, <2>2, <2>4
    <3>3. /\ st.pending \in Seq(Contents(s)) /\ Len(st.pending) < p
          /\ (count + c) * p + Len(st.pending) = m + q
      BY <2>1, <2>8, <3>1
    <3>4. /\ \A j \in 1 .. Len(st.pending) : st.pending[j] = Sample(s, (count + c) * p + (j - 1))
          /\ st.pending = <<>> => st.capturedAt = NoDate
          /\ st.pending # <<>> => st.capturedAt - (count + c) * ft \in Late(s)
      BY <2>8, <2>9, <3>2, Zenon
    <3>. QED  BY <2>8, <2>9, <3>3, <3>4, Zenon DEF Held, p, ft
  <2>. QED  BY <2>7, <2>10
<1>. QED  BY <1>11, <1>12, <1>13 DEF res

\* One more frame at the end.
LEMMA OneMore ==
    ASSUME NEW s \in Streams, NEW fs, NEW m \in Nat, Sliced(s, fs, m),
           NEW x, Nth(s, m, x, Len(fs) + 1)
    PROVE  Sliced(s, fs \o <<x>>, m) /\ Len(fs \o <<x>>) = Len(fs) + 1
<1>1. fs \in Seq(Chunks(s)) /\ Len(fs) \in Nat /\ x \in Chunks(s)
  BY DEF Sliced, Nth
<1>2. fs \o <<x>> \in Seq(Chunks(s)) /\ Len(fs \o <<x>>) = Len(fs) + 1
  BY <1>1
<1>3. ASSUME NEW k \in 1 .. Len(fs) + 1 PROVE Nth(s, m, (fs \o <<x>>)[k], k)
  <2>1. CASE k <= Len(fs)
    <3>1. (fs \o <<x>>)[k] = fs[k] /\ k \in 1 .. Len(fs)
      BY <1>1, <1>3, <2>1
    <3>. QED  BY <3>1 DEF Sliced
  <2>2. CASE k > Len(fs)
    <3>1. k = Len(fs) + 1 /\ (fs \o <<x>>)[k] = x
      BY <1>1, <1>3, <2>2
    <3>. QED  BY <3>1
  <2>3. k <= Len(fs) \/ k > Len(fs)
    BY <1>1, <1>3
  <2>. QED  BY <2>1, <2>2, <2>3
<1>. QED  BY <1>2, <1>3 DEF Sliced

\* The frame that flush() pads is the next one, and the last.
LEMMA FlushSlices ==
    ASSUME NEW s \in Streams, NEW fs, NEW w, NEW m \in Nat,
           Sliced(s, fs, m), Held(s, w, Len(fs), m)
    PROVE  /\ Sliced(s, fs \o SlicerFlush(s, w).out, m)
           /\ SlicerFlush(s, w).state.pending = <<>>
           /\ Len(fs \o SlicerFlush(s, w).out) * FrameSamples >= m
<1> DEFINE res == SlicerFlush(s, w)
           count == Len(fs)
           p == FrameSamples
           held == Len(w.pending)
           base == count * p
           ft == FrameTime(s)
           padding == [k \in 1 .. p - held |-> Silence]
           block == w.pending \o padding
           x == Wrap(s, block, w.capturedAt, w.sequence, 0)
<1>1. p \in Nat \ {0} /\ ft \in Nat
  <2>1. p \in Nat \ {0} /\ s.src \in Nat
    BY AudioAssumption, Rates
  <2>. QED  BY <2>1 DEF FrameTime
<1>2. fs \in Seq(Chunks(s)) /\ count \in Nat /\ base \in Nat
  BY <1>1 DEF Sliced
<1>3. /\ w.pending \in Seq(Contents(s)) /\ held \in Nat /\ held < p /\ base + held = m
      /\ \A j \in 1 .. held : w.pending[j] = Sample(s, base + (j - 1))
      /\ w.capturedAt \in Int /\ w.sequence = count
      /\ w.pending # <<>> => w.capturedAt - count * ft \in Late(s)
  BY DEF Held
<1>4. CASE w.pending = <<>>
  <2>1. res = [state |-> w, out |-> <<>>]
    BY <1>4 DEF SlicerFlush
  <2>2. fs \o <<>> = fs /\ base = m
    BY <1>2, <1>3, <1>4
  <2>. QED  BY <1>2, <1>4, <2>1, <2>2
<1>5. CASE w.pending # <<>>
  <2>1. res.out = <<x>> /\ res.state.pending = <<>>
    BY <1>5 DEF SlicerFlush, FreshSlicer
  <2>2. x = [samples |-> block, sequence |-> count, capturedAt |-> w.capturedAt]
    <3>1. 0 * ft = 0 /\ count + 0 = count /\ w.capturedAt + 0 = w.capturedAt
      BY <1>1, <1>2, <1>3
    <3>. QED  BY <1>3, <3>1 DEF Wrap
  <2>3. padding \in Seq(Contents(s)) /\ Len(padding) = p - held /\ \A k \in 1 .. p - held : padding[k] = Silence
    <3>1. Silence \in Contents(s) /\ p - held \in Nat
      BY <1>1, <1>3 DEF Contents
    <3>. QED  BY <3>1
  <2> HIDE DEF res, count, p, held, base, ft, padding, block, x
  <2>4. block \in Seq(Contents(s)) /\ Len(block) = p
    <3>1. held + (p - held) = p
      BY <1>1, <1>3
    <3>2. w.pending \in Seq(Contents(s)) /\ padding \in Seq(Contents(s)) /\ Len(padding) = p - held
      BY <1>3, <2>3
    <3>3. /\ w.pending \o padding \in Seq(Contents(s))
          /\ Len(w.pending \o padding) = Len(w.pending) + Len(padding)
      BY <3>2, ConcatProperties, Zenon
    <3>4. Len(w.pending) = held
      BY DEF held
    <3>. QED  BY <3>1, <3>2, <3>3, <3>4 DEF block
  <2>5. ASSUME NEW j \in 1 .. p PROVE block[j] = Value(s, m, base + (j - 1))
    <3>1. CASE j <= held
      <4>1. block[j] = w.pending[j] /\ j \in 1 .. held
        BY <1>1, <1>3, <2>3, <2>5, <3>1 DEF block, held
      <4>2. base + (j - 1) < m
        BY <1>2, <1>3, <4>1
      <4>. QED  BY <1>3, <4>1, <4>2 DEF Value
    <3>2. CASE j > held
      <4>1. block[j] = padding[j - held] /\ j - held \in 1 .. p - held
        BY <1>1, <1>3, <2>3, <2>5, <3>2 DEF block, held
      <4>2. ~ (base + (j - 1) < m)
        BY <1>1, <1>2, <1>3, <2>5, <3>2
      <4>. QED  BY <2>3, <4>1, <4>2 DEF Value
    <3>3. j <= held \/ j > held
      BY <1>1, <1>3, <2>5
    <3>. QED  BY <3>1, <3>2, <3>3
  <2>6. Nth(s, m, x, count + 1)
    <3>1. (count + 1) - 1 = count /\ ((count + 1) - 1) * p = base
      BY <1>2 DEF base
    <3>2. x \in Chunks(s)
      BY <1>2, <1>3, <2>2, <2>4 DEF Chunks
    <3>3. w.capturedAt - count * ft \in Late(s)
      BY <1>3, <1>5
    <3>. QED  BY <2>2, <2>4, <2>5, <3>1, <3>2, <3>3 DEF Nth, p, ft
  <2>7. Sliced(s, fs \o <<x>>, m) /\ Len(fs \o <<x>>) = count + 1
    BY <2>6, OneMore DEF count
  <2>8. (count + 1) * p >= m
    <3>1. (count + 1) * p = base + p
      BY <1>1, <1>2 DEF base
    <3>. QED  BY <1>1, <1>2, <1>3, <3>1
  <2>. QED  BY <2>1, <2>7, <2>8 DEF res, p
<1>. QED  BY <1>4, <1>5

-----------------------------------------------------------------------------
(* The pipeline, whatever the payloads. *)

\* Where the pipeline stands after n samples: as many outputs as they allow, in
\* the frames and in the slicer.
Onward(r, w, fs, n) ==
    \E m \in Nat : /\ Fed(stream, r, n, m)
                   /\ Sliced(stream, fs, m) /\ Held(stream, w, Len(fs), m)

\* After flush() the last kernels are out as well, and nothing is pending.
Finished(w, fs, n) ==
    \E m \in Nat : /\ Exhausted(stream, n + HalfTaps(stream), m)
                   /\ Sliced(stream, fs, m)
                   /\ w.pending = <<>> /\ Len(fs) * FrameSamples >= m

AudioInv ==
    /\ stream \in Streams /\ total \in Nat /\ flushed \in BOOLEAN
    /\ ~flushed => Onward(resampler, slicer, frames, total)
    /\ flushed => Finished(slicer, frames, total)

\* One block through the resampler and the slicer.
LEMMA BlockOnward ==
    ASSUME stream \in Streams, NEW n \in Nat, Onward(resampler, slicer, frames, n), NEW c \in Nat,
           NEW k \in 0 .. MaxPayload, NEW date \in {n * stream.dst, (n + k) * stream.dst},
           NEW res, res = Process(stream, resampler, Block(n, c)),
           NEW cut, cut = FrameUp(slicer, res.out, date)
    PROVE  Onward(res.state, cut.state, frames \o cut.out, n + c)
<1>1. PICK m \in Nat : /\ Fed(stream, resampler, n, m)
                       /\ Sliced(stream, frames, m) /\ Held(stream, slicer, Len(frames), m)
  BY Zenon DEF Onward
<1>2. Continued(stream, res, n + c, m)
  <2>1. Continued(stream, Process(stream, resampler, Block(n, c)), n + c, m)
    BY <1>1, NextBlock, Zenon
  <2>. QED  BY <2>1
<1>3. PICK q \in Nat : Fed(stream, res.state, n + c, m + q) /\ res.out = Stretch(stream, m, q)
  BY <1>2, Zenon DEF Continued
<1>4. CASE q = 0
  <2>1. res.out = <<>> /\ m + q = m
    BY <1>3, <1>4 DEF Stretch
  <2>2. cut.state = slicer /\ cut.out = <<>>
    BY <2>1 DEF FrameUp
  <2>3. frames \o <<>> = frames
    BY <1>1 DEF Sliced
  <2>. QED  BY <1>1, <1>3, <2>1, <2>2, <2>3 DEF Onward
<1>5. CASE q # 0
  <2>1. q \in Nat \ {0} /\ m + q \in Nat
    BY <1>5
  <2>2. res.out # <<>>
    BY <1>3, <2>1 DEF Stretch
  <2>3. cut = SlicerPush(stream, slicer, Stretch(stream, m, q), date)
    BY <1>3, <2>2 DEF FrameUp
  <2>4. date \in Nat /\ date - m * stream.src \in Late(stream)
    <3>1. Exhausted(stream, n, m)
      BY <1>1 DEF Fed
    <3>. QED  BY <3>1, DateFits
  <2>5. /\ Sliced(stream, frames \o SlicerPush(stream, slicer, Stretch(stream, m, q), date).out, m + q)
        /\ Held(stream, SlicerPush(stream, slicer, Stretch(stream, m, q), date).state,
                Len(frames \o SlicerPush(stream, slicer, Stretch(stream, m, q), date).out), m + q)
    BY <1>1, <2>1, <2>4, PushSlices, Zenon
  <2>. QED  BY <1>3, <2>1, <2>3, <2>5 DEF Onward
<1>. QED  BY <1>4, <1>5

\* Nothing was pushed yet.
LEMMA FreshOnward ==
    ASSUME stream \in Streams
    PROVE  Onward(FreshResampler(stream), FreshSlicer, <<>>, 0)
<1>1. Fed(stream, FreshResampler(stream), 0, 0)
  BY FedFresh
<1>2. Sliced(stream, <<>>, 0)
  BY DEF Sliced
<1>3. Held(stream, FreshSlicer, 0, 0)
  <2>1. FrameSamples \in Nat \ {0} /\ 0 * FrameSamples = 0
    BY AudioAssumption
  <2>2. FreshSlicer = [pending |-> <<>>, capturedAt |-> -1, sequence |-> 0]
    BY DEF FreshSlicer, NoDate
  <2>. QED  BY <2>1, <2>2 DEF Held, NoDate
<1>4. Len(<<>>) = 0 /\ 0 \in Nat
  OBVIOUS
<1>. QED  BY <1>1, <1>2, <1>3, <1>4 DEF Onward

\* A payload adds what it can, whatever the samples it brings.
LEMMA PushKeeps ==
    ASSUME AudioInv,
           NEW bytes \in 0 .. MaxPayload * stream.width * stream.channels, NEW dated \in BOOLEAN,
           PushBytes(bytes, dated)
    PROVE  AudioInv'
<1> DEFINE c == bytes \div (stream.width * stream.channels)
           date == (IF dated THEN total ELSE total + c) * stream.dst
           res == Process(stream, resampler, Block(total, c))
           cut == FrameUp(slicer, res.out, date)
<1>1. /\ stream \in Streams /\ total \in Nat /\ ~flushed /\ Onward(resampler, slicer, frames, total)
  BY Zenon DEF AudioInv, PushBytes
<1>2. c \in 0 .. MaxPayload
  <2>1. PICK w, ch : w = stream.width /\ ch = stream.channels /\ w \in Nat \ {0} /\ ch \in Nat \ {0}
    BY <1>1, AudioAssumption
  <2>2. PICK p : p = w * ch /\ p \in Nat \ {0}
    <3>1. w * ch \in Nat /\ w * 1 <= w * ch /\ w * 1 = w
      BY <2>1, Factors
    <3>. QED  BY <2>1, <3>1
  <2>3. MaxPayload \in Nat
    BY AudioAssumption
  <2>4. MaxPayload * w * ch = p * MaxPayload /\ p * MaxPayload \in Nat
        /\ p * (MaxPayload + 1) = p * MaxPayload + p
    BY <2>1, <2>2, <2>3
  <2>5. bytes \in Nat /\ bytes <= p * MaxPayload
    BY <2>1, <2>4
  <2>6. bytes < p * (MaxPayload + 1)
    BY <2>2, <2>4, <2>5
  <2>7. bytes \div p < MaxPayload + 1
    BY <2>2, <2>3, <2>5, <2>6, QuotientBelow
  <2>8. bytes \div p \in Nat
    BY <2>2, <2>5
  <2>9. bytes \div p \in 0 .. MaxPayload
    <3>1. PICK z : z = bytes \div p /\ z \in Nat /\ z < MaxPayload + 1
      BY <2>7, <2>8, Zenon
    <3>2. z \in 0 .. MaxPayload
      BY <2>3, <3>1
    <3>. QED  BY <3>1, <3>2, Zenon
  <2>. QED  BY <2>1, <2>2, <2>9
<1>3. /\ resampler' = res.state /\ slicer' = cut.state /\ frames' = frames \o cut.out
      /\ total' = total + c /\ stream' = stream /\ flushed' = flushed
  BY Zenon DEF PushBytes
<1>4. date \in {total * stream.dst, (total + c) * stream.dst}
  OBVIOUS
<1>5. c \in Nat
  BY <1>2
<1> HIDE DEF c, date, res, cut
<1>6. Onward(res.state, cut.state, frames \o cut.out, total + c)
  BY <1>1, <1>2, <1>4, <1>5, BlockOnward DEF res, cut
<1>7. Onward(resampler', slicer', frames', total')
  BY <1>3, <1>6
<1>8. Onward(resampler, slicer, frames, total)'
  BY <1>3, <1>7 DEF Onward
<1>9. total' \in Nat
  BY <1>1, <1>3, <1>5
<1>. QED  BY <1>1, <1>3, <1>8, <1>9, Zenon DEF AudioInv

\* flush() feeds half a kernel of silence and gives the rest.
LEMMA FlushKeeps ==
    ASSUME AudioInv, Flush
    PROVE  AudioInv'
<1> DEFINE h == HalfTaps(stream)
           res == Process(stream, resampler, Block(total, h))
           up == FrameUp(slicer, res.out, total * stream.dst)
           last == SlicerFlush(stream, up.state)
<1>1. /\ stream \in Streams /\ total \in Nat /\ ~flushed /\ Onward(resampler, slicer, frames, total)
  BY DEF AudioInv, Flush
<1>2. h \in Nat /\ 0 \in 0 .. MaxPayload
  BY <1>1, Rates, AudioAssumption
<1>3. /\ slicer' = last.state /\ frames' = (frames \o up.out) \o last.out
      /\ total' = total /\ stream' = stream /\ flushed' = TRUE
  BY DEF Flush, FlushBlock
<1> HIDE DEF h, res, up, last
<1>4. Onward(res.state, up.state, frames \o up.out, total + h)
  BY <1>1, <1>2, BlockOnward DEF res, up
<1>5. PICK m \in Nat : /\ Exhausted(stream, total + h, m) /\ Sliced(stream, frames \o up.out, m)
                       /\ Held(stream, up.state, Len(frames \o up.out), m)
  BY <1>4, Zenon DEF Onward, Fed
<1>6. /\ Sliced(stream, (frames \o up.out) \o last.out, m) /\ last.state.pending = <<>>
      /\ Len((frames \o up.out) \o last.out) * FrameSamples >= m
  BY <1>1, <1>5, FlushSlices, Zenon DEF last
<1>7. Finished(last.state, (frames \o up.out) \o last.out, total)
  BY <1>5, <1>6, Zenon DEF Finished, h
<1>8. Finished(slicer', frames', total')
  BY <1>3, <1>7
<1>9. Finished(slicer, frames, total)'
  BY <1>3, <1>8 DEF Finished
<1>. QED  BY <1>1, <1>3, <1>9 DEF AudioInv

\* Before flush() the pipeline holds what its samples allow, and after it the rest.
THEOREM AudioInvariant == AudioSpec => []AudioInv
<1>1. ASSUME AudioInit PROVE AudioInv
  <2>1. stream \in Streams /\ total = 0 /\ flushed = FALSE
    BY <1>1 DEF AudioInit
  <2>2. Onward(FreshResampler(stream), FreshSlicer, <<>>, 0)
    BY <2>1, FreshOnward
  <2>3. Onward(resampler, slicer, frames, total)
    BY <1>1, <2>2 DEF AudioInit
  <2>. QED  BY <2>1, <2>3 DEF AudioInv
<1>2. ASSUME AudioInv, [AudioNext]_audioVars PROVE AudioInv'
  <2>1. stream \in Streams /\ total \in Nat /\ flushed \in BOOLEAN
    BY <1>2 DEF AudioInv
  <2>2. ASSUME NEW bytes \in 0 .. MaxPayload * stream.width * stream.channels, NEW dated \in BOOLEAN,
               PushBytes(bytes, dated)
        PROVE  AudioInv'
    BY <1>2, <2>2, PushKeeps
  <2>3. CASE Flush
    BY <1>2, <2>3, FlushKeeps
  <2>4. CASE ResetAudio
    <3>1. /\ resampler' = FreshResampler(stream) /\ slicer' = FreshSlicer /\ frames' = <<>>
          /\ total' = 0 /\ flushed' = FALSE /\ stream' = stream
      BY <2>4 DEF ResetAudio
    <3>2. Onward(FreshResampler(stream), FreshSlicer, <<>>, 0)
      BY <2>1, FreshOnward
    <3>3. Onward(resampler', slicer', frames', total')
      BY <3>1, <3>2
    <3>4. Onward(resampler, slicer, frames, total)'
      BY <3>1, <3>3 DEF Onward
    <3>. QED  BY <2>1, <3>1, <3>4 DEF AudioInv
  <2>5. CASE UNCHANGED audioVars
    BY <1>2, <2>5 DEF audioVars, AudioInv, Onward, Finished
  <2>. QED  BY <1>2, <2>2, <2>3, <2>4, <2>5 DEF AudioNext
<1>. QED  BY <1>1, <1>2, PTL DEF AudioSpec

\* What left the pipeline, slot by slot.
LEMMA EmittedIs ==
    ASSUME stream \in Streams, NEW m \in Nat, Sliced(stream, frames, m),
           \/ slicer.pending = <<>>
           \/ Held(stream, slicer, Len(frames), m)
    PROVE  /\ Emitted \in Seq(Contents(stream))
           /\ Len(Emitted) = Len(frames) * FrameSamples + Len(slicer.pending)
           /\ \A i \in 1 .. Len(Emitted) : Emitted[i] = Value(stream, m, i - 1)
<1> DEFINE s == stream
           p == FrameSamples
           count == Len(frames)
           base == count * p
           pending == slicer.pending
           held == Len(pending)
           front == IF frames = <<>> THEN <<>> ELSE ConcatChunks(frames).samples
<1>1. p \in Nat \ {0} /\ frames \in Seq(Chunks(s)) /\ count \in Nat /\ base \in Nat
  BY AudioAssumption DEF Sliced
<1>2. /\ pending \in Seq(Contents(s)) /\ held \in Nat
      /\ \A j \in 1 .. held : pending[j] = Value(s, m, base + (j - 1))
  <2>1. CASE pending = <<>>
    BY <2>1
  <2>2. CASE Held(stream, slicer, Len(frames), m)
    <3>1. /\ pending \in Seq(Contents(s)) /\ held \in Nat /\ base + held = m
          /\ \A j \in 1 .. held : pending[j] = Sample(s, base + (j - 1))
      BY <2>2 DEF Held
    <3>2. ASSUME NEW j \in 1 .. held PROVE pending[j] = Value(s, m, base + (j - 1))
      <4>1. base + (j - 1) < m
        <5>1. base \in Nat /\ base + held = m /\ held \in Nat /\ j \in 1 .. held
          BY <1>1, <3>1, <3>2
        <5> HIDE DEF base, held
        <5>. QED  BY <5>1
      <4>. QED  BY <3>1, <4>1 DEF Value
    <3>. QED  BY <3>1, <3>2
  <2>. QED  BY <2>1, <2>2
<1>3. ASSUME NEW i \in 1 .. base
      PROVE  frames[((i - 1) \div p) + 1].samples[((i - 1) % p) + 1] = Value(s, m, i - 1)
  <2>1. i - 1 \in Nat /\ i - 1 < base
    BY <1>1
  <2>2. PICK z \in Nat, y \in 0 .. p - 1 : i - 1 = p * z + y /\ (i - 1) \div p = z /\ (i - 1) % p = y
    BY <1>1, <2>1, Division, Zenon
  <2>3. z < count
    <3>1. base = p * count
      BY <1>1
    <3>2. (i - 1) \div p < count
      <4>1. p \in Nat \ {0} /\ count \in Nat /\ i - 1 \in Nat /\ i - 1 < p * count
        BY <1>1, <2>1, <3>1
      <4>. QED  BY <4>1, QuotientBelow, Zenon
    <3>. QED  BY <2>2, <3>2
  <2>4. z + 1 \in 1 .. count /\ y + 1 \in 1 .. p /\ (z + 1) - 1 = z /\ (y + 1) - 1 = y
    <3>1. z \in Nat /\ y \in 0 .. p - 1 /\ p \in Nat \ {0} /\ count \in Nat /\ z < count
      BY <1>1, <2>2, <2>3
    <3> HIDE DEF p, count
    <3>. QED  BY <3>1
  <2>5. Nth(s, m, frames[z + 1], z + 1)
    BY <2>4 DEF Sliced
  <2>6. frames[z + 1].samples[y + 1] = Value(s, m, ((z + 1) - 1) * p + ((y + 1) - 1))
    BY <2>4, <2>5 DEF Nth
  <2>7. z * p + y = i - 1
    <3>1. z * p = p * z
      BY <1>1, <2>2
    <3>. QED  BY <2>2, <3>1
  <2>. QED  BY <2>2, <2>4, <2>6, <2>7
<1>4. /\ front \in Seq(Contents(s)) /\ Len(front) = base
      /\ \A i \in 1 .. base : front[i] = Value(s, m, i - 1)
  <2>1. CASE frames = <<>>
    <3>1. base = 0
      BY <1>1, <2>1
    <3>. QED  BY <2>1, <3>1
  <2>2. CASE frames # <<>>
    <3> DEFINE x == [i \in 1 .. base |-> frames[((i - 1) \div p) + 1].samples[((i - 1) % p) + 1]]
    <3>1. front = x
      <4>1. Head(frames) \in Chunks(s)
        BY <1>1, <2>2
      <4>2. ConcatChunks(frames) = [Head(frames) EXCEPT !.samples = x]
        BY DEF ConcatChunks
      <4>3. [Head(frames) EXCEPT !.samples = x].samples = x
        BY <4>1, Zenon DEF Chunks
      <4>. QED  BY <2>2, <4>2, <4>3
    <3>2. \A i \in 1 .. base : x[i] = Value(s, m, i - 1)
      BY <1>3
    <3>3. \A i \in 1 .. base : Value(s, m, i - 1) \in Contents(s)
      <4>1. \A i \in 1 .. base : i - 1 \in Nat
        BY <1>1
      <4>. QED  BY <4>1 DEF Value, Contents
    <3>4. DOMAIN x = 1 .. base
      OBVIOUS
    <3> HIDE DEF x
    <3>5. x \in [1 .. base -> Contents(s)]
      <4>1. x = [i \in 1 .. base |-> x[i]]
        BY DEF x
      <4>. QED  BY <3>2, <3>3, <4>1
    <3>6. x \in Seq(Contents(s)) /\ Len(x) = base
      BY <1>1, <3>5
    <3>. QED  BY <3>1, <3>2, <3>6
  <2>. QED  BY <2>1, <2>2
<1>5. Emitted = front \o pending
  BY DEF Emitted
<1> HIDE DEF s, p, count, base, pending, held, front
<1>6. Emitted \in Seq(Contents(s)) /\ Len(Emitted) = base + held
  <2>1. front \in Seq(Contents(s)) /\ pending \in Seq(Contents(s)) /\ Len(front) = base
    BY <1>2, <1>4
  <2>. QED  BY <1>5, <2>1, ConcatProperties DEF held
<1>7. ASSUME NEW i \in 1 .. base + held PROVE Emitted[i] = Value(s, m, i - 1)
  <2>1. front \in Seq(Contents(s)) /\ pending \in Seq(Contents(s)) /\ Len(front) = base /\ Len(pending) = held
    BY <1>2, <1>4 DEF held
  <2>2. CASE i <= base
    <3>1. Emitted[i] = front[i] /\ i \in 1 .. base
      BY <1>1, <1>2, <1>5, <1>7, <2>1, <2>2
    <3>. QED  BY <1>4, <3>1
  <2>3. CASE i > base
    <3>1. Emitted[i] = pending[i - base] /\ i - base \in 1 .. held
      BY <1>1, <1>2, <1>5, <1>7, <2>1, <2>3, SMTT(30)
    <3>2. base + ((i - base) - 1) = i - 1
      BY <1>1, <1>2, <1>7
    <3>. QED  BY <1>2, <3>1, <3>2
  <2>4. i <= base \/ i > base
    BY <1>1, <1>2, <1>7
  <2>. QED  BY <2>2, <2>3, <2>4
<1>8. \A i \in 1 .. Len(Emitted) : Emitted[i] = Value(s, m, i - 1)
  BY <1>6, <1>7, Zenon
<1>. QED  BY <1>6, <1>8 DEF s, base, held, count, p, pending

\* The invariant puts the outputs in their slots and silence behind them.
LEMMA KeptSignal ==
    ASSUME AudioInv
    PROVE  SignalKept
<1>1. stream \in Streams /\ total \in Nat /\ flushed \in BOOLEAN
  BY DEF AudioInv
<1>2. PICK m \in Nat : /\ Sliced(stream, frames, m)
                       /\ slicer.pending = <<>> \/ Held(stream, slicer, Len(frames), m)
                       /\ ~flushed => Fed(stream, resampler, total, m) /\ Held(stream, slicer, Len(frames), m)
                       /\ flushed => /\ Exhausted(stream, total + HalfTaps(stream), m)
                                     /\ slicer.pending = <<>> /\ Len(frames) * FrameSamples >= m
  <2>1. CASE flushed
    BY <2>1, Zenon DEF AudioInv, Finished
  <2>2. CASE ~flushed
    BY <2>2, Zenon DEF AudioInv, Onward
  <2>. QED  BY <2>1, <2>2, Zenon
<1>3. PICK e, n : /\ e = Emitted /\ e \in Seq(Contents(stream)) /\ n = Len(e) /\ n \in Nat
                  /\ n = Len(frames) * FrameSamples + Len(slicer.pending)
                  /\ \A i \in 1 .. n : e[i] = Value(stream, m, i - 1)
  <2>1. /\ Emitted \in Seq(Contents(stream))
        /\ Len(Emitted) = Len(frames) * FrameSamples + Len(slicer.pending)
        /\ \A i \in 1 .. Len(Emitted) : Emitted[i] = Value(stream, m, i - 1)
    BY <1>1, <1>2, EmittedIs, Zenon
  <2>2. Len(Emitted) \in Nat
    BY <2>1
  <2>. QED  BY <2>1, <2>2, Zenon
<1>4. (flushed => n >= m) /\ (~flushed => n = m)
  <2>1. CASE flushed
    <3>1. Len(slicer.pending) = 0 /\ Len(frames) * FrameSamples >= m /\ Len(frames) * FrameSamples \in Nat
      <4>1. FrameSamples \in Nat /\ Len(frames) \in Nat
        BY <1>2, AudioAssumption DEF Sliced
      <4>. QED  BY <1>2, <2>1, <4>1
    <3>. QED  BY <1>3, <2>1, <3>1
  <2>2. CASE ~flushed
    BY <1>2, <1>3, <2>2 DEF Held
  <2>. QED  BY <2>1, <2>2
<1>5. m \in 0 .. n
  BY <1>1, <1>3, <1>4
<1>6. SubSeq(e, 1, m) = [k \in 1 .. m |-> Sample(stream, k - 1)]
  <2>1. PICK x : x = SubSeq(e, 0 + 1, 0 + m) /\ x = SubSeq(e, 1, m)
    <3>1. 0 + 1 = 1 /\ 0 + m = m
      OBVIOUS
    <3>. QED  BY <3>1
  <2>2. x \in Seq(Contents(stream)) /\ Len(x) = m /\ \A k \in 1 .. m : x[k] = e[0 + k]
    <3>1. 0 \in Nat /\ 0 + m <= Len(e) /\ e \in Seq(Contents(stream))
      BY <1>3, <1>5
    <3>. QED  BY <2>1, <3>1, Section
  <2>3. \A k \in 1 .. m : x[k] = Sample(stream, k - 1)
    <3>1. \A k \in 1 .. m : 0 + k = k /\ k \in 1 .. n /\ k - 1 < m
      BY <1>3, <1>5
    <3>. QED  BY <1>3, <2>2, <3>1 DEF Value
  <2>4. x = [k \in 1 .. m |-> x[k]]
    BY <2>2
  <2>. QED  BY <2>1, <2>3, <2>4
<1>7. ASSUME NEW k \in m + 1 .. n PROVE flushed /\ e[k] = Silence
  <2>1. k \in 1 .. n /\ ~ (k - 1 < m) /\ n > m
    BY <1>3, <1>5
  <2>. QED  BY <1>1, <1>3, <1>4, <2>1 DEF Value
<1>8. flushed => Resample(stream, total) = SubSeq(e, 1, m)
  <2>1. ASSUME flushed PROVE Resample(stream, total) = Stretch(stream, 0, m)
    BY <1>1, <1>2, <2>1, ResampleIs
  <2>2. Stretch(stream, 0, m) = [k \in 1 .. m |-> Sample(stream, k - 1)]
    <3>1. \A k \in 1 .. m : 0 + k - 1 = k - 1
      OBVIOUS
    <3>. QED  BY <3>1 DEF Stretch
  <2>. QED  BY <1>6, <2>1, <2>2
<1>9. ~flushed => Sample(stream, m)[2] >= total
  <2>1. Sample(stream, m)[2] = Centre(stream, m) + HalfTaps(stream)
    BY DEF Sample, Centre
  <2>. QED  BY <1>2, <2>1 DEF Fed, Exhausted
<1>10. \E kept \in 0 .. n :
        /\ SubSeq(e, 1, kept) = [k \in 1 .. kept |-> Sample(stream, k - 1)]
        /\ \A k \in kept + 1 .. n : flushed /\ e[k] = Silence
        /\ IF flushed THEN Resample(stream, total) = SubSeq(e, 1, kept)
           ELSE Sample(stream, kept)[2] >= total
  BY <1>5, <1>6, <1>7, <1>8, <1>9, Zenon
<1>. QED  BY <1>3, <1>10, Zenon DEF SignalKept

\* The invariant dates every frame.
LEMMA DatedFrames ==
    ASSUME AudioInv
    PROVE  FramesDated
<1>1. PICK m \in Nat : Sliced(stream, frames, m)
  BY Zenon DEF AudioInv, Onward, Finished
<1>2. ASSUME NEW k \in DOMAIN frames
      PROVE  /\ Len(frames[k].samples) = FrameSamples /\ frames[k].sequence = k - 1
             /\ frames[k].capturedAt - (k - 1) * FrameTime(stream) \in Late(stream)
  <2>1. k \in 1 .. Len(frames)
    BY <1>1, <1>2 DEF Sliced
  <2>2. Nth(stream, m, frames[k], k)
    BY <1>1, <2>1 DEF Sliced
  <2>. QED  BY <2>2, Zenon DEF Nth
<1>. QED  BY <1>2, Zenon DEF FramesDated, Late

\* See SignalKept: for all rates, widths and channels, however the payloads cut the
\* stream, the frames hold the resampled signal, as a one-shot resample() gives it.
THEOREM SignalIsKept == AudioSpec => []SignalKept
  BY AudioInvariant, KeptSignal, PTL

\* See FramesDated: frames of any size, full, numbered and dated within a payload
\* and half a kernel of their first sample.
THEOREM FramesAreDated == AudioSpec => []FramesDated
  BY AudioInvariant, DatedFrames, PTL
==============================================================================
