------------------------------ MODULE AudioRing ------------------------------
(***************************************************************************)
(* AudioRingBuffer of audio/buffer.py: a preallocated array of samples     *)
(* with a head and a size, which a write that does not fit overruns.       *)
(*                                                                         *)
(* A sample is its place in everything ever written, counted from 1, so    *)
(* what a read returns tells which samples were kept and in which order.   *)
(***************************************************************************)
EXTENDS Integers, Sequences

CONSTANTS RingCapacity,  \* _capacity
          MaxWritten,    \* bound on the samples written in one behaviour
          MaxBlock       \* bound on the samples of one write

ASSUME RingAssumption == /\ RingCapacity \in Nat \ {0}
                         /\ MaxWritten \in Nat
                         /\ MaxBlock \in Nat

VARIABLES data,            \* _data
          head,            \* _head
          size,            \* _size
          droppedSamples,  \* _dropped
          written,         \* history: samples written so far
          consumed         \* history: samples read, dropped or cleared

ringVars == <<data, head, size, droppedSamples, written, consumed>>

Cells == 0 .. RingCapacity - 1
Lesser(a, b) == IF a < b THEN a ELSE b

RingInit ==
    /\ data = [c \in Cells |-> 0]
    /\ head = 0 /\ size = 0
    /\ droppedSamples = 0
    /\ written = 0 /\ consumed = 0

\* The cells from .. upto - 1 in order: a numpy slice.
Slice(from, upto) == [k \in 1 .. upto - from |-> data[from + k - 1]]

\* take samples from a cell on, in one slice or in two around the end.
Copy(start, take) ==
    LET first == Lesser(take, RingCapacity - start)
    IN IF first = take THEN Slice(start, start + take)
       ELSE Slice(start, RingCapacity) \o Slice(0, take - first)

Peek(count) == Copy(head, Lesser(count, size))

TailCopy(count) ==
    LET take == Lesser(count, size)
    IN Copy((head + size - take) % RingCapacity, take)

-----------------------------------------------------------------------------

\* Seeded bug: a write larger than the buffer leaves the head where it was.
Bug_OverrunKeepsHead(count) ==
    /\ count >= RingCapacity
    /\ droppedSamples' = droppedSamples + size + (count - RingCapacity)
    /\ data' = [c \in Cells |-> written + count - RingCapacity + c + 1]
    /\ size' = RingCapacity
    /\ UNCHANGED head

\* A write as large as the buffer or larger keeps its own newest samples.
WriteOverrun(count) ==
    /\ count >= RingCapacity
    /\ LET evicted == size + (count - RingCapacity)
       IN droppedSamples' = droppedSamples + evicted
    /\ data' = [c \in Cells |-> written + count - RingCapacity + c + 1]
    /\ head' = 0
    /\ size' = RingCapacity

\* Any other write evicts the oldest samples that are in its way, and goes
\* after the newest, around the end where it must.
WriteFitting(count) ==
    LET evicted == IF count > RingCapacity - size
                   THEN count - (RingCapacity - size) ELSE 0
        start   == (head + size) % RingCapacity
        first   == Lesser(count, RingCapacity - start)
    IN /\ count < RingCapacity
       /\ head' = (head + evicted) % RingCapacity
       /\ size' = size - evicted + count
       /\ droppedSamples' = droppedSamples + evicted
       /\ data' = [c \in Cells |->
                     IF c \in start .. start + first - 1
                     THEN written + (c - start) + 1
                     ELSE IF c < count - first THEN written + first + c + 1
                     ELSE data[c]]

Write(count) ==
    /\ written + count <= MaxWritten
    /\ WriteOverrun(count) \/ WriteFitting(count)
    /\ written' = written + count
    /\ UNCHANGED consumed

\* drop(); read() is a peek() and a drop() of what it returned.
Drop(count) ==
    LET take == Lesser(count, size)
    IN /\ head' = (head + take) % RingCapacity
       /\ size' = size - take
       /\ consumed' = consumed + take
       /\ UNCHANGED <<data, droppedSamples, written>>

Clear ==
    /\ head' = 0 /\ size' = 0
    /\ consumed' = consumed + size
    /\ UNCHANGED <<data, droppedSamples, written>>

RingNext == \/ \E count \in 1 .. MaxBlock : Write(count)
            \/ \E count \in 1 .. RingCapacity : Drop(count)
            \/ Clear

RingSpec == RingInit /\ [][RingNext]_ringVars

-----------------------------------------------------------------------------

\* The newest count samples written, oldest first.
Newest(count) == [k \in 1 .. count |-> written - count + k]

\* The buffer is the newest part of the stream: what peek() and tail() copy
\* is in order and without gaps whatever wrapped around, every sample is
\* held, consumed or counted as dropped, and none is dropped while there is
\* room for it (buffer.py: "drop-oldest overflow").
RingKeepsNewest ==
    /\ [](/\ size = written - consumed - droppedSamples
          /\ \A count \in 0 .. RingCapacity :
                /\ TailCopy(count) = Newest(Lesser(count, size))
                /\ Peek(count) = SubSeq(Newest(size), 1, Lesser(count, size)))
    /\ [][droppedSamples' # droppedSamples => size' = RingCapacity]_ringVars
==============================================================================
