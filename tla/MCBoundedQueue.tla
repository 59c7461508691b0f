--------------------------- MODULE MCBoundedQueue ---------------------------
(* TLC instances of BoundedQueue; the cfg file chooses policies and bounds. *)
EXTENDS BoundedQueue

\* Two bands of the priority queue; with every entry in one of them it is the
\* FIFO queue.
TwoBands == {0, 1}

=============================================================================
