---------------------------- MODULE MCWorkerPool ----------------------------
(* TLC instances of WorkerPool: two sessions, urgent and ordinary work. *)
EXTENDS WorkerPool

CONSTANTS s1, s2

\* The second item is more urgent than the first, the third belongs to the
\* session of the first, the fourth ties with it.
MCSessionOf == [i \in Items |-> IF i \in {2, 4} THEN s2 ELSE s1]
MCPriorityOf == [i \in Items |-> IF i = 2 THEN 10 ELSE 100]

=============================================================================
