------------------------- MODULE LFQueueRefinement -------------------------
(***************************************************************************)
(* The lock-free queue implements FIFO.  An enqueue takes effect when it   *)
(* claims its ticket, a dequeue claims its place with its ticket and is    *)
(* answered when it reads its element.                                     *)
(***************************************************************************)
EXTENDS LFQueue

\* The place in the line of a dequeue that has not read its element yet.
Place(t) ==
    IF pc[t] \in {"deq_wait", "deq_closed", "deq_read"}
    THEN ticket[t] - Capacity + 1
    ELSE 0

F == INSTANCE FIFO WITH
        line <- log,
        taken <- c_count - Capacity + 1,
        place <- [t \in Threads |-> Place(t)],
        answer <- ret,
        closed <- is_closed

\* Every behaviour of the ring, its tickets and its spin loops (nvm0lfqueue.h
\* lines 61-94) is a behaviour of the FIFO queue its users rely on.
ImplementsFIFO == F!Spec
=============================================================================
