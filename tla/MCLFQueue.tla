----------------------------- MODULE MCLFQueue -----------------------------
(***************************************************************************)
(* LFQueue for TLC, and the mapping under which it implements FIFO.        *)
(***************************************************************************)
EXTENDS LFQueueRefinement

CONSTANTS writer,       \* only enqueues
          flusher,      \* dequeues, and enqueues again what it could not lock
          syncer        \* asks for the size and dequeues
=============================================================================
