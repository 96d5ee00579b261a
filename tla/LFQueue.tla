------------------------------ MODULE LFQueue ------------------------------
(***************************************************************************)
(* The lock-free queue of include/nvm0lfqueue.h: a ring of `capacity'      *)
(* elements through which every inode and volume index of the burst buffer *)
(* travels.  An operation claims a ticket with one fetch_add and then      *)
(* spins on the element the ticket falls on:                               *)
(*                                                                         *)
(*   c_counts[i]  the enqueue ticket that may fill element i next;         *)
(*   p_counts[i]  the ticket of the value that element i holds or held.    *)
(*                                                                         *)
(* One action is one access to shared memory, so the threads of the model  *)
(* interleave wherever the threads of the program can.  All the counters   *)
(* are sequentially consistent atomics; is_closed is a plain bool that     *)
(* only ever goes from false to true.                                      *)
(***************************************************************************)
EXTENDS Integers, Sequences

CONSTANTS Producers,    \* the threads that call enqueue,
          Consumers,    \* dequeue
          Observers,    \* and get_size; one thread may do all three
          Values,       \* what they enqueue
          Zero,         \* the `return 0' of a dequeue that met is_closed
          Capacity,     \* number of elements of the ring
          MaxTicket     \* bound: the last ticket an operation may claim

ASSUME CapacityAssumption == Capacity \in Nat \ {0}

ASSUME MaxTicketAssumption == MaxTicket \in Nat

ASSUME ZeroAssumption == Zero \in Values

VARIABLES
    p_count,    \* last ticket claimed by an enqueue
    c_count,    \* last ticket claimed by a dequeue
    values,     \* the elements
    p_counts,
    c_counts,
    is_closed,
    pc,         \* where each thread is in its operation
    ticket,     \* the operation's local p_count or c_count
    val,        \* the argument of the thread's enqueue
    ret,        \* what the thread's last dequeue read or returned
    size,       \* the thread's local pc, then what get_size returned
    log         \* ghost: the enqueued values in the order of their tickets

Threads == Producers \cup Consumers \cup Observers

queue == <<p_count, c_count, values, p_counts, c_counts, is_closed>>
locals == <<pc, ticket, val, ret, size>>
vars == <<p_count, c_count, values, p_counts, c_counts, is_closed,
          pc, ticket, val, ret, size, log>>

Slots == 0 .. Capacity - 1

\* The element a ticket falls on.
Slot(n) == n % Capacity

EnqSteps == {"enq_wait", "enq_closed", "enq_store", "enq_publish"}
DeqSteps == {"deq_wait", "deq_closed", "deq_read", "deq_release"}

\* The enqueued value that ticket n stands for: the first ticket is Capacity.
Enqueued(n) == log[n - Capacity + 1]

(***************************************************************************)
(* lfqueue(capacity)                                                       *)
(***************************************************************************)
Init ==
    /\ p_count = Capacity - 1
    /\ c_count = Capacity - 1
    /\ values \in [Slots -> Values]         \* new T[capacity] is not zeroed
    /\ c_counts = [i \in Slots |-> i + Capacity]
    /\ p_counts = [i \in Slots |-> i]
    /\ is_closed = FALSE
    /\ pc = [t \in Threads |-> "idle"]
    /\ ticket = [t \in Threads |-> 0]
    /\ val = [t \in Threads |-> Zero]
    /\ ret = [t \in Threads |-> Zero]
    /\ size = [t \in Threads |-> 0]
    /\ log = <<>>

Goto(t, from, to) == pc[t] = from /\ pc' = [pc EXCEPT ![t] = to]

\* The operation returns: its ticket and its argument go out of scope.
Return(t, from) ==
    /\ Goto(t, from, "idle")
    /\ ticket' = [ticket EXCEPT ![t] = 0]
    /\ val' = [val EXCEPT ![t] = Zero]

(***************************************************************************)
(* enqueue(value)                                                          *)
(***************************************************************************)
EnqTicket(t, v) ==
    /\ Goto(t, "idle", "enq_wait")
    /\ p_count < MaxTicket
    /\ p_count' = p_count + 1
    /\ ticket' = [ticket EXCEPT ![t] = p_count + 1]
    /\ val' = [val EXCEPT ![t] = v]
    /\ log' = Append(log, v)
    /\ UNCHANGED <<c_count, values, p_counts, c_counts, is_closed, ret, size>>

\* A plausible bug: the producer does not wait for its turn.
EnqSpin_NoWait(t) ==
    /\ Goto(t, "enq_wait", "enq_store")
    /\ UNCHANGED <<queue, ticket, val, ret, size, log>>

EnqSpin(t) ==
    /\ Goto(t, "enq_wait",
            IF ticket[t] = c_counts[Slot(ticket[t])] THEN "enq_store" ELSE "enq_closed")
    /\ UNCHANGED <<queue, ticket, val, ret, size, log>>

EnqRetry(t) ==
    /\ ~ is_closed
    /\ Goto(t, "enq_closed", "enq_wait")
    /\ UNCHANGED <<queue, ticket, val, ret, size, log>>

EnqGiveUp(t) ==
    /\ is_closed
    /\ Return(t, "enq_closed")
    /\ UNCHANGED <<queue, ret, size, log>>

EnqStore(t) ==
    /\ Goto(t, "enq_store", "enq_publish")
    /\ values' = [values EXCEPT ![Slot(ticket[t])] = val[t]]
    /\ UNCHANGED <<p_count, c_count, p_counts, c_counts, is_closed, ticket, val, ret,
                   size, log>>

EnqPublish(t) ==
    /\ Return(t, "enq_publish")
    /\ p_counts' = [p_counts EXCEPT ![Slot(ticket[t])] = ticket[t]]
    /\ UNCHANGED <<p_count, c_count, values, c_counts, is_closed, ret, size, log>>

(***************************************************************************)
(* dequeue()                                                               *)
(***************************************************************************)
DeqTicket(t) ==
    /\ Goto(t, "idle", "deq_wait")
    /\ c_count < MaxTicket
    /\ c_count' = c_count + 1
    /\ ticket' = [ticket EXCEPT ![t] = c_count + 1]
    /\ UNCHANGED <<p_count, values, p_counts, c_counts, is_closed, val, ret, size, log>>

\* A plausible bug: the consumer does not wait for its value.
DeqSpin_NoWait(t) ==
    /\ Goto(t, "deq_wait", "deq_read")
    /\ UNCHANGED <<queue, ticket, val, ret, size, log>>

DeqSpin(t) ==
    /\ Goto(t, "deq_wait",
            IF ticket[t] = p_counts[Slot(ticket[t])] THEN "deq_read" ELSE "deq_closed")
    /\ UNCHANGED <<queue, ticket, val, ret, size, log>>

DeqRetry(t) ==
    /\ ~ is_closed
    /\ Goto(t, "deq_closed", "deq_wait")
    /\ UNCHANGED <<queue, ticket, val, ret, size, log>>

\* A plausible bug: a consumer that met is_closed goes on waiting.
DeqGiveUp_Waits(t) ==
    /\ is_closed
    /\ Goto(t, "deq_closed", "deq_wait")
    /\ UNCHANGED <<queue, ticket, val, ret, size, log>>

DeqGiveUp(t) ==
    /\ is_closed
    /\ Return(t, "deq_closed")
    /\ ret' = [ret EXCEPT ![t] = Zero]
    /\ UNCHANGED <<queue, size, log>>

DeqRead(t) ==
    /\ Goto(t, "deq_read", "deq_release")
    /\ ret' = [ret EXCEPT ![t] = values[Slot(ticket[t])]]
    /\ UNCHANGED <<queue, ticket, val, size, log>>

\* A plausible bug: the element is released for the ticket after the right one.
DeqRelease_OffByOne(t) ==
    /\ Return(t, "deq_release")
    /\ c_counts' = [c_counts EXCEPT ![Slot(ticket[t])] = ticket[t] + Capacity + 1]
    /\ UNCHANGED <<p_count, c_count, values, p_counts, is_closed, ret, size, log>>

DeqRelease(t) ==
    /\ Return(t, "deq_release")
    /\ c_counts' = [c_counts EXCEPT ![Slot(ticket[t])] = ticket[t] + Capacity]
    /\ UNCHANGED <<p_count, c_count, values, p_counts, is_closed, ret, size, log>>

(***************************************************************************)
(* get_size(): p_count is loaded first, c_count after it.                  *)
(***************************************************************************)
\* A plausible bug: the counter is taken for the next ticket.
GetSizeP_OffByOne(t) ==
    /\ Goto(t, "idle", "size_c")
    /\ size' = [size EXCEPT ![t] = p_count + 1]
    /\ UNCHANGED <<queue, ticket, val, ret, log>>

GetSizeP(t) ==
    /\ Goto(t, "idle", "size_c")
    /\ size' = [size EXCEPT ![t] = p_count]
    /\ UNCHANGED <<queue, ticket, val, ret, log>>

\* A plausible bug: the difference is not masked when it is negative.
GetSizeC_NoMask(t) ==
    /\ Goto(t, "size_c", "idle")
    /\ size' = [size EXCEPT ![t] = @ - c_count]
    /\ UNCHANGED <<queue, ticket, val, ret, log>>

GetSizeC(t) ==
    /\ Goto(t, "size_c", "idle")
    /\ size' = [size EXCEPT ![t] = IF @ >= c_count THEN @ - c_count ELSE 0]
    /\ UNCHANGED <<queue, ticket, val, ret, log>>

(***************************************************************************)
(* close()                                                                 *)
(***************************************************************************)
Close ==
    /\ ~ is_closed
    /\ is_closed' = TRUE
    /\ UNCHANGED <<p_count, c_count, values, p_counts, c_counts, locals, log>>

(***************************************************************************)
(* A thread that has claimed a ticket, or loaded one counter, goes on.     *)
(***************************************************************************)
Continue(t) ==
    \/ EnqSpin(t) \/ EnqRetry(t) \/ EnqGiveUp(t) \/ EnqStore(t) \/ EnqPublish(t)
    \/ DeqSpin(t) \/ DeqRetry(t) \/ DeqGiveUp(t) \/ DeqRead(t) \/ DeqRelease(t)
    \/ GetSizeC(t)

Begin(t) ==
    \/ t \in Producers /\ \E v \in Values : EnqTicket(t, v)
    \/ t \in Consumers /\ DeqTicket(t)
    \/ t \in Observers /\ GetSizeP(t)

Next ==
    \/ \E t \in Threads : Begin(t) \/ Continue(t)
    \/ Close

Spec == Init /\ [][Next]_vars

(***************************************************************************)
(* The scheduler never stops a thread for ever, and a thread never leaves  *)
(* an operation in the middle.  Nothing makes a thread begin one.          *)
(***************************************************************************)
FairSpec == Spec /\ \A t \in Threads : WF_vars(Continue(t))
-----------------------------------------------------------------------------
(***************************************************************************)
(* Properties                                                              *)
(***************************************************************************)

\* Every variable keeps its type; the ghost log has one entry for every
\* ticket that an enqueue claimed.
TypeOK ==
    /\ p_count \in Nat
    /\ c_count \in Nat
    /\ values \in [Slots -> Values]
    /\ p_counts \in [Slots -> Nat]
    /\ c_counts \in [Slots -> Nat]
    /\ is_closed \in BOOLEAN
    /\ pc \in [Threads -> {"idle", "size_c"} \cup EnqSteps \cup DeqSteps]
    /\ ticket \in [Threads -> Nat]
    /\ val \in [Threads -> Values]
    /\ ret \in [Threads -> Values]
    /\ size \in [Threads -> Nat]
    /\ log \in Seq(Values)
    /\ p_count = Len(log) + Capacity - 1
    /\ c_count >= Capacity - 1

\* A thread that has passed its spin loop and not yet published or released
\* its element owns it.
Owns(t, i) ==
    /\ pc[t] \in {"enq_store", "enq_publish", "deq_read", "deq_release"}
    /\ Slot(ticket[t]) = i

\* No two threads are ever at the unsynchronised accesses to values[i]
\* (nvm0lfqueue.h lines 74 and 91) of the same element: the tickets make the
\* plain loads and stores of the values free of races.
NoSlotRace ==
    \A s, t \in Threads : \A i \in Slots :
        Owns(s, i) /\ Owns(t, i) => s = t

\* A dequeue that read an element returns the value that was enqueued with
\* the very same ticket: nothing is lost, duplicated, reordered or torn by
\* the ring wrapping around.
DequeuesItsTicket ==
    \A t \in Threads :
        pc[t] = "deq_release" =>
            /\ ticket[t] <= p_count
            /\ ret[t] = Enqueued(ticket[t])

\* get_size never promises more than the queue holds when it returns: the
\* flusher and the syncer dequeue that many without being stranded, because
\* p_count is loaded before c_count (lines 98-99).
SizeNeverOverstates ==
    [][\A t \in Threads :
          pc[t] = "size_c" /\ pc'[t] = "idle" =>
              size'[t] = 0 \/ size'[t] <= p_count' - c_count']_vars

\* A dequeue whose ticket an enqueue has claimed, and an enqueue whose
\* predecessor on the same element a dequeue has claimed, come to an end:
\* no ticket is ever stranded while its partner exists.
ClaimedPairsFinish ==
    \A t \in Threads :
        /\ (pc[t] \in DeqSteps /\ ticket[t] <= p_count) ~> pc[t] = "idle"
        /\ (pc[t] \in EnqSteps /\ ticket[t] <= c_count + Capacity) ~> pc[t] = "idle"

\* After close() every spinning thread gets out (lines 68-70 and 85-87).
CloseReleases == \A t \in Threads : is_closed ~> pc[t] = "idle"
=============================================================================
