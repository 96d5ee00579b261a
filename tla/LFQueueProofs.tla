--------------------------- MODULE LFQueueProofs ---------------------------
(***************************************************************************)
(* Proofs about the lock-free queue, for every set of threads, every       *)
(* capacity and every bound on the tickets.                                *)
(*                                                                         *)
(* The safety properties are not inductive: why no two threads are on one  *)
(* element depends on what the two counters of the element say and on the  *)
(* tickets being claimed once.  RingInv states that.                       *)
(***************************************************************************)
EXTENDS LFQueueRefinement, TLAPS

Enqueuing(t) == pc[t] \in EnqSteps
Dequeuing(t) == pc[t] \in DeqSteps

\* Element i waits for a producer, or holds a value for a consumer.
Empty(i) == p_counts[i] = c_counts[i] - Capacity
Full(i) == p_counts[i] = c_counts[i]

\* Tickets are claimed once, and never exceed the counter they came from.
Tickets ==
    /\ \A t \in Threads :
          /\ Enqueuing(t) => ticket[t] \in Capacity .. p_count
          /\ Dequeuing(t) => ticket[t] \in Capacity .. c_count
    /\ \A s, t \in Threads :
          /\ Enqueuing(s) /\ Enqueuing(t) /\ ticket[s] = ticket[t] => s = t
          /\ Dequeuing(s) /\ Dequeuing(t) /\ ticket[s] = ticket[t] => s = t

\* The ticket in p_counts[i] was claimed; its enqueue is over once the
\* element is full, and its dequeue once the element is empty again.
ElementOK(i) ==
    /\ Empty(i) \/ Full(i)
    /\ Empty(i) => /\ p_counts[i] <= c_count
                   /\ \A t \in Threads : Dequeuing(t) => ticket[t] # p_counts[i]
    /\ Full(i) => /\ p_counts[i] \in Capacity .. p_count
                  /\ \A t \in Threads : Enqueuing(t) => ticket[t] # p_counts[i]
                  /\ values[i] = Enqueued(p_counts[i])

Elements == \A i \in Slots : ElementOK(i)

\* A thread past its spin loop still sees the element as it left the loop.
OwnerOK(t) ==
    /\ Enqueuing(t) => val[t] = Enqueued(ticket[t])
    /\ pc[t] \in {"enq_store", "enq_publish"} =>
          /\ Empty(Slot(ticket[t]))
          /\ c_counts[Slot(ticket[t])] = ticket[t]
    /\ pc[t] = "enq_publish" => values[Slot(ticket[t])] = val[t]
    /\ pc[t] \in {"deq_read", "deq_release"} =>
          /\ Full(Slot(ticket[t]))
          /\ c_counts[Slot(ticket[t])] = ticket[t]
    /\ pc[t] = "deq_release" => ret[t] = Enqueued(ticket[t])

Owners == \A t \in Threads : OwnerOK(t)

RingInv == TypeOK /\ Tickets /\ Elements /\ Owners
-----------------------------------------------------------------------------
USE CapacityAssumption, MaxTicketAssumption, ZeroAssumption

\* Every ticket falls on an element of the ring (the `% capacity' of lines
\* 67-92).
LEMMA SlotInRing ==
    \A n \in Nat : Slot(n) \in Slots
BY DEF Slot, Slots

\* Initially the invariant holds: every element is empty.
LEMMA InitRingInv == Init => RingInv
<1> SUFFICES ASSUME Init PROVE RingInv
  OBVIOUS
<1> USE DEF Init
<1>1. TypeOK
  <2>1. p_counts \in [Slots -> Nat] /\ c_counts \in [Slots -> Nat]
    BY DEF Slots
  <2>2. log \in Seq(Values) /\ Len(log) = 0
    OBVIOUS
  <2>3. is_closed \in BOOLEAN
    BY Zenon
  <2>4. /\ pc \in [Threads -> {"idle", "size_c"} \cup EnqSteps \cup DeqSteps]
        /\ ticket \in [Threads -> Nat] /\ size \in [Threads -> Nat]
        /\ val \in [Threads -> Values] /\ ret \in [Threads -> Values]
    OBVIOUS
  <2>5. p_count \in Nat /\ c_count \in Nat /\ c_count >= Capacity - 1
    OBVIOUS
  <2>6. QED
    BY <2>1, <2>2, <2>3, <2>4, <2>5 DEF TypeOK
<1>2. Tickets
  BY DEF Tickets, Enqueuing, Dequeuing, EnqSteps, DeqSteps
<1>3. Elements
  BY DEF Elements, ElementOK, Empty, Full, Dequeuing, Enqueuing, DeqSteps, EnqSteps, Slots
<1>4. Owners
  BY DEF Owners, OwnerOK, Enqueuing, EnqSteps
<1>5. QED
  BY <1>1, <1>2, <1>3, <1>4 DEF RingInv

(***************************************************************************)
(* The two exits of the is_closed test, without the test: what the steps   *)
(* do to the state does not depend on it.                                  *)
(***************************************************************************)
LEMMA ClosedChecks ==
    \A t \in Threads :
        /\ EnqRetry(t) => /\ Goto(t, "enq_closed", "enq_wait")
                          /\ UNCHANGED <<queue, ticket, val, ret, size, log>>
        /\ DeqRetry(t) => /\ Goto(t, "deq_closed", "deq_wait")
                          /\ UNCHANGED <<queue, ticket, val, ret, size, log>>
        /\ EnqGiveUp(t) => /\ Return(t, "enq_closed")
                           /\ UNCHANGED <<queue, ret, size, log>>
        /\ DeqGiveUp(t) => /\ Return(t, "deq_closed")
                           /\ ret' = [ret EXCEPT ![t] = Zero]
                           /\ UNCHANGED <<queue, size, log>>
BY Zenon DEF EnqRetry, DeqRetry, EnqGiveUp, DeqGiveUp

(***************************************************************************)
(* Type correctness needs the range of the slots and nothing else.         *)
(***************************************************************************)
LEMMA TypeStep == TypeOK /\ [Next]_vars => TypeOK'
<1> SUFFICES ASSUME TypeOK, [Next]_vars PROVE TypeOK'
  OBVIOUS
<1> USE DEF TypeOK, EnqSteps, DeqSteps
<1>1. ASSUME NEW t \in Threads, NEW v \in Values, EnqTicket(t, v) PROVE TypeOK'
  BY <1>1 DEF EnqTicket, Goto
<1>2. ASSUME NEW t \in Threads, EnqSpin(t) PROVE TypeOK'
  BY <1>2 DEF EnqSpin, Goto, queue
<1>3. ASSUME NEW t \in Threads, EnqRetry(t) PROVE TypeOK'
  BY <1>3, ClosedChecks DEF Goto, queue
<1>4. ASSUME NEW t \in Threads, EnqGiveUp(t) PROVE TypeOK'
  <2>1. Return(t, "enq_closed") /\ UNCHANGED <<queue, ret, size, log>>
    BY <1>4, ClosedChecks, Zenon
  <2>2. QED
    BY <2>1 DEF Return, Goto, queue
<1>5. ASSUME NEW t \in Threads, EnqStore(t) PROVE TypeOK'
  BY <1>5, SlotInRing DEF EnqStore, Goto
<1>6. ASSUME NEW t \in Threads, EnqPublish(t) PROVE TypeOK'
  BY <1>6, SlotInRing DEF EnqPublish, Return, Goto
<1>7. ASSUME NEW t \in Threads, DeqTicket(t) PROVE TypeOK'
  BY <1>7 DEF DeqTicket, Goto
<1>8. ASSUME NEW t \in Threads, DeqSpin(t) PROVE TypeOK'
  BY <1>8 DEF DeqSpin, Goto, queue
<1>9. ASSUME NEW t \in Threads, DeqRetry(t) PROVE TypeOK'
  BY <1>9, ClosedChecks DEF Goto, queue
<1>10. ASSUME NEW t \in Threads, DeqGiveUp(t) PROVE TypeOK'
  <2>1. /\ Return(t, "deq_closed")
        /\ ret' = [ret EXCEPT ![t] = Zero]
        /\ UNCHANGED <<queue, size, log>>
    BY <1>10, ClosedChecks, Zenon
  <2>2. QED
    BY <2>1 DEF Return, Goto, queue
<1>11. ASSUME NEW t \in Threads, DeqRead(t) PROVE TypeOK'
  BY <1>11, SlotInRing DEF DeqRead, Goto, queue
<1>12. ASSUME NEW t \in Threads, DeqRelease(t) PROVE TypeOK'
  <2>1. ticket[t] \in Nat /\ Capacity \in Nat
    OBVIOUS
  <2>2. ticket[t] + Capacity \in Nat
    BY <2>1
  <2>3. QED
    BY <1>12, <2>1, <2>2, SlotInRing DEF DeqRelease, Return, Goto
<1>13. ASSUME NEW t \in Threads, GetSizeP(t) PROVE TypeOK'
  BY <1>13 DEF GetSizeP, Goto, queue
<1>14. ASSUME NEW t \in Threads, GetSizeC(t) PROVE TypeOK'
  BY <1>14 DEF GetSizeC, Goto, queue
<1>15. CASE Close
  BY <1>15 DEF Close, locals
<1>16. CASE UNCHANGED vars
  BY <1>16 DEF vars
<1>17. QED
  BY <1>1, <1>2, <1>3, <1>4, <1>5, <1>6, <1>7, <1>8, <1>9, <1>10, <1>11, <1>12,
     <1>13, <1>14, <1>15, <1>16 DEF Next, Begin, Continue

\* Every variable of the queue keeps its type, for every capacity.
THEOREM TypeCorrect == Spec => []TypeOK
<1>1. Init => TypeOK
  BY InitRingInv DEF RingInv
<1>2. QED
  BY <1>1, TypeStep, PTL DEF Spec

(***************************************************************************)
(* The ring invariant is inductive: one step per action, and under it what *)
(* the step does to the program counters, then one step per conjunct.      *)
(***************************************************************************)
LEMMA RingStep == RingInv /\ [Next]_vars => RingInv'
<1> SUFFICES ASSUME RingInv, [Next]_vars PROVE RingInv'
  OBVIOUS
<1> USE DEF RingInv
<1>a. TypeOK /\ TypeOK'
  BY TypeStep
<1>b. /\ \A i \in Slots : p_counts[i] \in Nat /\ c_counts[i] \in Nat
      /\ \A s \in Threads : ticket[s] \in Nat
      /\ p_count \in Nat /\ c_count \in Nat /\ c_count >= Capacity - 1 /\ p_count >= Capacity - 1
      /\ Capacity \in Nat /\ Capacity > 0
  BY <1>a DEF TypeOK
<1>c. \A s \in Threads : Slot(ticket[s]) \in Slots
  BY <1>b, SlotInRing
<1> USE <1>b
<1>1. ASSUME NEW t \in Threads, NEW v \in Values, EnqTicket(t, v) PROVE RingInv'
  <2>1. /\ pc[t] = "idle" /\ pc'[t] = "enq_wait"
        /\ ticket'[t] = p_count + 1 /\ val'[t] = v
        /\ \A s \in Threads \ {t} : /\ pc'[s] = pc[s] /\ ticket'[s] = ticket[s]
                                     /\ val'[s] = val[s]
        /\ p_count' = p_count + 1
        /\ UNCHANGED <<c_count, values, p_counts, c_counts, ret>>
    BY <1>a, <1>1 DEF EnqTicket, Goto, TypeOK
  <2>2. /\ Enqueuing(t)' /\ ~ Dequeuing(t)'
        /\ \A s \in Threads \ {t} :
              (Enqueuing(s)' <=> Enqueuing(s)) /\ (Dequeuing(s)' <=> Dequeuing(s))
    BY <2>1 DEF EnqSteps, DeqSteps, Enqueuing, Dequeuing
  <2>3. /\ \A n \in Capacity .. p_count : log'[n - Capacity + 1] = log[n - Capacity + 1]
        /\ log'[p_count + 1 - Capacity + 1] = v
    BY <1>a, <1>1 DEF EnqTicket, TypeOK
  <2>4. Tickets'
    BY <2>1, <2>2 DEF Tickets
  <2>5. ASSUME NEW i \in Slots PROVE ElementOK(i)'
    <3>1. Full(i) => log'[p_counts[i] - Capacity + 1] = log[p_counts[i] - Capacity + 1]
      BY <2>3 DEF Elements, ElementOK
    <3>2. QED
      BY <2>1, <2>2, <3>1 DEF Elements, ElementOK, Empty, Full, Enqueued
  <2>6. ASSUME NEW s \in Threads PROVE OwnerOK(s)'
    <3>1. CASE s = t
      BY <2>1, <2>2, <2>3, <3>1 DEF OwnerOK, Enqueued
    <3>2. CASE s # t
      <4>1. Enqueuing(s) \/ pc[s] = "deq_release" => ticket[s] \in Capacity .. p_count
        BY <1>c DEF Tickets, Owners, OwnerOK, Elements, ElementOK, Full
      <4>2. QED
        BY <2>1, <2>2, <2>3, <3>2, <4>1 DEF Owners, OwnerOK, Empty, Full, Enqueued
    <3>3. QED
      BY <3>1, <3>2
  <2>7. QED
    BY <1>a, <2>4, <2>5, <2>6 DEF Elements, Owners
<1>2. ASSUME NEW t \in Threads, EnqSpin(t) PROVE RingInv'
  <2>1. /\ \A s \in Threads \ {t} : pc'[s] = pc[s]
        /\ pc[t] = "enq_wait"
        /\ \/ pc'[t] = "enq_store" /\ ticket[t] = c_counts[Slot(ticket[t])]
           \/ pc'[t] = "enq_closed"
    BY <1>a, <1>2 DEF EnqSpin, Goto, TypeOK
  <2>2. UNCHANGED <<queue, ticket, val, ret, log>>
    BY <1>2 DEF EnqSpin
  <2>3. \A s \in Threads : (Enqueuing(s)' <=> Enqueuing(s)) /\ (Dequeuing(s)' <=> Dequeuing(s))
    BY <2>1 DEF EnqSteps, DeqSteps, Enqueuing, Dequeuing
  <2>4. Tickets' /\ Elements'
    BY <2>2, <2>3 DEF Tickets, Elements, ElementOK, queue, Empty, Full, Enqueued
  <2>5. ASSUME NEW s \in Threads PROVE OwnerOK(s)'
    BY <1>c, <2>1, <2>2, <2>3
       DEF Owners, OwnerOK, Elements, ElementOK, queue, Empty, Full, Enqueued, Enqueuing,
           Dequeuing, EnqSteps, DeqSteps
  <2>6. QED
    BY <1>a, <2>4, <2>5 DEF Owners
<1>3. ASSUME NEW t \in Threads, EnqRetry(t) PROVE RingInv'
  <2>1. Goto(t, "enq_closed", "enq_wait") /\ UNCHANGED <<queue, ticket, val, ret, size, log>>
    BY <1>3, ClosedChecks, Zenon
  <2>2. pc[t] = "enq_closed" /\ pc'[t] = "enq_wait" /\ \A s \in Threads \ {t} : pc'[s] = pc[s]
    BY <1>a, <2>1 DEF Goto, TypeOK
  <2>3. \A s \in Threads : (Enqueuing(s)' <=> Enqueuing(s)) /\ (Dequeuing(s)' <=> Dequeuing(s))
    BY <2>2 DEF EnqSteps, DeqSteps, Enqueuing, Dequeuing
  <2>4. Tickets' /\ Elements'
    BY <2>1, <2>3 DEF Tickets, Elements, ElementOK, queue, Empty, Full, Enqueued
  <2>5. Owners'
    BY <2>1, <2>2, <2>3 DEF Owners, OwnerOK, queue, Empty, Full, Enqueued
  <2>6. QED
    BY <1>a, <2>4, <2>5
<1>4. ASSUME NEW t \in Threads, EnqGiveUp(t) PROVE RingInv'
  <2>1. /\ Return(t, "enq_closed")
        /\ UNCHANGED <<queue, ret, size, log>>
    BY <1>4, ClosedChecks, Zenon
  <2>2. /\ pc'[t] = "idle"
        /\ \A s \in Threads \ {t} : /\ pc'[s] = pc[s] /\ ticket'[s] = ticket[s]
                                     /\ val'[s] = val[s] /\ ret'[s] = ret[s]
    BY <1>a, <2>1 DEF Return, Goto, TypeOK
  <2>3. /\ ~ Enqueuing(t)' /\ ~ Dequeuing(t)'
        /\ \A s \in Threads \ {t} :
              (Enqueuing(s)' <=> Enqueuing(s)) /\ (Dequeuing(s)' <=> Dequeuing(s))
    BY <2>2 DEF EnqSteps, DeqSteps, Enqueuing, Dequeuing
  <2>4. Tickets'
    BY <2>1, <2>2, <2>3 DEF Tickets, queue
  <2>5. Elements'
    BY <2>1, <2>2, <2>3 DEF Elements, ElementOK, queue, Empty, Full, Enqueued
  <2>6. Owners'
    BY <2>1, <2>2, <2>3 DEF Owners, OwnerOK, queue, Empty, Full, Enqueued
  <2>7. QED
    BY <1>a, <2>4, <2>5, <2>6
<1>5. ASSUME NEW t \in Threads, EnqStore(t) PROVE RingInv'
  <2> DEFINE k == Slot(ticket[t])
  <2>1. /\ pc[t] = "enq_store" /\ pc'[t] = "enq_publish"
        /\ \A s \in Threads \ {t} : pc'[s] = pc[s]
        /\ UNCHANGED <<p_count, c_count, p_counts, c_counts, ticket, val, ret, log>>
    BY <1>a, <1>5 DEF EnqStore, Goto, TypeOK
  <2>2. \A s \in Threads : (Enqueuing(s)' <=> Enqueuing(s)) /\ (Dequeuing(s)' <=> Dequeuing(s))
    BY <2>1 DEF EnqSteps, DeqSteps, Enqueuing, Dequeuing
  <2>3. values'[k] = val[t] /\ \A i \in Slots \ {k} : values'[i] = values[i]
    BY <1>a, <1>c, <1>5 DEF EnqStore, TypeOK
  <2>4. k \in Slots /\ Empty(k) /\ c_counts[k] = ticket[t] /\ Enqueuing(t)
    BY <1>c, <2>1 DEF Owners, OwnerOK, Enqueuing, EnqSteps
  <2> HIDE DEF k
  <2>5. Tickets'
    BY <2>1, <2>2 DEF Tickets
  <2>6. ASSUME NEW i \in Slots PROVE ElementOK(i)'
    BY <2>1, <2>2, <2>3, <2>4 DEF Elements, ElementOK, Empty, Full, Enqueued
  <2>7. ASSUME NEW s \in Threads PROVE OwnerOK(s)'
    <3>1. CASE s = t
      BY <2>1, <2>2, <2>3, <2>4, <3>1 DEF Owners, OwnerOK, Empty, Enqueued, k
    <3>2. CASE s # t
      <4>1. pc[s] = "enq_publish" => Slot(ticket[s]) # k
        BY <2>4, <3>2 DEF Owners, OwnerOK, Tickets, Enqueuing, EnqSteps
      <4>2. QED
        BY <1>c, <2>1, <2>2, <2>3, <3>2, <4>1 DEF Owners, OwnerOK, Empty, Full, Enqueued
    <3>3. QED
      BY <3>1, <3>2
  <2>8. QED
    BY <1>a, <2>5, <2>6, <2>7 DEF Elements, Owners
<1>6. ASSUME NEW t \in Threads, EnqPublish(t) PROVE RingInv'
  <2> DEFINE k == Slot(ticket[t])
  <2>1. /\ pc[t] = "enq_publish" /\ pc'[t] = "idle"
        /\ \A s \in Threads \ {t} : /\ pc'[s] = pc[s] /\ ticket'[s] = ticket[s]
                                     /\ val'[s] = val[s]
    BY <1>a, <1>6 DEF EnqPublish, Return, Goto, TypeOK
  <2>2. /\ ~ Enqueuing(t)' /\ ~ Dequeuing(t)' /\ Enqueuing(t)
        /\ \A s \in Threads \ {t} :
              (Enqueuing(s)' <=> Enqueuing(s)) /\ (Dequeuing(s)' <=> Dequeuing(s))
    BY <2>1 DEF EnqSteps, DeqSteps, Enqueuing, Dequeuing
  <2>3. /\ p_counts'[k] = ticket[t]
        /\ \A i \in Slots \ {k} : p_counts'[i] = p_counts[i]
        /\ UNCHANGED <<p_count, c_count, values, c_counts, ret, log>>
    BY <1>a, <1>c, <1>6 DEF EnqPublish, TypeOK
  <2>4. /\ k \in Slots
        /\ c_counts[k] = ticket[t]
        /\ ticket[t] \in Capacity .. p_count \/ ticket[t] \in Capacity .. c_count
        /\ Empty(k) /\ values[k] = val[t] /\ val[t] = Enqueued(ticket[t])
    BY <1>c, <2>1, <2>2 DEF Owners, OwnerOK, Tickets
  <2> HIDE DEF k
  <2>5. Tickets'
    BY <2>1, <2>2, <2>3 DEF Tickets
  <2>6. ASSUME NEW i \in Slots PROVE ElementOK(i)'
    <3>1. CASE i = k
      BY <2>1, <2>2, <2>3, <2>4, <3>1 DEF Tickets, ElementOK, Empty, Full, Enqueued
    <3>2. CASE i # k
      BY <2>1, <2>2, <2>3, <3>2 DEF Elements, ElementOK, Empty, Full, Enqueued
    <3>3. QED
      BY <3>1, <3>2
  <2>7. ASSUME NEW s \in Threads PROVE OwnerOK(s)'
    <3>1. CASE s = t
      BY <2>1, <2>2, <3>1 DEF OwnerOK
    <3>2. CASE s # t
      <4>1. pc[s] \in {"enq_store", "enq_publish", "deq_read", "deq_release"} => Slot(ticket[s]) # k
        BY <2>2, <2>4, <3>2 DEF Owners, OwnerOK, Tickets, Empty, Full, EnqSteps, DeqSteps, Enqueuing, Dequeuing
      <4>2. QED
        BY <1>c, <2>1, <2>2, <2>3, <3>2, <4>1 DEF Owners, OwnerOK, Empty, Full, Enqueued
    <3>3. QED
      BY <3>1, <3>2
  <2>8. QED
    BY <1>a, <2>5, <2>6, <2>7 DEF Elements, Owners
<1>7. ASSUME NEW t \in Threads, DeqTicket(t) PROVE RingInv'
  <2>1. /\ pc[t] = "idle" /\ pc'[t] = "deq_wait"
        /\ ticket'[t] = c_count + 1
        /\ \A s \in Threads \ {t} : pc'[s] = pc[s] /\ ticket'[s] = ticket[s]
        /\ c_count' = c_count + 1
        /\ UNCHANGED <<p_count, values, p_counts, c_counts, val, ret, log>>
    BY <1>a, <1>7 DEF DeqTicket, Goto, TypeOK
  <2>2. /\ ~ Enqueuing(t)' /\ Dequeuing(t)'
        /\ \A s \in Threads \ {t} :
              (Enqueuing(s)' <=> Enqueuing(s)) /\ (Dequeuing(s)' <=> Dequeuing(s))
    BY <2>1 DEF EnqSteps, DeqSteps, Enqueuing, Dequeuing
  <2>3. Tickets'
    BY <2>1, <2>2 DEF Tickets
  <2>4. ASSUME NEW i \in Slots PROVE ElementOK(i)'
    BY <2>1, <2>2 DEF Elements, ElementOK, Empty, Full, Enqueued
  <2>5. Owners'
    BY <2>1, <2>2 DEF Owners, OwnerOK, Empty, Full, Enqueued
  <2>6. QED
    BY <1>a, <2>3, <2>4, <2>5 DEF Elements
<1>8. ASSUME NEW t \in Threads, DeqSpin(t) PROVE RingInv'
  <2>1. /\ \A s \in Threads \ {t} : pc'[s] = pc[s]
        /\ pc[t] = "deq_wait"
        /\ \/ pc'[t] = "deq_read" /\ ticket[t] = p_counts[Slot(ticket[t])]
           \/ pc'[t] = "deq_closed"
    BY <1>a, <1>8 DEF DeqSpin, Goto, TypeOK
  <2>2. UNCHANGED <<queue, ticket, val, ret, log>>
    BY <1>8 DEF DeqSpin
  <2>3. \A s \in Threads : (Enqueuing(s)' <=> Enqueuing(s)) /\ (Dequeuing(s)' <=> Dequeuing(s))
    BY <2>1 DEF EnqSteps, DeqSteps, Enqueuing, Dequeuing
  <2>4. Tickets' /\ Elements'
    BY <2>2, <2>3 DEF Tickets, Elements, ElementOK, queue, Empty, Full, Enqueued
  <2>5. ASSUME NEW s \in Threads PROVE OwnerOK(s)'
    BY <1>c, <2>1, <2>2, <2>3
       DEF Owners, OwnerOK, Elements, ElementOK, queue, Empty, Full, Enqueued, Enqueuing,
           Dequeuing, EnqSteps, DeqSteps
  <2>6. QED
    BY <1>a, <2>4, <2>5 DEF Owners
<1>9. ASSUME NEW t \in Threads, DeqRetry(t) PROVE RingInv'
  <2>1. Goto(t, "deq_closed", "deq_wait") /\ UNCHANGED <<queue, ticket, val, ret, size, log>>
    BY <1>9, ClosedChecks, Zenon
  <2>2. pc[t] = "deq_closed" /\ pc'[t] = "deq_wait" /\ \A s \in Threads \ {t} : pc'[s] = pc[s]
    BY <1>a, <2>1 DEF Goto, TypeOK
  <2>3. \A s \in Threads : (Enqueuing(s)' <=> Enqueuing(s)) /\ (Dequeuing(s)' <=> Dequeuing(s))
    BY <2>2 DEF EnqSteps, DeqSteps, Enqueuing, Dequeuing
  <2>4. Tickets' /\ Elements'
    BY <2>1, <2>3 DEF Tickets, Elements, ElementOK, queue, Empty, Full, Enqueued
  <2>5. Owners'
    BY <2>1, <2>2, <2>3 DEF Owners, OwnerOK, queue, Empty, Full, Enqueued
  <2>6. QED
    BY <1>a, <2>4, <2>5
<1>10. ASSUME NEW t \in Threads, DeqGiveUp(t) PROVE RingInv'
  <2>1. /\ Return(t, "deq_closed")
        /\ ret' = [ret EXCEPT ![t] = Zero]
        /\ UNCHANGED <<queue, size, log>>
    BY <1>10, ClosedChecks, Zenon
  <2>2. /\ pc'[t] = "idle"
        /\ \A s \in Threads \ {t} : /\ pc'[s] = pc[s] /\ ticket'[s] = ticket[s]
                                     /\ val'[s] = val[s] /\ ret'[s] = ret[s]
    BY <1>a, <2>1 DEF Return, Goto, TypeOK
  <2>3. /\ ~ Enqueuing(t)' /\ ~ Dequeuing(t)'
        /\ \A s \in Threads \ {t} :
              (Enqueuing(s)' <=> Enqueuing(s)) /\ (Dequeuing(s)' <=> Dequeuing(s))
    BY <2>2 DEF EnqSteps, DeqSteps, Enqueuing, Dequeuing
  <2>4. Tickets'
    BY <2>1, <2>2, <2>3 DEF Tickets, queue
  <2>5. Elements'
    BY <2>1, <2>2, <2>3 DEF Elements, ElementOK, queue, Empty, Full, Enqueued
  <2>6. Owners'
    BY <2>1, <2>2, <2>3 DEF Owners, OwnerOK, queue, Empty, Full, Enqueued
  <2>7. QED
    BY <1>a, <2>4, <2>5, <2>6
<1>11. ASSUME NEW t \in Threads, DeqRead(t) PROVE RingInv'
  <2>1. /\ pc[t] = "deq_read" /\ pc'[t] = "deq_release"
        /\ ret'[t] = values[Slot(ticket[t])]
        /\ \A s \in Threads \ {t} : pc'[s] = pc[s] /\ ret'[s] = ret[s]
    BY <1>a, <1>11 DEF DeqRead, Goto, TypeOK
  <2>2. UNCHANGED <<queue, ticket, val, log>>
    BY <1>11 DEF DeqRead
  <2>3. \A s \in Threads : (Enqueuing(s)' <=> Enqueuing(s)) /\ (Dequeuing(s)' <=> Dequeuing(s))
    BY <2>1 DEF EnqSteps, DeqSteps, Enqueuing, Dequeuing
  <2>4. Tickets' /\ Elements'
    BY <2>2, <2>3 DEF Tickets, Elements, ElementOK, queue, Empty, Full, Enqueued
  <2>5. ASSUME NEW s \in Threads PROVE OwnerOK(s)'
    BY <1>c, <2>1, <2>2, <2>3
       DEF Owners, OwnerOK, Elements, ElementOK, queue, Empty, Full, Enqueued
  <2>6. QED
    BY <1>a, <2>4, <2>5 DEF Owners
<1>12. ASSUME NEW t \in Threads, DeqRelease(t) PROVE RingInv'
  <2> DEFINE k == Slot(ticket[t])
  <2>1. /\ pc[t] = "deq_release" /\ pc'[t] = "idle"
        /\ \A s \in Threads \ {t} : /\ pc'[s] = pc[s] /\ ticket'[s] = ticket[s]
                                     /\ val'[s] = val[s]
    BY <1>a, <1>12 DEF DeqRelease, Return, Goto, TypeOK
  <2>2. /\ ~ Enqueuing(t)' /\ ~ Dequeuing(t)' /\ Dequeuing(t)
        /\ \A s \in Threads \ {t} :
              (Enqueuing(s)' <=> Enqueuing(s)) /\ (Dequeuing(s)' <=> Dequeuing(s))
    BY <2>1 DEF EnqSteps, DeqSteps, Enqueuing, Dequeuing
  <2>3. /\ c_counts'[k] = ticket[t] + Capacity
        /\ \A i \in Slots \ {k} : c_counts'[i] = c_counts[i]
        /\ UNCHANGED <<p_count, c_count, values, p_counts, ret, log>>
    BY <1>a, <1>c, <1>12 DEF DeqRelease, TypeOK
  <2>4. /\ k \in Slots
        /\ c_counts[k] = ticket[t]
        /\ ticket[t] \in Capacity .. p_count \/ ticket[t] \in Capacity .. c_count
        /\ Full(k)
    BY <1>c, <2>1, <2>2 DEF Owners, OwnerOK, Tickets
  <2> HIDE DEF k
  <2>5. Tickets'
    BY <2>1, <2>2, <2>3 DEF Tickets
  <2>6. ASSUME NEW i \in Slots PROVE ElementOK(i)'
    <3>1. CASE i = k
      BY <2>1, <2>2, <2>3, <2>4, <3>1 DEF Tickets, ElementOK, Empty, Full, Enqueued
    <3>2. CASE i # k
      BY <2>1, <2>2, <2>3, <3>2 DEF Elements, ElementOK, Empty, Full, Enqueued
    <3>3. QED
      BY <3>1, <3>2
  <2>7. ASSUME NEW s \in Threads PROVE OwnerOK(s)'
    <3>1. CASE s = t
      BY <2>1, <2>2, <3>1 DEF OwnerOK
    <3>2. CASE s # t
      <4>1. pc[s] \in {"enq_store", "enq_publish", "deq_read", "deq_release"} => Slot(ticket[s]) # k
        BY <2>2, <2>4, <3>2 DEF Owners, OwnerOK, Tickets, Empty, Full, EnqSteps, DeqSteps, Enqueuing, Dequeuing
      <4>2. QED
        BY <1>c, <2>1, <2>2, <2>3, <3>2, <4>1 DEF Owners, OwnerOK, Empty, Full, Enqueued
    <3>3. QED
      BY <3>1, <3>2
  <2>8. QED
    BY <1>a, <2>5, <2>6, <2>7 DEF Elements, Owners
<1>13. ASSUME NEW t \in Threads, GetSizeP(t) PROVE RingInv'
  <2>1. pc[t] = "idle" /\ pc'[t] = "size_c" /\ \A s \in Threads \ {t} : pc'[s] = pc[s]
    BY <1>a, <1>13 DEF GetSizeP, Goto, TypeOK
  <2>2. UNCHANGED <<queue, ticket, val, ret, log>>
    BY <1>13 DEF GetSizeP
  <2>3. \A s \in Threads : (Enqueuing(s)' <=> Enqueuing(s)) /\ (Dequeuing(s)' <=> Dequeuing(s))
    BY <2>1 DEF EnqSteps, DeqSteps, Enqueuing, Dequeuing
  <2>4. Tickets' /\ Elements'
    BY <2>2, <2>3 DEF Tickets, Elements, ElementOK, queue, Empty, Full, Enqueued
  <2>5. Owners'
    BY <2>1, <2>2, <2>3 DEF Owners, OwnerOK, queue, Empty, Full, Enqueued
  <2>6. QED
    BY <1>a, <2>4, <2>5
<1>14. ASSUME NEW t \in Threads, GetSizeC(t) PROVE RingInv'
  <2>1. pc[t] = "size_c" /\ pc'[t] = "idle" /\ \A s \in Threads \ {t} : pc'[s] = pc[s]
    BY <1>a, <1>14 DEF GetSizeC, Goto, TypeOK
  <2>2. UNCHANGED <<queue, ticket, val, ret, log>>
    BY <1>14 DEF GetSizeC
  <2>3. \A s \in Threads : (Enqueuing(s)' <=> Enqueuing(s)) /\ (Dequeuing(s)' <=> Dequeuing(s))
    BY <2>1 DEF EnqSteps, DeqSteps, Enqueuing, Dequeuing
  <2>4. Tickets' /\ Elements'
    BY <2>2, <2>3 DEF Tickets, Elements, ElementOK, queue, Empty, Full, Enqueued
  <2>5. Owners'
    BY <2>1, <2>2, <2>3 DEF Owners, OwnerOK, queue, Empty, Full, Enqueued
  <2>6. QED
    BY <1>a, <2>4, <2>5
<1>15. CASE Close
  BY <1>a, <1>15
     DEF Close, locals, Tickets, Elements, ElementOK, Owners, OwnerOK, Empty, Full, Enqueued,
         Enqueuing, Dequeuing
<1>16. CASE UNCHANGED vars
  BY <1>a, <1>16
     DEF vars, Tickets, Elements, ElementOK, Owners, OwnerOK, Empty, Full, Enqueued,
         Enqueuing, Dequeuing
<1>17. QED
  BY <1>1, <1>2, <1>3, <1>4, <1>5, <1>6, <1>7, <1>8, <1>9, <1>10, <1>11, <1>12,
     <1>13, <1>14, <1>15, <1>16 DEF Next, Begin, Continue

\* The ring invariant holds throughout every behaviour.
THEOREM RingInvariant == Spec => []RingInv
BY InitRingInv, RingStep, PTL DEF Spec

\* No two threads are at the plain accesses to one element (lines 74 and 91),
\* whatever the number of threads, the capacity and the tickets: an element
\* cannot be empty and full at once, and its ticket has one owner.
THEOREM SlotRaceFree == Spec => []NoSlotRace
<1>1. RingInv => NoSlotRace
  <2> SUFFICES ASSUME RingInv,
                      NEW s \in Threads, NEW t \in Threads, NEW i \in Slots,
                      Owns(s, i), Owns(t, i)
               PROVE  s = t
    BY DEF NoSlotRace
  <2>1. c_counts[i] \in Nat /\ p_counts[i] \in Nat /\ Capacity \in Nat /\ Capacity > 0
    BY DEF RingInv, TypeOK
  <2>2. ~ (Empty(i) /\ Full(i))
    BY <2>1 DEF Empty, Full
  <2>3. ticket[s] = c_counts[i] /\ ticket[t] = c_counts[i]
    BY DEF RingInv, Owners, OwnerOK, Owns
  <2>4. (Enqueuing(s) /\ Enqueuing(t)) \/ (Dequeuing(s) /\ Dequeuing(t))
    BY <2>2
       DEF RingInv, Owners, OwnerOK, Owns, Enqueuing, Dequeuing, EnqSteps, DeqSteps
  <2>5. QED
    BY <2>3, <2>4 DEF RingInv, Tickets
<1>2. QED
  BY <1>1, RingInvariant, PTL

\* A dequeue returns the value enqueued with its own ticket, for every
\* capacity and every interleaving (lines 64-75 against 81-93).
THEOREM DequeueCorrect == Spec => []DequeuesItsTicket
<1>1. RingInv => DequeuesItsTicket
  <2> SUFFICES ASSUME RingInv, NEW t \in Threads, pc[t] = "deq_release"
               PROVE  ticket[t] <= p_count /\ ret[t] = Enqueued(ticket[t])
    BY DEF DequeuesItsTicket
  <2>1. /\ ret[t] = Enqueued(ticket[t])
        /\ Full(Slot(ticket[t])) /\ c_counts[Slot(ticket[t])] = ticket[t]
    BY DEF RingInv, Owners, OwnerOK
  <2>2. Slot(ticket[t]) \in Slots
    BY SlotInRing DEF RingInv, TypeOK
  <2>3. p_counts[Slot(ticket[t])] \in Capacity .. p_count
    BY <2>1, <2>2 DEF RingInv, Elements, ElementOK
  <2>4. QED
    BY <2>1, <2>3 DEF Full
<1>2. QED
  BY <1>1, RingInvariant, PTL

(***************************************************************************)
(* get_size: the p_count it loaded is never ahead of the queue's.          *)
(***************************************************************************)
SizeLoaded == \A t \in Threads : pc[t] = "size_c" => size[t] <= p_count

\* What get_size has loaded is never ahead of p_count: the counter only grows.
LEMMA SizeLoadedStep == TypeOK /\ SizeLoaded /\ [Next]_vars => SizeLoaded'
<1> SUFFICES ASSUME TypeOK, SizeLoaded, [Next]_vars, NEW s \in Threads, pc'[s] = "size_c"
             PROVE  size'[s] <= p_count'
  BY DEF SizeLoaded
<1>a. p_count \in Nat /\ p_count' \in Nat /\ size[s] \in Nat
  BY TypeStep DEF TypeOK
<1>1. CASE GetSizeP(s)
  <2>1. size'[s] = p_count /\ p_count' = p_count
    BY <1>1 DEF GetSizeP, queue, TypeOK
  <2>2. QED
    BY <1>a, <2>1
<1>2. CASE pc[s] = "size_c" /\ size'[s] = size[s] /\ p_count' >= p_count
  BY <1>a, <1>2 DEF SizeLoaded
<1>3. ASSUME NEW t \in Threads, Begin(t) \/ Continue(t), ~ GetSizeP(s)
      PROVE  pc[s] = "size_c" /\ size'[s] = size[s] /\ p_count' >= p_count
  <2>1. CASE GetSizeP(t) \/ GetSizeC(t)
    BY <1>a, <1>3, <2>1 DEF GetSizeP, GetSizeC, Goto, queue, TypeOK
  <2>2. CASE (\E v \in Values : EnqTicket(t, v)) \/ DeqTicket(t)
    BY <1>a, <2>2 DEF EnqTicket, DeqTicket, Goto, TypeOK
  <2>3. CASE EnqSpin(t) \/ EnqStore(t) \/ EnqPublish(t)
    BY <1>a, <2>3 DEF EnqSpin, EnqStore, EnqPublish, Return, Goto, queue, TypeOK
  <2>4. CASE DeqSpin(t) \/ DeqRead(t) \/ DeqRelease(t)
    BY <1>a, <2>4 DEF DeqSpin, DeqRead, DeqRelease, Return, Goto, queue, TypeOK
  <2>5. CASE EnqRetry(t) \/ EnqGiveUp(t) \/ DeqRetry(t) \/ DeqGiveUp(t)
    <3>1. /\ \E to \in {"enq_wait", "deq_wait", "idle"} : pc' = [pc EXCEPT ![t] = to]
          /\ size' = size /\ p_count' = p_count
      BY <2>5, ClosedChecks, Zenon DEF Return, Goto, queue
    <3>2. QED
      BY <1>a, <3>1 DEF TypeOK
  <2>6. QED
    BY <1>3, <2>1, <2>2, <2>3, <2>4, <2>5 DEF Begin, Continue
<1>4. CASE Close \/ UNCHANGED vars
  <2>1. UNCHANGED <<pc, size, p_count>>
    BY <1>4 DEF Close, locals, vars
  <2>2. QED
    BY <1>a, <2>1 DEF SizeLoaded
<1>5. QED
  BY <1>1, <1>2, <1>3, <1>4 DEF Next

\* get_size returns at most what the queue holds at that moment, because it
\* loads p_count before c_count (lines 98-99).
THEOREM SizeIsSafe == Spec => SizeNeverOverstates
<1> DEFINE A == \A t \in Threads :
                  pc[t] = "size_c" /\ pc'[t] = "idle" =>
                      size'[t] = 0 \/ size'[t] <= p_count' - c_count'
<1>1. Init => SizeLoaded
  BY DEF Init, SizeLoaded
<1>2. TypeOK /\ SizeLoaded /\ [Next]_vars => [A]_vars
  <2> SUFFICES ASSUME TypeOK, SizeLoaded, Next, NEW t \in Threads,
                      pc[t] = "size_c", pc'[t] = "idle"
               PROVE  size'[t] = 0 \/ size'[t] <= p_count' - c_count'
    OBVIOUS
  <2>1. GetSizeC(t)
    <3>1. ASSUME NEW s \in Threads, Begin(s) \/ Continue(s), ~ GetSizeC(s) PROVE FALSE
      <4>1. pc[s] # "size_c" /\ pc' = [pc EXCEPT ![s] = pc'[s]]
        BY <3>1 DEF Begin, Continue, EnqTicket, EnqSpin, EnqRetry, EnqGiveUp, EnqStore,
                    EnqPublish, DeqTicket, DeqSpin, DeqRetry, DeqGiveUp, DeqRead, DeqRelease,
                    GetSizeP, Return, Goto, TypeOK
      <4>2. QED
        BY <4>1 DEF TypeOK
    <3>2. ASSUME NEW s \in Threads, GetSizeC(s) PROVE s = t
      BY <3>2 DEF GetSizeC, Goto, TypeOK
    <3>3. ~ Close
      BY DEF Close, locals
    <3>4. QED
      BY <3>1, <3>2, <3>3 DEF Next
  <2>2. p_count \in Nat /\ c_count \in Nat /\ size[t] \in Nat /\ size[t] <= p_count
    BY DEF TypeOK, SizeLoaded
  <2>3. /\ size'[t] = IF size[t] >= c_count THEN size[t] - c_count ELSE 0
        /\ p_count' = p_count /\ c_count' = c_count
    BY <2>1 DEF GetSizeC, queue, TypeOK
  <2>4. QED
    BY <2>2, <2>3
<1>3. QED
  BY <1>1, <1>2, SizeLoadedStep, TypeCorrect, PTL DEF Spec, SizeNeverOverstates

(***************************************************************************)
(* Refinement: every step of the ring is a step of FIFO or leaves FIFO's   *)
(* variables alone.                                                        *)
(***************************************************************************)
Places == [t \in Threads |-> Place(t)]

\* A step that leaves log, c_count, ret and is_closed alone and moves thread t
\* between two program points with the same place is a stutter.
LEMMA StutterStep ==
    ASSUME UNCHANGED <<log, c_count, ret, is_closed>>,
           \A s \in Threads : Place(s)' = Place(s)
    PROVE  UNCHANGED F!vars
BY DEF F!vars

\* A step that changes the place of one thread.
LEMMA PlacesUpdate ==
    ASSUME NEW t \in Threads, NEW n, Place(t)' = n,
           \A s \in Threads \ {t} : Place(s)' = Place(s)
    PROVE  Places' = [Places EXCEPT ![t] = n]
BY DEF Places

\* Every step of the ring maps to a step of FIFO or to a stutter.
LEMMA FIFOStep == RingInv /\ [Next]_vars => [F!Next]_(F!vars)
<1> SUFFICES ASSUME RingInv, [Next]_vars PROVE F!Next \/ UNCHANGED F!vars
  OBVIOUS
<1>a. TypeOK
  BY DEF RingInv
<1>b. Capacity \in Nat /\ Capacity > 0 /\ c_count \in Nat /\ c_count >= Capacity - 1
  BY <1>a DEF TypeOK
<1>1. ASSUME NEW t \in Threads, NEW v \in Values, EnqTicket(t, v)
      PROVE  F!Next \/ UNCHANGED F!vars
  <2>1. log' = Append(log, v) /\ UNCHANGED <<c_count, ret, is_closed>>
    BY <1>1 DEF EnqTicket
  <2>2. \A s \in Threads : Place(s)' = Place(s)
    BY <1>a, <1>1 DEF EnqTicket, Goto, Place, TypeOK
  <2>3. F!Put(v)
    BY <2>1, <2>2 DEF F!Put
  <2>4. QED
    BY <2>3 DEF F!Next
<1>2. ASSUME NEW t \in Threads, DeqTicket(t) PROVE F!Next \/ UNCHANGED F!vars
  <2>1. c_count' = c_count + 1 /\ UNCHANGED <<log, ret, is_closed>>
    BY <1>2 DEF DeqTicket
  <2>2. /\ Place(t) = 0 /\ Place(t)' = c_count - Capacity + 2
        /\ \A s \in Threads \ {t} : Place(s)' = Place(s)
    BY <1>a, <1>b, <1>2 DEF DeqTicket, Goto, Place, TypeOK
  <2>3. F!Claim(t)
    <3>1. Places' = [Places EXCEPT ![t] = (c_count - Capacity + 1) + 1]
      <4>1. Place(t)' = (c_count - Capacity + 1) + 1
        BY <1>b, <2>2
      <4>2. QED
        BY <2>2, <4>1, PlacesUpdate
    <3>2. Places[t] = 0
      BY <2>2 DEF Places
    <3>3. c_count' - Capacity + 1 = (c_count - Capacity + 1) + 1
      BY <1>b, <2>1
    <3>4. QED
      BY <2>1, <3>1, <3>2, <3>3 DEF F!Claim, Places
  <2>4. QED
    BY <2>3 DEF F!Next
<1>3. ASSUME NEW t \in Threads, DeqRead(t) PROVE F!Next \/ UNCHANGED F!vars
  <2>1. /\ ret' = [ret EXCEPT ![t] = values[Slot(ticket[t])]]
        /\ UNCHANGED <<log, c_count, is_closed>>
        /\ pc[t] = "deq_read"
    BY <1>3 DEF DeqRead, Goto, queue
  <2>2. /\ Place(t) = ticket[t] - Capacity + 1 /\ Place(t)' = 0
        /\ \A s \in Threads \ {t} : Place(s)' = Place(s)
    BY <1>a, <1>3 DEF DeqRead, Goto, Place, queue, TypeOK
  <2>3. /\ ticket[t] \in Capacity .. p_count
        /\ values[Slot(ticket[t])] = log[ticket[t] - Capacity + 1]
    <3>1. Slot(ticket[t]) \in Slots
      BY <1>a, SlotInRing DEF TypeOK
    <3>2. QED
      BY <2>1, <3>1
         DEF RingInv, Owners, OwnerOK, Elements, ElementOK, Full, Enqueued
  <2>4. ticket[t] - Capacity + 1 \in 1 .. Len(log)
    BY <1>a, <1>b, <2>3 DEF TypeOK
  <2>5. F!Answer(t)
    <3>1. Places' = [Places EXCEPT ![t] = 0] /\ Places[t] = ticket[t] - Capacity + 1
      BY <2>2 DEF Places
    <3>2. QED
      BY <2>1, <2>3, <2>4, <3>1 DEF F!Answer, Places
  <2>6. QED
    BY <2>5 DEF F!Next
<1>4. ASSUME NEW t \in Threads, DeqGiveUp(t) PROVE F!Next \/ UNCHANGED F!vars
  <2>1. is_closed
    BY <1>4, Zenon DEF DeqGiveUp
  <2>2. /\ Return(t, "deq_closed") /\ ret' = [ret EXCEPT ![t] = Zero]
        /\ UNCHANGED <<queue, size, log>>
    BY <1>4, ClosedChecks, Zenon
  <2>3. /\ Dequeuing(t) /\ ticket[t] \in Capacity .. c_count
        /\ pc[t] = "deq_closed"
    BY <1>b, <2>2 DEF RingInv, Tickets, Dequeuing, DeqSteps, Return, Goto
  <2>4. /\ Place(t) # 0 /\ Place(t)' = 0
        /\ \A s \in Threads \ {t} : Place(s)' = Place(s)
    BY <1>a, <1>b, <2>2, <2>3 DEF Return, Goto, Place, TypeOK
  <2>5. F!GiveUp(t)
    <3>0. Places[t] = Place(t)
      BY DEF Places
    <3>1. Places' = [Places EXCEPT ![t] = 0] /\ Places[t] # 0
      BY <2>4, <3>0, PlacesUpdate
    <3>2. UNCHANGED <<log, c_count, is_closed>>
      BY <2>2 DEF queue
    <3>3. UNCHANGED <<log, c_count - Capacity + 1, is_closed>>
      BY <3>2, Zenon
    <3>4. QED
      BY <2>1, <2>2, <3>1, <3>3, Zenon DEF F!GiveUp, Places
  <2>6. QED
    BY <2>5 DEF F!Next
<1>5. CASE Close
  <2>1. is_closed' = TRUE /\ UNCHANGED <<log, c_count, ret, pc, ticket>>
    BY <1>5 DEF Close, locals
  <2>2. UNCHANGED Places
    BY <2>1 DEF Places, Place
  <2>3. F!Shut
    BY <2>1, <2>2 DEF F!Shut, Places
  <2>4. QED
    BY <2>3 DEF F!Next
<1>6. ASSUME NEW t \in Threads, EnqSpin(t) \/ DeqSpin(t) \/ EnqStore(t)
      PROVE  UNCHANGED F!vars
  <2>1. \A s \in Threads : Place(s)' = Place(s)
    BY <1>a, <1>6 DEF EnqSpin, DeqSpin, EnqStore, Goto, Place, queue, TypeOK
  <2>2. QED
    BY <1>6, <2>1, StutterStep DEF EnqSpin, DeqSpin, EnqStore, queue
<1>7. ASSUME NEW t \in Threads, EnqPublish(t) \/ DeqRelease(t)
      PROVE  UNCHANGED F!vars
  <2>1. \A s \in Threads : Place(s)' = Place(s)
    BY <1>a, <1>7 DEF EnqPublish, DeqRelease, Return, Goto, Place, TypeOK
  <2>2. QED
    BY <1>7, <2>1, StutterStep DEF EnqPublish, DeqRelease
<1>8. ASSUME NEW t \in Threads, EnqRetry(t) \/ DeqRetry(t) \/ EnqGiveUp(t)
      PROVE  UNCHANGED F!vars
  <2>1. /\ UNCHANGED <<queue, ret, log>>
        /\ \/ Goto(t, "enq_closed", "enq_wait") /\ UNCHANGED ticket
           \/ Goto(t, "deq_closed", "deq_wait") /\ UNCHANGED ticket
           \/ Return(t, "enq_closed")
    BY <1>8, ClosedChecks, Zenon
  <2>2. \A s \in Threads : Place(s)' = Place(s)
    BY <1>a, <2>1 DEF Goto, Return, Place, TypeOK
  <2>3. QED
    BY <2>1, <2>2, StutterStep DEF queue
<1>9. ASSUME NEW t \in Threads, GetSizeP(t) \/ GetSizeC(t)
      PROVE  UNCHANGED F!vars
  <2>1. \A s \in Threads : Place(s)' = Place(s)
    BY <1>a, <1>9 DEF GetSizeP, GetSizeC, Goto, Place, TypeOK
  <2>2. QED
    BY <1>9, <2>1, StutterStep DEF GetSizeP, GetSizeC, queue
<1>10. CASE UNCHANGED vars
  <2>1. UNCHANGED <<log, c_count, ret, is_closed, pc, ticket>>
    BY <1>10 DEF vars
  <2>2. QED
    BY <2>1, StutterStep DEF Place
<1>11. QED
  BY <1>1, <1>2, <1>3, <1>4, <1>5, <1>6, <1>7, <1>8, <1>9, <1>10
     DEF Next, Begin, Continue

\* The lock-free queue implements the abstract FIFO queue, for every number
\* of threads and every capacity.
THEOREM Refinement == Spec => ImplementsFIFO
<1>1. Init => F!Init
  <2> SUFFICES ASSUME Init PROVE F!Init
    OBVIOUS
  <2>1. [t \in Threads |-> Place(t)] = [t \in Threads |-> 0]
    BY DEF Init, Place
  <2>2. c_count - Capacity + 1 = 0
    BY DEF Init
  <2>3. QED
    BY <2>1, <2>2 DEF Init, F!Init
<1>2. QED
  BY <1>1, FIFOStep, RingInvariant, PTL DEF Spec, ImplementsFIFO, F!Spec
=============================================================================
