-------------------------------- MODULE FIFO --------------------------------
(***************************************************************************)
(* What the users of include/nvm0lfqueue.h rely on: the values leave in    *)
(* the order of their enqueues, a dequeue takes its place in the line when *)
(* it begins and waits for the value of that place, and only a closed      *)
(* queue sends it away empty-handed.                                       *)
(***************************************************************************)
EXTENDS Integers, Sequences

CONSTANTS Threads, Values, Zero

VARIABLES
    line,       \* every value ever enqueued, in order
    taken,      \* how many places of the line have been claimed by dequeues
    place,      \* the place each thread's pending dequeue claimed, 0 if none
    answer,     \* what the thread's last dequeue returned
    closed

vars == <<line, taken, place, answer, closed>>

Init ==
    /\ line = <<>>
    /\ taken = 0
    /\ place = [t \in Threads |-> 0]
    /\ answer = [t \in Threads |-> Zero]
    /\ closed = FALSE

Put(v) ==
    /\ line' = Append(line, v)
    /\ UNCHANGED <<taken, place, answer, closed>>

Claim(t) ==
    /\ place[t] = 0
    /\ taken' = taken + 1
    /\ place' = [place EXCEPT ![t] = taken + 1]
    /\ UNCHANGED <<line, answer, closed>>

Answer(t) ==
    /\ place[t] \in 1 .. Len(line)
    /\ answer' = [answer EXCEPT ![t] = line[place[t]]]
    /\ place' = [place EXCEPT ![t] = 0]
    /\ UNCHANGED <<line, taken, closed>>

GiveUp(t) ==
    /\ closed
    /\ place[t] # 0
    /\ answer' = [answer EXCEPT ![t] = Zero]
    /\ place' = [place EXCEPT ![t] = 0]
    /\ UNCHANGED <<line, taken, closed>>

Shut ==
    /\ closed' = TRUE
    /\ UNCHANGED <<line, taken, place, answer>>

Next ==
    \/ \E v \in Values : Put(v)
    \/ \E t \in Threads : Claim(t) \/ Answer(t) \/ GiveUp(t)
    \/ Shut

Spec == Init /\ [][Next]_vars
=============================================================================
