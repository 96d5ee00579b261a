---------------------------- MODULE OrderedIndex ----------------------------
(***************************************************************************)
(* What nvm0avltree.h promises its client: a set of logical blocks, each   *)
(* valid or invalid, with the two counters of tree_root.                   *)
(***************************************************************************)
EXTENDS Integers, FiniteSets

CONSTANT Keys       \* the logical block numbers

VARIABLES
    status,         \* what is known of each key
    total, invalid  \* tree_root's count_total and count_invalid

Statuses == {"absent", "valid", "invalid"}

Init ==
    /\ status = [k \in Keys |-> "absent"]
    /\ total = 0
    /\ invalid = 0

Insert(k) ==
    /\ total' = total + 1
    /\ UNCHANGED invalid
    /\ status[k] = "absent"
    /\ status' = [status EXCEPT ![k] = "valid"]

Invalidate(k) ==
    /\ invalid' = invalid + 1
    /\ UNCHANGED total
    /\ status[k] = "valid"
    /\ status' = [status EXCEPT ![k] = "invalid"]

\* Exactly the invalid keys go.
Sweep ==
    /\ invalid > 0
    /\ invalid' = 0
    /\ total' = total - Cardinality({k \in Keys : status[k] = "invalid"})
    /\ status' = [k \in Keys |-> IF status[k] = "invalid" THEN "absent" ELSE status[k]]

Next == Sweep \/ \E k \in Keys : Insert(k) \/ Invalidate(k)

Spec == Init /\ [][Next]_<<status, total, invalid>>
=============================================================================
