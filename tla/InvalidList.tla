---------------------------- MODULE InvalidList ----------------------------
(***************************************************************************)
(* nvm0list.cc: the doubly linked list of the invalid nodes of a hash      *)
(* table.  logical_delete_hash_node appends to it, validate_hash_node does *)
(* not remove, and nothing in the repository calls pop or remove yet.      *)
(***************************************************************************)
EXTENDS Integers, Sequences, FiniteSets

CONSTANTS
    HashNodes,      \* the hash nodes of one table
    NilNode,        \* nullptr
    MaxCount        \* bound: how far count may go

ASSUME InvalidListAssumption ==
    /\ NilNode \notin HashNodes
    /\ IsFiniteSet(HashNodes)
    /\ MaxCount \in Nat

VARIABLES
    list,           \* head, tail and count of hash_node_list
    prev_of, next_of, is_valid,     \* fields of the hash nodes
    held,           \* ghost: the queue that the list stands for
    twice           \* ghost: a node was appended that was in the list

invalidVars == <<list, prev_of, next_of, is_valid, held, twice>>

\* new_list, new_hash_node
InvalidInit ==
    /\ list = [head |-> NilNode, tail |-> NilNode, count |-> 0]
    /\ prev_of = [n \in HashNodes |-> NilNode]
    /\ next_of = prev_of
    /\ is_valid = [n \in HashNodes |-> TRUE]
    /\ held = <<>>
    /\ twice = FALSE

Held == {held[k] : k \in 1 .. Len(held)}

\* Assignment through a pointer that is not null.
Store(field, n, x) == IF n = NilNode THEN field ELSE [field EXCEPT ![n] = x]

\* logical_delete_hash_node, with push_back_list_node: the same three stores
\* whether the list is empty or not.
Invalidate(n) ==
    /\ is_valid[n]
    /\ list.count < MaxCount
    /\ is_valid' = [is_valid EXCEPT ![n] = FALSE]
    /\ list' = [head |-> IF list.tail = NilNode THEN n ELSE list.head,
                tail |-> n, count |-> list.count + 1]
    /\ next_of' = [Store(next_of, list.tail, n) EXCEPT ![n] = NilNode]
    /\ prev_of' = [prev_of EXCEPT ![n] = list.tail]
    /\ held' = Append(held, n)
    /\ twice' = (twice \/ n \in Held)

\* validate_hash_node leaves the list alone.
Revalidate(n) ==
    /\ ~ is_valid[n]
    /\ is_valid' = [is_valid EXCEPT ![n] = TRUE]
    /\ UNCHANGED <<list, prev_of, next_of, held, twice>>

\* pop_front_list_node
PopFront ==
    /\ list.head # NilNode
    /\ LET second == next_of[list.head] IN
       /\ list' = [head |-> second, tail |-> IF second = NilNode THEN NilNode ELSE list.tail,
                   count |-> list.count - 1]
       /\ prev_of' = Store(prev_of, second, NilNode)
    /\ held' = Tail(held)
    /\ UNCHANGED <<next_of, is_valid, twice>>

\* nullptr at the ends of the list, whatever the fields hold.
Before(n) == IF n = list.head THEN NilNode ELSE prev_of[n]
After(n) == IF n = list.tail THEN NilNode ELSE next_of[n]

\* "The given hash node MUST exist in the list", which a node that was appended
\* twice makes ambiguous.
Unlinked(n) ==
    /\ ~ twice
    /\ list' = [head |-> IF n = list.head THEN After(n) ELSE list.head,
                tail |-> IF n = list.tail THEN Before(n) ELSE list.tail,
                count |-> list.count - 1]
    /\ next_of' = Store(next_of, Before(n), After(n))
    /\ \E k \in 1 .. Len(held) :
          /\ held[k] = n
          /\ held' = SubSeq(held, 1, k - 1) \o SubSeq(held, k + 1, Len(held))
    /\ UNCHANGED <<is_valid, twice>>

\* A plausible bug: the node behind keeps pointing back at the removed one.
remove_list_node_OneWay(n) == Unlinked(n) /\ UNCHANGED prev_of

remove_list_node(n) == Unlinked(n) /\ prev_of' = Store(prev_of, After(n), Before(n))

InvalidNext ==
    \/ \E n \in HashNodes : Invalidate(n)
    \/ \E n \in HashNodes : Revalidate(n)
    \/ PopFront
    \/ \E n \in HashNodes : remove_list_node(n)

InvalidSpec == InvalidInit /\ [][InvalidNext]_invalidVars
-----------------------------------------------------------------------------
\* The nodes met from n on along field, as long as the list can be at most.
Walk(field, n) ==
    LET nodes[k \in 0 .. Cardinality(HashNodes) + 1] ==
          IF k = 0 THEN <<>>
          ELSE LET m == IF k = 1 THEN n
                        ELSE IF Len(nodes[k - 1]) < k - 1 THEN NilNode
                        ELSE field[nodes[k - 1][k - 1]]
               IN  IF m = NilNode THEN nodes[k - 1] ELSE Append(nodes[k - 1], m)
    IN  nodes[Cardinality(HashNodes) + 1]

\* As long as no node is invalidated a second time while it is still in the
\* list (nvm0hash.cc 74), the list is the queue of the nodes that were
\* appended and neither popped nor removed, in both directions, and count is
\* its length, whatever the nodes kept in prev and next from an earlier stay.
ListIsQueue ==
    ~ twice =>
        /\ Walk(next_of, list.head) = held
        /\ Walk(prev_of, list.tail) = [k \in 1 .. Len(held) |-> held[Len(held) - k + 1]]
        /\ list.count = Len(held)
=============================================================================
