------------------------------ MODULE AVLTree ------------------------------
(***************************************************************************)
(* nvm0avltree.cc: the AVL tree of the inodes of a volume, by logical      *)
(* block number, with logical deletion.  A tree is a value: the empty one  *)
(* or a root with two subtrees; what the code does to a node in place is   *)
(* the tree that results.                                                  *)
(*                                                                         *)
(* As in test_nvm0avltree.cc a key is inserted once: a client searches     *)
(* before it inserts.  The tree is used by one thread.                     *)
(***************************************************************************)
EXTENDS Integers, FiniteSets

CONSTANT TreeKeys   \* the logical block numbers that are used

ASSUME TreeKeysAssumption == TreeKeys \subseteq Nat

VARIABLES tree, count_total, count_invalid      \* tree_root

treeVars == <<tree, count_total, count_invalid>>

Nil == [height |-> 0]                           \* nullptr; get_height is 0

IsNil(t) == t.height = 0

(***************************************************************************)
(* Heights and rotations                                                   *)
(***************************************************************************)
max_height(x, y) == IF x > y THEN x ELSE y

\* A node whose height was updated after its children were set.
Node(lbn, valid, left, right) ==
    [lbn |-> lbn, valid |-> valid, left |-> left, right |-> right,
     height |-> max_height(left.height, right.height) + 1]

\* init_tree_node
init_tree_node(k) == Node(k, TRUE, Nil, Nil)

get_balance(t) == IF IsNil(t) THEN 0 ELSE t.left.height - t.right.height

right_rotate(y) ==
    LET x == y.left IN Node(x.lbn, x.valid, x.left, Node(y.lbn, y.valid, x.right, y.right))

left_rotate(x) ==
    LET y == x.right IN Node(y.lbn, y.valid, Node(x.lbn, x.valid, x.left, y.left), y.right)

\* The four cases, when the left or right subtree is the one that leans
\* outwards or inwards.
Rotated(t, leftOuter, leftInner, rightOuter, rightInner) ==
    CASE get_balance(t) > 1 /\ leftOuter -> right_rotate(t)
      [] get_balance(t) > 1 /\ leftInner ->
            right_rotate(Node(t.lbn, t.valid, left_rotate(t.left), t.right))
      [] get_balance(t) < -1 /\ rightOuter -> left_rotate(t)
      [] get_balance(t) < -1 /\ rightInner ->
            left_rotate(Node(t.lbn, t.valid, t.left, right_rotate(t.right)))
      [] OTHER -> t

(***************************************************************************)
(* Recursion over a tree                                                   *)
(***************************************************************************)
\* One level further down.
Deeper(S) == S \cup UNION {{t.left, t.right} : t \in {u \in S : ~ IsNil(u)}}

\* The tree with all that hangs below, down to the empty trees.
Subtrees(root) ==
    LET down[n \in 0 .. root.height] == IF n = 0 THEN {root} ELSE Deeper(down[n - 1])
    IN  down[root.height]

\* What a function of the code returns for root, when Visit says what it makes
\* of a node and of the results for the two children.
Recursion(Visit(_, _, _), empty, root) ==
    LET result[t \in Subtrees(root)] ==
          IF IsNil(t) THEN empty ELSE Visit(t, result[t.left], result[t.right])
    IN  result[root]

(***************************************************************************)
(* search_tree_node, insert_tree_node, logical_delete_tree_node            *)
(***************************************************************************)
search_tree_node(root, k) ==
    Recursion(LAMBDA t, left, right :
                 IF t.lbn = k THEN t ELSE IF k < t.lbn THEN left ELSE right, Nil, root)

\* The insertion went by the keys, so the keys tell which side leans where.
AfterInsert(t, k) ==
    Rotated(t, k < t.left.lbn, k > t.left.lbn, k > t.right.lbn, k < t.right.lbn)

insert_tree_node(root, k) ==
    Recursion(LAMBDA t, left, right :
                 IF k < t.lbn THEN AfterInsert(Node(t.lbn, t.valid, left, t.right), k)
                 ELSE AfterInsert(Node(t.lbn, t.valid, t.left, right), k),
              init_tree_node(k), root)

Invalidated(root, k) ==
    Recursion(LAMBDA t, left, right :
                 IF k = t.lbn THEN [t EXCEPT !.valid = FALSE]
                 ELSE IF k < t.lbn THEN [t EXCEPT !.left = left]
                 ELSE [t EXCEPT !.right = right], Nil, root)

(***************************************************************************)
(* physical_delete_tree_node                                               *)
(***************************************************************************)
min_value_node(root) ==
    Recursion(LAMBDA t, left, right : IF IsNil(t.left) THEN t ELSE left, Nil, root)

\* A plausible bug: a left child that leans neither way is left alone.
AfterDelete_Strict(t) ==
    Rotated(t, get_balance(t.left) > 0, get_balance(t.left) < 0,
               get_balance(t.right) < 0, get_balance(t.right) > 0)

AfterDelete(t) ==
    Rotated(t, get_balance(t.left) >= 0, get_balance(t.left) < 0,
               get_balance(t.right) <= 0, get_balance(t.right) > 0)

\* t is deleted and left and right are its children: an only child's contents
\* replace its own.  Of a node with two, the successor's do, and the successor
\* is deleted below.
WithoutRoot(t, right) ==
    IF IsNil(t.left) /\ IsNil(t.right) THEN Nil
    ELSE IF IsNil(t.left) THEN AfterDelete(Node(t.right.lbn, t.right.valid, t.right.left, t.right.right))
    ELSE IF IsNil(t.right) THEN AfterDelete(Node(t.left.lbn, t.left.valid, t.left.left, t.left.right))
    ELSE LET successor == min_value_node(t.right)
         IN  AfterDelete(Node(successor.lbn, successor.valid, t.left, right[successor.lbn]))

\* Below the successor's place another key is deleted: for each node, what
\* remains by the key.
physical_delete_tree_node(root, k) ==
    Recursion(LAMBDA t, left, right :
                 [j \in TreeKeys |->
                    IF j < t.lbn THEN AfterDelete(Node(t.lbn, t.valid, left[j], t.right))
                    ELSE IF j > t.lbn THEN AfterDelete(Node(t.lbn, t.valid, t.left, right[j]))
                    ELSE WithoutRoot(t, right)],
              [j \in TreeKeys |-> Nil], root)[k]

\* Depth first, the left subtree before the right one; Nil when all are valid.
find_invalid_tree_node(root) ==
    Recursion(LAMBDA t, left, right :
                 IF ~ t.valid THEN t ELSE IF IsNil(left) THEN right ELSE left, Nil, root)

(***************************************************************************)
(* The operations on a tree_root                                           *)
(***************************************************************************)
TreeInit == tree = Nil /\ count_total = 0 /\ count_invalid = 0

TreeInsert(k) ==
    /\ IsNil(search_tree_node(tree, k))
    /\ tree' = insert_tree_node(tree, k)
    /\ count_total' = count_total + 1
    /\ UNCHANGED count_invalid

\* A plausible bug: a node that is invalid already is counted again.
logical_delete_tree_node_Twice(k) ==
    /\ tree' = Invalidated(tree, k)
    /\ count_invalid' = count_invalid + (IF IsNil(search_tree_node(tree, k)) THEN 0 ELSE 1)
    /\ UNCHANGED count_total

\* A node that is absent or invalid already changes nothing.
logical_delete_tree_node(k) ==
    LET found == search_tree_node(tree, k) IN
    /\ tree' = Invalidated(tree, k)
    /\ count_invalid' = count_invalid + (IF ~ IsNil(found) /\ found.valid THEN 1 ELSE 0)
    /\ UNCHANGED count_total

\* A round of the loop of rebalance_tree_node, and the tree after n of them.
SweepRound(t) == physical_delete_tree_node(t, find_invalid_tree_node(t).lbn)

Swept(root, n) ==
    LET swept[j \in 0 .. n] == IF j = 0 THEN root ELSE SweepRound(swept[j - 1])
    IN  swept[n]

rebalance_tree_node ==
    /\ tree' = Swept(tree, count_invalid)
    /\ count_total' = count_total - count_invalid
    /\ count_invalid' = 0

TreeNext ==
    \/ \E k \in TreeKeys : TreeInsert(k)
    \/ \E k \in TreeKeys : logical_delete_tree_node(k)
    \/ rebalance_tree_node

TreeSpec == TreeInit /\ [][TreeNext]_treeVars
-----------------------------------------------------------------------------
Nodes(t) == {u \in Subtrees(t) : ~ IsNil(u)}

LbnsIn(t) == {u.lbn : u \in Nodes(t)}

\* Whatever the order of insertions, logical deletions and sweeps
\* (nvm0avltree.cc 43-242), the tree is ordered, every height is exact and no
\* two sibling subtrees differ by more than one level.
StaysBalanced ==
    \A t \in Nodes(tree) :
        /\ get_balance(t) \in -1 .. 1
        /\ t.height = max_height(t.left.height, t.right.height) + 1
        /\ \A k \in LbnsIn(t.left) : k < t.lbn
        /\ \A k \in LbnsIn(t.right) : k > t.lbn

\* What the code's own search says of each key.
StatusIn(t) ==
    [k \in TreeKeys |->
        LET found == search_tree_node(t, k)
        IN  IF IsNil(found) THEN "absent" ELSE IF found.valid THEN "valid" ELSE "invalid"]

\* The tree, read by the code's own search, does what the abstract index does:
\* a rotation or a deletion (nvm0avltree.cc 135-225) never hides, loses or
\* revives a key, and the two counters say how many there are.
Index == INSTANCE OrderedIndex WITH
    Keys <- TreeKeys, status <- StatusIn(tree), total <- count_total, invalid <- count_invalid

ImplementsIndex == Index!Spec
=============================================================================
