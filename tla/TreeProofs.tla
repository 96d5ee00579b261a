----------------------------- MODULE TreeProofs -----------------------------
(***************************************************************************)
(* Theorems about the AVL tree, for any number of keys.                    *)
(***************************************************************************)
EXTENDS AVLTree, FiniteSetTheorems, WellFoundedInduction, TLAPS

(***************************************************************************)
(* Induction, as a fact about sets                                         *)
(***************************************************************************)
LEMMA LeastNatural ==
    ASSUME NEW S \in SUBSET Nat, S # {}
    PROVE  \E m \in S : \A k \in S : m <= k
<1>. DEFINE R == {p \in Nat \X Nat : p[1] < p[2]}
<1>1. IsWellFoundedOn(R, Nat)
  <2>1. R = OpToRel(<, Nat)
    BY Zenon DEF OpToRel
  <2>. QED BY <2>1, NatLessThanWellFounded, Zenon
<1>2. \A k, m \in Nat : k < m => <<k, m>> \in R
  OBVIOUS
<1>. HIDE DEF R
<1>3. PICK m \in S : \A k \in S : <<k, m>> \notin R
  BY <1>1, WFMin
<1>4. m \in Nat /\ \A k \in S : k \in Nat
  OBVIOUS
<1>5. ASSUME NEW k \in S PROVE m <= k
  <2>1. ~ (k < m)
    BY <1>2, <1>3, <1>4, Zenon
  <2>. QED BY <1>4, <2>1
<1>. QED BY <1>5

LEMMA Naturals ==
    ASSUME NEW S, 0 \in S, \A n \in Nat : n \in S => n + 1 \in S
    PROVE  Nat \subseteq S
<1>. DEFINE Missing == Nat \ S
<1>. SUFFICES ASSUME Missing # {} PROVE FALSE
  OBVIOUS
<1>1. PICK m \in Missing : \A k \in Missing : m <= k
  <2>1. Missing \in SUBSET Nat
    OBVIOUS
  <2>. QED BY <2>1, LeastNatural
<1>2. m # 0 /\ m - 1 \in Nat /\ (m - 1) + 1 = m /\ ~ (m <= m - 1)
  BY <1>1
<1>3. m - 1 \in S
  BY <1>1, <1>2
<1>. QED BY <1>1, <1>2, <1>3

(***************************************************************************)
(* Trees                                                                   *)
(***************************************************************************)
\* Every tree of D is empty, or a node of exact height whose children are in D.
Closed(D) ==
    \A t \in D :
        /\ t.height \in Nat
        /\ t # Nil => /\ t = Node(t.lbn, t.valid, t.left, t.right)
                      /\ t.lbn \in TreeKeys /\ t.valid \in BOOLEAN
                      /\ t.left \in D /\ t.right \in D

IsTree(t) == \E D : t \in D /\ Closed(D)

LEMMA Fields ==
    ASSUME NEW k, NEW v, NEW l, NEW r
    PROVE  /\ Node(k, v, l, r).lbn = k /\ Node(k, v, l, r).valid = v
           /\ Node(k, v, l, r).left = l /\ Node(k, v, l, r).right = r
           /\ Node(k, v, l, r).height = max_height(l.height, r.height) + 1
BY DEF Node

LEMMA Heights ==
    ASSUME NEW l \in Nat, NEW r \in Nat
    PROVE  /\ max_height(l, r) \in Nat /\ l <= max_height(l, r) /\ r <= max_height(l, r)
           /\ max_height(l, r) \in {l, r}
BY DEF max_height

LEMMA NilTree == IsTree(Nil) /\ Nil.height = 0 /\ IsNil(Nil)
<1>1. Nil.height = 0 /\ IsNil(Nil)
  BY DEF Nil, IsNil
<1>2. Closed({Nil})
  BY <1>1 DEF Closed
<1>. QED BY <1>1, <1>2 DEF IsTree

\* A tree is empty or a node above two trees.
LEMMA TreeCases ==
    ASSUME NEW D, Closed(D), NEW t \in D
    PROVE  /\ t.height \in Nat /\ IsTree(t)
           /\ IsNil(t) <=> t = Nil
           /\ t # Nil => /\ t = Node(t.lbn, t.valid, t.left, t.right)
                         /\ t.lbn \in TreeKeys /\ t.valid \in BOOLEAN
                         /\ t.left \in D /\ t.right \in D
                         /\ t.left.height \in Nat /\ t.right.height \in Nat
                         /\ t.height = max_height(t.left.height, t.right.height) + 1
                         /\ t.left.height < t.height /\ t.right.height < t.height
<1>1. CASE t = Nil
  BY <1>1, NilTree
<1>2. CASE t # Nil
  <2>1. /\ t = Node(t.lbn, t.valid, t.left, t.right)
        /\ t.lbn \in TreeKeys /\ t.valid \in BOOLEAN
        /\ t.left \in D /\ t.right \in D
        /\ t.left.height \in Nat /\ t.right.height \in Nat /\ t.height \in Nat
    BY <1>2 DEF Closed
  <2>2. t.height = max_height(t.left.height, t.right.height) + 1
    BY <2>1, Fields
  <2>3. t.left.height < t.height /\ t.right.height < t.height /\ t.height # 0
    BY <2>1, <2>2, Heights
  <2>. QED BY <1>2, <2>1, <2>2, <2>3 DEF IsNil, IsTree
<1>. QED BY <1>1, <1>2

LEMMA TreeParts ==
    ASSUME NEW t, IsTree(t)
    PROVE  /\ t.height \in Nat
           /\ IsNil(t) <=> t = Nil
           /\ t # Nil => /\ t = Node(t.lbn, t.valid, t.left, t.right)
                         /\ t.lbn \in TreeKeys /\ t.valid \in BOOLEAN
                         /\ IsTree(t.left) /\ IsTree(t.right)
                         /\ t.left.height \in Nat /\ t.right.height \in Nat
                         /\ t.height = max_height(t.left.height, t.right.height) + 1
                         /\ t.left.height < t.height /\ t.right.height < t.height
<1>1. PICK D : t \in D /\ Closed(D)
  BY DEF IsTree
<1>. QED BY <1>1, TreeCases

LEMMA NodeIsTree ==
    ASSUME NEW k \in TreeKeys, NEW v \in BOOLEAN, NEW l, NEW r, IsTree(l), IsTree(r)
    PROVE  /\ IsTree(Node(k, v, l, r)) /\ Node(k, v, l, r) # Nil
           /\ Node(k, v, l, r).height \in Nat
<1>1. PICK D : l \in D /\ Closed(D)
  BY DEF IsTree
<1>2. PICK E : r \in E /\ Closed(E)
  BY DEF IsTree
<1>. DEFINE n == Node(k, v, l, r)
<1>3. n.height \in Nat /\ n.height # 0
  BY <1>1, <1>2, Fields, Heights DEF Closed
<1>4. n = Node(n.lbn, n.valid, n.left, n.right) /\ n.lbn = k /\ n.valid = v /\ n.left = l /\ n.right = r
  BY Fields
<1>. HIDE DEF n
<1>5. Closed({n} \cup D \cup E)
  BY <1>1, <1>2, <1>3, <1>4 DEF Closed
<1>6. n # Nil
  BY <1>3, NilTree
<1>. QED BY <1>3, <1>5, <1>6 DEF IsTree, n

\* What holds of the empty tree, and of a node when it holds of its children.
LEMMA TreeInduction ==
    ASSUME NEW D, Closed(D), NEW B,
           \A t \in D : (t # Nil => t.left \in B /\ t.right \in B) => t \in B
    PROVE  D \subseteq B
<1>. DEFINE H == {t.height : t \in D \ B}
<1>. SUFFICES ASSUME H # {} PROVE FALSE
  OBVIOUS
<1>1. PICK m \in H : \A k \in H : m <= k
  <2>1. H \in SUBSET Nat
    BY DEF Closed
  <2>. QED BY <2>1, LeastNatural
<1>2. PICK t \in D : t \notin B /\ t.height = m
  BY <1>1
<1>3. t # Nil
  BY <1>2
<1>4. /\ t.left \in D /\ t.right \in D /\ t.height \in Nat
      /\ t.left.height \in Nat /\ t.right.height \in Nat
      /\ t.left.height < t.height /\ t.right.height < t.height
  BY <1>3, TreeCases
<1>5. ~ (m <= t.left.height) /\ ~ (m <= t.right.height)
  BY <1>2, <1>4
<1>6. t.left \in B /\ t.right \in B
  BY <1>1, <1>4, <1>5
<1>. QED BY <1>2, <1>6

(***************************************************************************)
(* A function that is defined from one number to the next                  *)
(***************************************************************************)
NextOf(which, x) == IF which = "deeper" THEN Deeper(x) ELSE SweepRound(x)

Counted(which, first, n, f) ==
    f = [j \in 0 .. n |-> IF j = 0 THEN first ELSE NextOf(which, f[j - 1])]

LEMMA CountedFunction ==
    ASSUME NEW which, NEW first, NEW n \in Nat
    PROVE  \E f : Counted(which, first, n, f)
<1>. DEFINE Has(m) == \E f : f = [j \in 0 .. m |-> IF j = 0 THEN first ELSE NextOf(which, f[j - 1])]
            S == {m \in Nat : Has(m)}
<1>1. Has(0)
  <2>1. [j \in 0 .. 0 |-> first] = [j \in 0 .. 0 |-> IF j = 0 THEN first ELSE NextOf(which, [i \in 0 .. 0 |-> first][j - 1])]
    OBVIOUS
  <2>. QED BY <2>1
<1>2. ASSUME NEW m \in Nat, Has(m) PROVE Has(m + 1)
  <2>1. PICK f : f = [j \in 0 .. m |-> IF j = 0 THEN first ELSE NextOf(which, f[j - 1])]
    BY <1>2
  <2>. DEFINE g == [j \in 0 .. m + 1 |-> IF j = 0 THEN first ELSE NextOf(which, f[j - 1])]
  <2>2. \A j \in 0 .. m : g[j] = f[j]
    BY <2>1
  <2>3. \A j \in 0 .. m + 1 : j # 0 => j - 1 \in 0 .. m
    OBVIOUS
  <2>4. g = [j \in 0 .. m + 1 |-> IF j = 0 THEN first ELSE NextOf(which, g[j - 1])]
    BY <2>2, <2>3
  <2>. QED BY <2>4
<1>. HIDE DEF Has
<1>3. 0 \in S /\ \A m \in Nat : m \in S => m + 1 \in S
  BY <1>1, <1>2
<1>4. Nat \subseteq S
  <2>. HIDE DEF S
  <2>. QED BY <1>3, Naturals
<1>5. Has(n)
  BY <1>4
<1>. QED BY <1>5 DEF Has, Counted

(***************************************************************************)
(* The subtrees of a tree                                                  *)
(***************************************************************************)
LEMMA SubtreesSteps ==
    ASSUME NEW t, t.height \in Nat
    PROVE  \E down : /\ Subtrees(t) = down[t.height]
                     /\ down[0] = {t}
                     /\ \A n \in 1 .. t.height : down[n] = Deeper(down[n - 1])
<1>. DEFINE h == t.height
            Defines(f) == f = [n \in 0 .. h |-> IF n = 0 THEN {t} ELSE Deeper(f[n - 1])]
            down == CHOOSE f : Defines(f)
<1>1. Subtrees(t) = down[h]
  BY Zenon DEF Subtrees
<1>2. \E f : f = [n \in 0 .. h |-> IF n = 0 THEN {t} ELSE NextOf("deeper", f[n - 1])]
  <2>1. PICK f : Counted("deeper", {t}, h, f)
    BY CountedFunction
  <2>. QED BY <2>1 DEF Counted
<1>3. \E f : Defines(f)
  BY <1>2 DEF NextOf
<1>4. Defines(down)
  BY <1>3, Zenon
<1>. HIDE DEF down
<1>5. 0 \in 0 .. h /\ \A n \in 1 .. h : n \in 0 .. h /\ n # 0
  OBVIOUS
<1>6. down[0] = {t} /\ \A n \in 1 .. h : down[n] = Deeper(down[n - 1])
  BY <1>4, <1>5
<1>. QED BY <1>1, <1>6

\* After n levels the children of all but the lowest nodes are there.
LEMMA SubtreesWithin ==
    ASSUME NEW D, Closed(D), NEW t \in D
    PROVE  /\ t \in Subtrees(t) /\ Subtrees(t) \subseteq D
           /\ \A u \in Subtrees(t) : u # Nil => u.left \in Subtrees(t) /\ u.right \in Subtrees(t)
<1>. DEFINE h == t.height
<1>1. h \in Nat
  BY TreeCases
<1>2. PICK down : /\ Subtrees(t) = down[h]
                  /\ down[0] = {t}
                  /\ \A n \in 1 .. h : down[n] = Deeper(down[n - 1])
  BY <1>1, SubtreesSteps
<1>. DEFINE Deep(n) == /\ t \in down[n] /\ down[n] \subseteq D
                       /\ \A u \in down[n] : u # Nil /\ h - n < u.height
                                             => u.left \in down[n] /\ u.right \in down[n]
            S == {n \in Nat : n <= h => Deep(n)}
<1>3. Deep(0)
  BY <1>1, <1>2
<1>4. ASSUME NEW n \in Nat, n + 1 <= h, Deep(n) PROVE Deep(n + 1)
  <2>1. down[n + 1] = Deeper(down[n])
    <3>1. n + 1 \in 1 .. h /\ (n + 1) - 1 = n
      BY <1>1, <1>4
    <3>. QED BY <1>2, <3>1
  <2>2. \A u \in D : IsNil(u) <=> u = Nil
    BY TreeCases
  <2>3. t \in down[n + 1] /\ down[n] \subseteq down[n + 1]
    BY <1>4, <2>1 DEF Deeper
  <2>4. \A u \in down[n] : u # Nil => u.left \in down[n + 1] /\ u.right \in down[n + 1]
    BY <1>4, <2>1, <2>2 DEF Deeper
  <2>5. \A u \in down[n + 1] : u \in down[n] \/ \E w \in down[n] : w # Nil /\ (u = w.left \/ u = w.right)
    BY <1>4, <2>1, <2>2 DEF Deeper
  <2>6. down[n + 1] \subseteq D
    BY <1>4, <2>5 DEF Closed
  <2>7. ASSUME NEW u \in down[n + 1], u # Nil, h - (n + 1) < u.height
        PROVE  u.left \in down[n + 1] /\ u.right \in down[n + 1]
    <3>1. CASE u \in down[n]
      BY <2>4, <2>7, <3>1
    <3>2. CASE u \notin down[n]
      <4>1. PICK w \in down[n] : w # Nil /\ (u = w.left \/ u = w.right)
        BY <2>5, <3>2
      <4>2. w \in D
        BY <1>4, <4>1
      <4>3. w.height \in Nat /\ u.height \in Nat /\ u.height < w.height
        BY <4>1, <4>2, TreeCases
      <4>4. h - n < w.height
        BY <1>1, <2>7, <4>3
      <4>. QED BY <1>4, <3>2, <4>1, <4>4
    <3>. QED BY <3>1, <3>2
  <2>. QED BY <2>3, <2>6, <2>7
<1>. HIDE DEF Deep
<1>5. 0 \in S /\ \A n \in Nat : n \in S => n + 1 \in S
  BY <1>1, <1>3, <1>4
<1>6. Deep(h)
  <2>1. Nat \subseteq S
    <3>. HIDE DEF S
    <3>. QED BY <1>5, Naturals
  <2>. QED BY <1>1, <2>1
<1>7. \A u \in D : u # Nil => h - h < u.height
  <2>1. \A u \in D : u # Nil => u.height \in Nat /\ u.height # 0
    BY TreeCases DEF IsNil
  <2>. QED BY <1>1, <2>1
<1>. QED BY <1>2, <1>6, <1>7 DEF Deep

LEMMA SubtreesClosed ==
    ASSUME NEW t, IsTree(t)
    PROVE  /\ t \in Subtrees(t) /\ Closed(Subtrees(t))
           /\ \A u \in Subtrees(t) : u.height \in Nat /\ u.height <= t.height
<1>1. PICK D : t \in D /\ Closed(D)
  BY DEF IsTree
<1>2. /\ t \in Subtrees(t) /\ Subtrees(t) \subseteq D
      /\ \A u \in Subtrees(t) : u # Nil => u.left \in Subtrees(t) /\ u.right \in Subtrees(t)
  BY <1>1, SubtreesWithin
<1>3. Closed(Subtrees(t))
  BY <1>1, <1>2 DEF Closed
<1>. DEFINE Low == {u \in D : u.height <= t.height}
<1>4. Closed(Low) /\ t \in Low
  <2>1. \A u \in D : u.height \in Nat
    BY <1>1, TreeCases
  <2>2. ASSUME NEW u \in Low, u # Nil PROVE u.left \in Low /\ u.right \in Low
    <3>1. /\ u.left \in D /\ u.right \in D /\ u.left.height \in Nat /\ u.right.height \in Nat
          /\ u.left.height < u.height /\ u.right.height < u.height
      BY <1>1, <2>2, TreeCases
    <3>. QED BY <1>1, <2>1, <3>1
  <2>. QED BY <1>1, <2>1, <2>2 DEF Closed
<1>5. Subtrees(t) \subseteq Low
  <2>. HIDE DEF Low
  <2>. QED BY <1>4, SubtreesWithin
<1>. QED BY <1>2, <1>3, <1>5 DEF Closed

LEMMA SubtreesOfNode ==
    ASSUME NEW t, IsTree(t), t # Nil
    PROVE  Subtrees(t) = {t} \cup Subtrees(t.left) \cup Subtrees(t.right)
<1>. DEFINE D == {t} \cup Subtrees(t.left) \cup Subtrees(t.right)
<1>1. /\ t.left \in Subtrees(t.left) /\ Closed(Subtrees(t.left))
      /\ t.right \in Subtrees(t.right) /\ Closed(Subtrees(t.right))
  BY TreeParts, SubtreesClosed
<1>2. /\ t \in Subtrees(t) /\ Closed(Subtrees(t))
  BY SubtreesClosed
<1>3. Subtrees(t) \subseteq D
  <2>1. Closed(D)
    BY <1>1, TreeParts DEF Closed
  <2>2. t \in D
    OBVIOUS
  <2>. HIDE DEF D
  <2>. QED BY <2>1, <2>2, SubtreesWithin
<1>4. t.left \in Subtrees(t) /\ t.right \in Subtrees(t)
  BY <1>2 DEF Closed
<1>5. Subtrees(t.left) \subseteq Subtrees(t) /\ Subtrees(t.right) \subseteq Subtrees(t)
  BY <1>2, <1>4, SubtreesWithin
<1>. QED BY <1>2, <1>3, <1>5

LEMMA SubtreesOfNil == Subtrees(Nil) = {Nil}
<1>1. Closed({Nil}) /\ Nil \in {Nil}
  BY NilTree DEF Closed
<1>. QED BY <1>1, SubtreesWithin

(***************************************************************************)
(* The recursive functions of the code exist and unroll                    *)
(***************************************************************************)
Base(op, k) ==
    IF op = "insert" THEN init_tree_node(k)
    ELSE IF op = "delete" THEN [j \in TreeKeys |-> Nil]
    ELSE Nil

Step(op, k, t, x, y) ==
    CASE op = "search" -> IF t.lbn = k THEN t ELSE IF k < t.lbn THEN x ELSE y
      [] op = "insert" -> IF k < t.lbn THEN AfterInsert(Node(t.lbn, t.valid, x, t.right), k)
                          ELSE AfterInsert(Node(t.lbn, t.valid, t.left, y), k)
      [] op = "invalidate" -> IF k = t.lbn THEN [t EXCEPT !.valid = FALSE]
                              ELSE IF k < t.lbn THEN [t EXCEPT !.left = x]
                              ELSE [t EXCEPT !.right = y]
      [] op = "min" -> IF IsNil(t.left) THEN t ELSE x
      [] op = "delete" -> [j \in TreeKeys |->
                             IF j < t.lbn THEN AfterDelete(Node(t.lbn, t.valid, x[j], t.right))
                             ELSE IF j > t.lbn THEN AfterDelete(Node(t.lbn, t.valid, t.left, y[j]))
                             ELSE WithoutRoot(t, y)]
      [] op = "find" -> IF ~ t.valid THEN t ELSE IF IsNil(x) THEN y ELSE x

\* f gives the result of op for every tree of D.
Results(op, k, D, f) ==
    f = [t \in D |-> IF IsNil(t) THEN Base(op, k) ELSE Step(op, k, t, f[t.left], f[t.right])]

LEMMA ResultsMeans ==
    ASSUME NEW op, NEW k, NEW D, NEW f, Results(op, k, D, f), NEW t \in D
    PROVE  f[t] = IF IsNil(t) THEN Base(op, k) ELSE Step(op, k, t, f[t.left], f[t.right])
BY DEF Results

\* By the height of the trees it is defined for.
LEMMA ResultsExist ==
    ASSUME NEW D, Closed(D), NEW op, NEW k, NEW n \in Nat, \A t \in D : t.height <= n
    PROVE  \E f : Results(op, k, D, f)
<1>. DEFINE Part(m) == {t \in D : t.height <= m}
            Has(m) == \E f : Results(op, k, Part(m), f)
            S == {m \in Nat : Has(m)}
<1>1. \A t \in D : /\ t.height \in Nat
                   /\ ~ IsNil(t) => /\ t.left \in D /\ t.right \in D
                                    /\ t.left.height \in Nat /\ t.right.height \in Nat
                                    /\ t.left.height < t.height /\ t.right.height < t.height
  BY TreeCases
<1>2. Has(0)
  <2>1. \A t \in Part(0) : IsNil(t)
    BY <1>1 DEF IsNil
  <2>2. Results(op, k, Part(0), [t \in Part(0) |-> Base(op, k)])
    <3>. HIDE DEF Part
    <3>. QED BY <2>1 DEF Results
  <2>. QED BY <2>2
<1>3. ASSUME NEW m \in Nat, Has(m) PROVE Has(m + 1)
  <2>1. PICK f : Results(op, k, Part(m), f)
    BY <1>3
  <2>. DEFINE g == [t \in Part(m + 1) |-> IF IsNil(t) THEN Base(op, k)
                                          ELSE Step(op, k, t, f[t.left], f[t.right])]
  <2>2. \A t \in Part(m + 1) : ~ IsNil(t) => t.left \in Part(m) /\ t.right \in Part(m)
    BY <1>1
  <2>3. \A t \in Part(m) : t \in Part(m + 1)
    BY <1>1
  <2>. HIDE DEF Part
  <2>4. \A t \in Part(m) : g[t] = f[t]
    BY <2>1, <2>3, ResultsMeans
  <2>5. \A t \in Part(m + 1) : g[t] = IF IsNil(t) THEN Base(op, k) ELSE Step(op, k, t, g[t.left], g[t.right])
    BY <2>2, <2>4
  <2>6. Results(op, k, Part(m + 1), g)
    BY <2>5 DEF Results
  <2>. QED BY <2>6
<1>4. Part(n) = D
  OBVIOUS
<1>5. Has(n)
  <2>. HIDE DEF Has
  <2>1. 0 \in S /\ \A m \in Nat : m \in S => m + 1 \in S
    BY <1>2, <1>3
  <2>2. Nat \subseteq S
    <3>. HIDE DEF S
    <3>. QED BY <2>1, Naturals
  <2>. QED BY <2>2
<1>. HIDE DEF Part
<1>. QED BY <1>4, <1>5

LEMMA ResultsAgree ==
    ASSUME NEW D, Closed(D), NEW E, Closed(E), NEW op, NEW k,
           NEW f, Results(op, k, D, f), NEW g, Results(op, k, E, g),
           NEW t \in D \cap E
    PROVE  f[t] = g[t]
<1>. DEFINE B == {u \in D \cap E : f[u] = g[u]}
<1>1. Closed(D \cap E)
  BY DEF Closed
<1>2. ASSUME NEW u \in D \cap E, u # Nil => u.left \in B /\ u.right \in B
      PROVE  u \in B
  <2>1. /\ f[u] = IF IsNil(u) THEN Base(op, k) ELSE Step(op, k, u, f[u.left], f[u.right])
        /\ g[u] = IF IsNil(u) THEN Base(op, k) ELSE Step(op, k, u, g[u.left], g[u.right])
    BY ResultsMeans
  <2>2. IsNil(u) <=> u = Nil
    BY TreeCases
  <2>. QED BY <1>2, <2>1, <2>2
<1>3. D \cap E \subseteq B
  <2>. HIDE DEF B
  <2>. QED BY <1>1, <1>2, TreeInduction
<1>. QED BY <1>3

Result(op, k, t) == (CHOOSE f : Results(op, k, Subtrees(t), f))[t]

LEMMA ResultIs ==
    ASSUME NEW op, NEW k, NEW t, IsTree(t), NEW D, Closed(D), t \in D, NEW f, Results(op, k, D, f)
    PROVE  Result(op, k, t) = f[t]
<1>. DEFINE g == CHOOSE g : Results(op, k, Subtrees(t), g)
<1>1. /\ Closed(Subtrees(t)) /\ t \in Subtrees(t) /\ t.height \in Nat
      /\ \A u \in Subtrees(t) : u.height <= t.height
  BY SubtreesClosed, TreeParts
<1>2. \E h : Results(op, k, Subtrees(t), h)
  BY <1>1, ResultsExist
<1>3. Results(op, k, Subtrees(t), g)
  BY <1>2, Zenon
<1>4. Result(op, k, t) = g[t]
  BY Zenon DEF Result
<1>. HIDE DEF g
<1>. QED BY <1>1, <1>3, <1>4, ResultsAgree

LEMMA ResultOfNil ==
    ASSUME NEW op, NEW k
    PROVE  Result(op, k, Nil) = Base(op, k)
<1>1. IsTree(Nil) /\ Nil \in Subtrees(Nil) /\ Closed(Subtrees(Nil)) /\ IsNil(Nil) /\ 0 \in Nat
      /\ \A u \in Subtrees(Nil) : u.height <= 0
  BY NilTree, SubtreesClosed
<1>2. PICK f : Results(op, k, Subtrees(Nil), f)
  BY <1>1, ResultsExist
<1>3. Result(op, k, Nil) = f[Nil]
  BY <1>1, <1>2, ResultIs
<1>. QED BY <1>1, <1>2, <1>3, ResultsMeans

LEMMA ResultOfNode ==
    ASSUME NEW op, NEW k, NEW t, IsTree(t), t # Nil
    PROVE  Result(op, k, t) = Step(op, k, t, Result(op, k, t.left), Result(op, k, t.right))
<1>. DEFINE D == Subtrees(t)
<1>1. /\ Closed(D) /\ t \in D /\ t.height \in Nat /\ ~ IsNil(t)
      /\ \A u \in D : u.height <= t.height
  BY SubtreesClosed, TreeParts
<1>2. t.left \in D /\ t.right \in D /\ IsTree(t.left) /\ IsTree(t.right)
  BY <1>1, TreeParts DEF Closed
<1>. HIDE DEF D
<1>3. PICK f : Results(op, k, D, f)
  BY <1>1, ResultsExist
<1>4. Result(op, k, t) = f[t] /\ Result(op, k, t.left) = f[t.left] /\ Result(op, k, t.right) = f[t.right]
  BY <1>1, <1>2, <1>3, ResultIs
<1>. QED BY <1>1, <1>3, <1>4, ResultsMeans

(***************************************************************************)
(* Which of them each function of the code is                              *)
(***************************************************************************)
LEMMA SearchResult ==
    ASSUME NEW t, IsTree(t), NEW k
    PROVE  search_tree_node(t, k) = Result("search", k, t)
<1>. DEFINE D == Subtrees(t)
            Defines(f) == f = [u \in D |-> IF IsNil(u) THEN Nil
                                           ELSE IF u.lbn = k THEN u ELSE IF k < u.lbn THEN f[u.left] ELSE f[u.right]]
            g == CHOOSE f : Defines(f)
<1>1. \A f : Defines(f) <=> Results("search", k, D, f)
  BY DEF Results, Base, Step
<1>2. search_tree_node(t, k) = g[t]
  BY Zenon DEF search_tree_node, Recursion
<1>3. t.height \in Nat /\ Closed(D) /\ t \in D /\ \A u \in D : u.height <= t.height
  BY SubtreesClosed, TreeParts
<1>. HIDE DEF D
<1>4. \E f : Results("search", k, D, f)
  BY <1>3, ResultsExist
<1>5. Defines(g)
  <2>. HIDE DEF Defines
  <2>1. \E f : Defines(f)
    BY <1>1, <1>4
  <2>. QED BY <2>1, Zenon
<1>. HIDE DEF g, Defines
<1>. QED BY <1>1, <1>2, <1>3, <1>5, ResultIs

LEMMA InsertResult ==
    ASSUME NEW t, IsTree(t), NEW k
    PROVE  insert_tree_node(t, k) = Result("insert", k, t)
<1>. DEFINE D == Subtrees(t)
            Defines(f) == f = [u \in D |-> IF IsNil(u) THEN init_tree_node(k)
                                           ELSE IF k < u.lbn THEN AfterInsert(Node(u.lbn, u.valid, f[u.left], u.right), k)
                                                ELSE AfterInsert(Node(u.lbn, u.valid, u.left, f[u.right]), k)]
            g == CHOOSE f : Defines(f)
<1>1. \A f : Defines(f) <=> Results("insert", k, D, f)
  BY DEF Results, Base, Step
<1>2. insert_tree_node(t, k) = g[t]
  BY Zenon DEF insert_tree_node, Recursion
<1>3. t.height \in Nat /\ Closed(D) /\ t \in D /\ \A u \in D : u.height <= t.height
  BY SubtreesClosed, TreeParts
<1>. HIDE DEF D
<1>4. \E f : Results("insert", k, D, f)
  BY <1>3, ResultsExist
<1>5. Defines(g)
  <2>. HIDE DEF Defines
  <2>1. \E f : Defines(f)
    BY <1>1, <1>4
  <2>. QED BY <2>1, Zenon
<1>. HIDE DEF g, Defines
<1>. QED BY <1>1, <1>2, <1>3, <1>5, ResultIs

LEMMA InvalidateResult ==
    ASSUME NEW t, IsTree(t), NEW k
    PROVE  Invalidated(t, k) = Result("invalidate", k, t)
<1>. DEFINE D == Subtrees(t)
            Defines(f) == f = [u \in D |-> IF IsNil(u) THEN Nil
                                           ELSE IF k = u.lbn THEN [u EXCEPT !.valid = FALSE]
                                                ELSE IF k < u.lbn THEN [u EXCEPT !.left = f[u.left]]
                                                ELSE [u EXCEPT !.right = f[u.right]]]
            g == CHOOSE f : Defines(f)
<1>1. \A f : Defines(f) <=> Results("invalidate", k, D, f)
  BY DEF Results, Base, Step
<1>2. Invalidated(t, k) = g[t]
  BY Zenon DEF Invalidated, Recursion
<1>3. t.height \in Nat /\ Closed(D) /\ t \in D /\ \A u \in D : u.height <= t.height
  BY SubtreesClosed, TreeParts
<1>. HIDE DEF D
<1>4. \E f : Results("invalidate", k, D, f)
  BY <1>3, ResultsExist
<1>5. Defines(g)
  <2>. HIDE DEF Defines
  <2>1. \E f : Defines(f)
    BY <1>1, <1>4
  <2>. QED BY <2>1, Zenon
<1>. HIDE DEF g, Defines
<1>. QED BY <1>1, <1>2, <1>3, <1>5, ResultIs

LEMMA MinResult ==
    ASSUME NEW t, IsTree(t)
    PROVE  min_value_node(t) = Result("min", 0, t)
<1>. DEFINE D == Subtrees(t)
            Defines(f) == f = [u \in D |-> IF IsNil(u) THEN Nil
                                           ELSE IF IsNil(u.left) THEN u ELSE f[u.left]]
            g == CHOOSE f : Defines(f)
<1>1. \A f : Defines(f) <=> Results("min", 0, D, f)
  BY DEF Results, Base, Step
<1>2. min_value_node(t) = g[t]
  BY Zenon DEF min_value_node, Recursion
<1>3. t.height \in Nat /\ Closed(D) /\ t \in D /\ \A u \in D : u.height <= t.height
  BY SubtreesClosed, TreeParts
<1>. HIDE DEF D
<1>4. \E f : Results("min", 0, D, f)
  BY <1>3, ResultsExist
<1>5. Defines(g)
  <2>. HIDE DEF Defines
  <2>1. \E f : Defines(f)
    BY <1>1, <1>4
  <2>. QED BY <2>1, Zenon
<1>. HIDE DEF g, Defines
<1>. QED BY <1>1, <1>2, <1>3, <1>5, ResultIs

LEMMA DeleteResult ==
    ASSUME NEW t, IsTree(t), NEW k
    PROVE  physical_delete_tree_node(t, k) = Result("delete", 0, t)[k]
<1>. DEFINE D == Subtrees(t)
            Defines(f) == f = [u \in D |-> IF IsNil(u) THEN [j \in TreeKeys |-> Nil]
                                           ELSE [j \in TreeKeys |->
                                                       IF j < u.lbn THEN AfterDelete(Node(u.lbn, u.valid, f[u.left][j], u.right))
                                                       ELSE IF j > u.lbn THEN AfterDelete(Node(u.lbn, u.valid, u.left, f[u.right][j]))
                                                       ELSE WithoutRoot(u, f[u.right])]]
            g == CHOOSE f : Defines(f)
<1>1. \A f : Defines(f) <=> Results("delete", 0, D, f)
  BY DEF Results, Base, Step
<1>2. physical_delete_tree_node(t, k) = g[t][k]
  BY Zenon DEF physical_delete_tree_node, Recursion
<1>3. t.height \in Nat /\ Closed(D) /\ t \in D /\ \A u \in D : u.height <= t.height
  BY SubtreesClosed, TreeParts
<1>. HIDE DEF D
<1>4. \E f : Results("delete", 0, D, f)
  BY <1>3, ResultsExist
<1>5. Defines(g)
  <2>. HIDE DEF Defines
  <2>1. \E f : Defines(f)
    BY <1>1, <1>4
  <2>. QED BY <2>1, Zenon
<1>. HIDE DEF g, Defines
<1>. QED BY <1>1, <1>2, <1>3, <1>5, ResultIs

LEMMA FindResult ==
    ASSUME NEW t, IsTree(t)
    PROVE  find_invalid_tree_node(t) = Result("find", 0, t)
<1>. DEFINE D == Subtrees(t)
            Defines(f) == f = [u \in D |-> IF IsNil(u) THEN Nil
                                           ELSE IF ~ u.valid THEN u ELSE IF IsNil(f[u.left]) THEN f[u.right] ELSE f[u.left]]
            g == CHOOSE f : Defines(f)
<1>1. \A f : Defines(f) <=> Results("find", 0, D, f)
  BY DEF Results, Base, Step
<1>2. find_invalid_tree_node(t) = g[t]
  BY Zenon DEF find_invalid_tree_node, Recursion
<1>3. t.height \in Nat /\ Closed(D) /\ t \in D /\ \A u \in D : u.height <= t.height
  BY SubtreesClosed, TreeParts
<1>. HIDE DEF D
<1>4. \E f : Results("find", 0, D, f)
  BY <1>3, ResultsExist
<1>5. Defines(g)
  <2>. HIDE DEF Defines
  <2>1. \E f : Defines(f)
    BY <1>1, <1>4
  <2>. QED BY <2>1, Zenon
<1>. HIDE DEF g, Defines
<1>. QED BY <1>1, <1>2, <1>3, <1>5, ResultIs

(***************************************************************************)
(* One call of each function                                               *)
(***************************************************************************)
LEMMA CallsOnNil ==
    ASSUME NEW k \in TreeKeys
    PROVE  /\ search_tree_node(Nil, k) = Nil
           /\ insert_tree_node(Nil, k) = Node(k, TRUE, Nil, Nil)
           /\ Invalidated(Nil, k) = Nil
           /\ physical_delete_tree_node(Nil, k) = Nil
           /\ find_invalid_tree_node(Nil) = Nil
<1>1. IsTree(Nil)
  BY NilTree
<1>2. search_tree_node(Nil, k) = Nil
  BY <1>1, SearchResult, ResultOfNil DEF Base
<1>3. insert_tree_node(Nil, k) = Node(k, TRUE, Nil, Nil)
  BY <1>1, InsertResult, ResultOfNil DEF Base, init_tree_node
<1>4. Invalidated(Nil, k) = Nil
  BY <1>1, InvalidateResult, ResultOfNil DEF Base
<1>5. physical_delete_tree_node(Nil, k) = Nil
  BY <1>1, DeleteResult, ResultOfNil DEF Base
<1>6. find_invalid_tree_node(Nil) = Nil
  BY <1>1, FindResult, ResultOfNil DEF Base
<1>. QED BY <1>2, <1>3, <1>4, <1>5, <1>6

LEMMA SearchCall ==
    ASSUME NEW t, IsTree(t), t # Nil, NEW k
    PROVE  search_tree_node(t, k) = IF t.lbn = k THEN t
                                    ELSE IF k < t.lbn THEN search_tree_node(t.left, k)
                                    ELSE search_tree_node(t.right, k)
<1>1. IsTree(t.left) /\ IsTree(t.right)
  BY TreeParts
<1>. QED BY <1>1, SearchResult, ResultOfNode DEF Step

LEMMA InsertCall ==
    ASSUME NEW t, IsTree(t), t # Nil, NEW k
    PROVE  insert_tree_node(t, k) =
              IF k < t.lbn THEN AfterInsert(Node(t.lbn, t.valid, insert_tree_node(t.left, k), t.right), k)
              ELSE AfterInsert(Node(t.lbn, t.valid, t.left, insert_tree_node(t.right, k)), k)
<1>1. IsTree(t.left) /\ IsTree(t.right)
  BY TreeParts
<1>. QED BY <1>1, InsertResult, ResultOfNode DEF Step

LEMMA InvalidateCall ==
    ASSUME NEW t, IsTree(t), t # Nil, NEW k
    PROVE  Invalidated(t, k) = IF k = t.lbn THEN [t EXCEPT !.valid = FALSE]
                               ELSE IF k < t.lbn THEN [t EXCEPT !.left = Invalidated(t.left, k)]
                               ELSE [t EXCEPT !.right = Invalidated(t.right, k)]
<1>1. IsTree(t.left) /\ IsTree(t.right)
  BY TreeParts
<1>. QED BY <1>1, InvalidateResult, ResultOfNode DEF Step

LEMMA MinCall ==
    ASSUME NEW t, IsTree(t), t # Nil
    PROVE  min_value_node(t) = IF IsNil(t.left) THEN t ELSE min_value_node(t.left)
<1>1. IsTree(t.left)
  BY TreeParts
<1>. QED BY <1>1, MinResult, ResultOfNode DEF Step

LEMMA FindCall ==
    ASSUME NEW t, IsTree(t), t # Nil
    PROVE  find_invalid_tree_node(t) =
              IF ~ t.valid THEN t
              ELSE IF IsNil(find_invalid_tree_node(t.left)) THEN find_invalid_tree_node(t.right)
              ELSE find_invalid_tree_node(t.left)
<1>1. IsTree(t.left) /\ IsTree(t.right)
  BY TreeParts
<1>. QED BY <1>1, FindResult, ResultOfNode DEF Step

\* What is left by each key.
Remains(t) == Result("delete", 0, t)

LEMMA DeleteCall ==
    ASSUME NEW t, IsTree(t), t # Nil, NEW k \in TreeKeys
    PROVE  /\ physical_delete_tree_node(t, k) =
                 IF k < t.lbn
                 THEN AfterDelete(Node(t.lbn, t.valid, physical_delete_tree_node(t.left, k), t.right))
                 ELSE IF k > t.lbn
                 THEN AfterDelete(Node(t.lbn, t.valid, t.left, physical_delete_tree_node(t.right, k)))
                 ELSE WithoutRoot(t, Remains(t.right))
           /\ \A j : physical_delete_tree_node(t.right, j) = Remains(t.right)[j]
<1>1. IsTree(t.left) /\ IsTree(t.right)
  BY TreeParts
<1>2. \A j : /\ physical_delete_tree_node(t.left, j) = Remains(t.left)[j]
             /\ physical_delete_tree_node(t.right, j) = Remains(t.right)[j]
  BY <1>1, DeleteResult DEF Remains
<1>3. physical_delete_tree_node(t, k) = Step("delete", 0, t, Remains(t.left), Remains(t.right))[k]
  BY DeleteResult, ResultOfNode DEF Remains
<1>. QED BY <1>2, <1>3 DEF Step

(***************************************************************************)
(* What a tree holds                                                       *)
(***************************************************************************)
Contents(t) == {<<u.lbn, u.valid>> : u \in Nodes(t)}

LEMMA HeldByNil == Nodes(Nil) = {} /\ Contents(Nil) = {}
BY SubtreesOfNil, NilTree DEF Nodes, Contents

LEMMA HeldByNode ==
    ASSUME NEW t, IsTree(t), t # Nil
    PROVE  /\ Nodes(t) = {t} \cup Nodes(t.left) \cup Nodes(t.right)
           /\ Contents(t) = {<<t.lbn, t.valid>>} \cup Contents(t.left) \cup Contents(t.right)
<1>1. ~ IsNil(t)
  BY TreeParts
<1>2. Nodes(t) = {t} \cup Nodes(t.left) \cup Nodes(t.right)
  BY <1>1, SubtreesOfNode DEF Nodes
<1>3. Contents(t) = {<<t.lbn, t.valid>>} \cup Contents(t.left) \cup Contents(t.right)
  BY <1>2 DEF Contents
<1>. QED BY <1>2, <1>3

LEMMA HeldByNew ==
    ASSUME NEW k \in TreeKeys, NEW v \in BOOLEAN, NEW l, NEW r, IsTree(l), IsTree(r)
    PROVE  Contents(Node(k, v, l, r)) = {<<k, v>>} \cup Contents(l) \cup Contents(r)
<1>1. IsTree(Node(k, v, l, r)) /\ Node(k, v, l, r) # Nil
  BY NodeIsTree
<1>. QED BY <1>1, HeldByNode, Fields

LEMMA ContentsType ==
    ASSUME NEW t, IsTree(t)
    PROVE  Contents(t) \subseteq TreeKeys \X BOOLEAN
<1>1. \A u \in Nodes(t) : u.lbn \in TreeKeys /\ u.valid \in BOOLEAN
  BY SubtreesClosed, NilTree DEF Nodes, Closed
<1>. QED BY <1>1 DEF Contents

LEMMA ContentsFinite ==
    ASSUME NEW t, IsTree(t)
    PROVE  IsFiniteSet(Contents(t))
<1>1. PICK D : t \in D /\ Closed(D)
  BY DEF IsTree
<1>. DEFINE B == {u \in D : IsFiniteSet(Contents(u))}
<1>2. ASSUME NEW u \in D, u # Nil => u.left \in B /\ u.right \in B PROVE u \in B
  <2>1. CASE u = Nil
    BY <2>1, HeldByNil, FS_EmptySet
  <2>2. CASE u # Nil
    <3>1. IsTree(u)
      BY <1>1, TreeCases
    <3>2. Contents(u) = {<<u.lbn, u.valid>>} \cup Contents(u.left) \cup Contents(u.right)
      BY <2>2, <3>1, HeldByNode
    <3>3. IsFiniteSet({<<u.lbn, u.valid>>}) /\ IsFiniteSet(Contents(u.left)) /\ IsFiniteSet(Contents(u.right))
      BY <1>2, <2>2, FS_Singleton
    <3>4. IsFiniteSet({<<u.lbn, u.valid>>} \cup Contents(u.left))
      BY <3>3, FS_Union
    <3>5. IsFiniteSet(Contents(u))
      BY <3>2, <3>3, <3>4, FS_Union
    <3>. QED BY <3>5
  <2>. QED BY <2>1, <2>2
<1>3. D \subseteq B
  <2>. HIDE DEF B
  <2>. QED BY <1>1, <1>2, TreeInduction
<1>. QED BY <1>1, <1>3

\* Every key of C is less, or greater, than k.
Before(C, k) == \A e \in C : e[1] < k
After(C, k) == \A e \in C : k < e[1]

\* A balanced tree in order.
Good(t) ==
    /\ IsTree(t)
    /\ \A u \in Nodes(t) : /\ u.left.height - u.right.height \in -1 .. 1
                           /\ Before(Contents(u.left), u.lbn)
                           /\ After(Contents(u.right), u.lbn)

LEMMA GoodNil == Good(Nil)
BY NilTree, HeldByNil DEF Good

LEMMA GoodNode ==
    ASSUME NEW k \in TreeKeys, NEW v \in BOOLEAN, NEW l, NEW r, Good(l), Good(r),
           l.height - r.height \in -1 .. 1, Before(Contents(l), k), After(Contents(r), k)
    PROVE  Good(Node(k, v, l, r))
<1>. DEFINE t == Node(k, v, l, r)
<1>1. IsTree(t) /\ t # Nil /\ t.left = l /\ t.right = r /\ t.lbn = k
  BY NodeIsTree, Fields DEF Good
<1>. HIDE DEF t
<1>2. Nodes(t) = {t} \cup Nodes(l) \cup Nodes(r)
  BY <1>1, HeldByNode
<1>3. Good(t)
  BY <1>1, <1>2 DEF Good
<1>. QED BY <1>3 DEF t

LEMMA GoodParts ==
    ASSUME NEW t, Good(t), t # Nil
    PROVE  /\ IsTree(t) /\ t = Node(t.lbn, t.valid, t.left, t.right)
           /\ t.lbn \in TreeKeys /\ t.valid \in BOOLEAN
           /\ Good(t.left) /\ Good(t.right)
           /\ t.height \in Nat /\ t.left.height \in Nat /\ t.right.height \in Nat
           /\ t.height = max_height(t.left.height, t.right.height) + 1
           /\ t.left.height - t.right.height \in -1 .. 1
           /\ Contents(t) = {<<t.lbn, t.valid>>} \cup Contents(t.left) \cup Contents(t.right)
           /\ Before(Contents(t.left), t.lbn) /\ After(Contents(t.right), t.lbn)
<1>1. IsTree(t)
  BY DEF Good
<1>2. Nodes(t) = {t} \cup Nodes(t.left) \cup Nodes(t.right)
  BY <1>1, HeldByNode
<1>3. /\ t.left.height - t.right.height \in -1 .. 1
      /\ Before(Contents(t.left), t.lbn) /\ After(Contents(t.right), t.lbn)
  BY <1>2 DEF Good
<1>4. IsTree(t.left) /\ IsTree(t.right)
  BY <1>1, TreeParts
<1>5. Good(t.left) /\ Good(t.right)
  BY <1>2, <1>4 DEF Good
<1>. QED BY <1>1, <1>3, <1>5, TreeParts, HeldByNode

\* The keys that a part of a node's contents may have.
LEMMA KeysOf ==
    ASSUME NEW t, IsTree(t), NEW e \in Contents(t)
    PROVE  e[1] \in TreeKeys /\ e[1] \in Nat /\ e[2] \in BOOLEAN /\ e = <<e[1], e[2]>>
BY ContentsType, TreeKeysAssumption

LEMMA LbnsHeld ==
    ASSUME NEW t, NEW k \in LbnsIn(t)
    PROVE  \E e \in Contents(t) : e[1] = k
<1>1. PICK u \in Nodes(t) : k = u.lbn
  BY DEF LbnsIn
<1>2. <<u.lbn, u.valid>> \in Contents(t) /\ <<u.lbn, u.valid>>[1] = u.lbn
  BY DEF Contents
<1>. QED BY <1>1, <1>2

\* A key is held once.
LEMMA HeldOnce ==
    ASSUME NEW t, Good(t), NEW e \in Contents(t), NEW f \in Contents(t), e[1] = f[1]
    PROVE  e = f
<1>1. PICK D : t \in D /\ Closed(D)
  BY DEF Good, IsTree
<1>. DEFINE Once(u) == \A d \in Contents(u), c \in Contents(u) : d[1] = c[1] => d = c
            B == {u \in D : Good(u) => Once(u)}
<1>2. ASSUME NEW u \in D, u # Nil => u.left \in B /\ u.right \in B PROVE u \in B
  <2>. SUFFICES ASSUME Good(u) PROVE Once(u)
    BY DEF B
  <2>1. CASE u = Nil
    BY <2>1, HeldByNil
  <2>2. CASE u # Nil
    <3>1. /\ Contents(u) = {<<u.lbn, u.valid>>} \cup Contents(u.left) \cup Contents(u.right)
          /\ Before(Contents(u.left), u.lbn) /\ After(Contents(u.right), u.lbn)
          /\ u.lbn \in Nat
          /\ IsTree(u.left) /\ IsTree(u.right) /\ Good(u.left) /\ Good(u.right)
      BY <2>2, GoodParts, TreeKeysAssumption DEF Good
    <3>2. Once(u.left) /\ Once(u.right)
      BY <1>2, <2>2, <3>1
    <3>3. /\ \A d \in Contents(u.left) : d[1] \in Nat /\ d[1] < u.lbn
          /\ \A d \in Contents(u.right) : d[1] \in Nat /\ u.lbn < d[1]
      BY <3>1, KeysOf DEF Before, After
    <3>. QED BY <3>1, <3>2, <3>3
  <2>. QED BY <2>1, <2>2
<1>3. D \subseteq B
  <2>. HIDE DEF B
  <2>. QED BY <1>1, <1>2, TreeInduction
<1>. QED BY <1>1, <1>3

(***************************************************************************)
(* Rotations                                                               *)
(***************************************************************************)
\* k may stand between the trees l and r.
Fits(k, v, l, r) ==
    /\ k \in TreeKeys /\ v \in BOOLEAN
    /\ Good(l) /\ Good(r)
    /\ Before(Contents(l), k) /\ After(Contents(r), k)

LEMMA Joined ==
    ASSUME NEW k, NEW v, NEW l, NEW r, Fits(k, v, l, r)
    PROVE  /\ IsTree(Node(k, v, l, r)) /\ Node(k, v, l, r) # Nil /\ ~ IsNil(Node(k, v, l, r))
           /\ l.height \in Nat /\ r.height \in Nat /\ Node(k, v, l, r).height \in Nat
           /\ Node(k, v, l, r).height = max_height(l.height, r.height) + 1
           /\ Contents(Node(k, v, l, r)) = {<<k, v>>} \cup Contents(l) \cup Contents(r)
           /\ get_balance(Node(k, v, l, r)) = l.height - r.height
           /\ l.height - r.height \in -1 .. 1 => Good(Node(k, v, l, r))
<1>1. k \in TreeKeys /\ v \in BOOLEAN /\ IsTree(l) /\ IsTree(r)
  BY DEF Fits, Good
<1>2. IsTree(Node(k, v, l, r)) /\ Node(k, v, l, r) # Nil
  BY <1>1, NodeIsTree
<1>3. ~ IsNil(Node(k, v, l, r))
  BY <1>2, TreeParts
<1>4. get_balance(Node(k, v, l, r)) = l.height - r.height
  BY <1>3, Fields DEF get_balance
<1>5. l.height - r.height \in -1 .. 1 => Good(Node(k, v, l, r))
  BY GoodNode DEF Fits
<1>. QED BY <1>1, <1>2, <1>3, <1>4, <1>5, TreeParts, Fields, HeldByNew

\* The node of key k goes down to the right, and its left child up.
LEMMA RotatesRight ==
    ASSUME NEW k, NEW v, NEW l, NEW r, Fits(k, v, l, r), l # Nil,
           NEW x, x = right_rotate(Node(k, v, l, r))
    PROVE  /\ x = Node(l.lbn, l.valid, l.left, Node(k, v, l.right, r))
           /\ Fits(k, v, l.right, r)
           /\ l.right.height - r.height \in -1 .. 1 => Fits(l.lbn, l.valid, l.left, Node(k, v, l.right, r))
           /\ {<<l.lbn, l.valid>>} \cup Contents(l.left) \cup Contents(Node(k, v, l.right, r))
                 = {<<k, v>>} \cup Contents(l) \cup Contents(r)
<1>1. x = Node(l.lbn, l.valid, l.left, Node(k, v, l.right, r))
  BY Fields DEF right_rotate
<1>2. /\ k \in TreeKeys /\ v \in BOOLEAN /\ Good(l) /\ Good(r) /\ IsTree(r)
      /\ Before(Contents(l), k) /\ After(Contents(r), k)
  BY DEF Fits, Good
<1>3. /\ l.lbn \in TreeKeys /\ l.valid \in BOOLEAN /\ Good(l.left) /\ Good(l.right)
      /\ Contents(l) = {<<l.lbn, l.valid>>} \cup Contents(l.left) \cup Contents(l.right)
      /\ Before(Contents(l.left), l.lbn) /\ After(Contents(l.right), l.lbn)
  BY <1>2, GoodParts
<1>4. k \in Nat /\ l.lbn \in Nat
  BY <1>2, <1>3, TreeKeysAssumption
<1>5. l.lbn < k /\ Before(Contents(l.right), k)
  <2>1. <<l.lbn, l.valid>> \in Contents(l) /\ <<l.lbn, l.valid>>[1] = l.lbn
    BY <1>3
  <2>2. l.lbn < k
    BY <1>2, <2>1, Zenon DEF Before
  <2>. QED BY <1>2, <1>3, <2>2 DEF Before
<1>6. Fits(k, v, l.right, r)
  BY <1>2, <1>3, <1>5 DEF Fits
<1>7. Contents(Node(k, v, l.right, r)) = {<<k, v>>} \cup Contents(l.right) \cup Contents(r)
  BY <1>6, Joined
<1>8. After(Contents(Node(k, v, l.right, r)), l.lbn)
  <2>1. \A e \in Contents(r) : e[1] \in Nat /\ k < e[1]
    BY <1>2, KeysOf DEF After
  <2>2. \A e \in Contents(r) : l.lbn < e[1]
    BY <1>4, <1>5, <2>1
  <2>. QED BY <1>3, <1>5, <1>7, <2>2 DEF After
<1>9. l.right.height - r.height \in -1 .. 1 => Fits(l.lbn, l.valid, l.left, Node(k, v, l.right, r))
  BY <1>3, <1>6, <1>8, Joined DEF Fits
<1>. QED BY <1>1, <1>3, <1>6, <1>7, <1>9

LEMMA RotatesLeft ==
    ASSUME NEW k, NEW v, NEW l, NEW r, Fits(k, v, l, r), r # Nil,
           NEW x, x = left_rotate(Node(k, v, l, r))
    PROVE  /\ x = Node(r.lbn, r.valid, Node(k, v, l, r.left), r.right)
           /\ Fits(k, v, l, r.left)
           /\ l.height - r.left.height \in -1 .. 1 => Fits(r.lbn, r.valid, Node(k, v, l, r.left), r.right)
           /\ {<<r.lbn, r.valid>>} \cup Contents(Node(k, v, l, r.left)) \cup Contents(r.right)
                 = {<<k, v>>} \cup Contents(l) \cup Contents(r)
<1>1. x = Node(r.lbn, r.valid, Node(k, v, l, r.left), r.right)
  BY Fields DEF left_rotate
<1>2. /\ k \in TreeKeys /\ v \in BOOLEAN /\ Good(l) /\ Good(r) /\ IsTree(l)
      /\ Before(Contents(l), k) /\ After(Contents(r), k)
  BY DEF Fits, Good
<1>3. /\ r.lbn \in TreeKeys /\ r.valid \in BOOLEAN /\ Good(r.left) /\ Good(r.right)
      /\ Contents(r) = {<<r.lbn, r.valid>>} \cup Contents(r.left) \cup Contents(r.right)
      /\ Before(Contents(r.left), r.lbn) /\ After(Contents(r.right), r.lbn)
  BY <1>2, GoodParts
<1>4. k \in Nat /\ r.lbn \in Nat
  BY <1>2, <1>3, TreeKeysAssumption
<1>5. k < r.lbn /\ After(Contents(r.left), k)
  <2>1. <<r.lbn, r.valid>> \in Contents(r) /\ <<r.lbn, r.valid>>[1] = r.lbn
    BY <1>3
  <2>2. k < r.lbn
    BY <1>2, <2>1, Zenon DEF After
  <2>. QED BY <1>2, <1>3, <2>2 DEF After
<1>6. Fits(k, v, l, r.left)
  BY <1>2, <1>3, <1>5 DEF Fits
<1>7. Contents(Node(k, v, l, r.left)) = {<<k, v>>} \cup Contents(l) \cup Contents(r.left)
  BY <1>6, Joined
<1>8. Before(Contents(Node(k, v, l, r.left)), r.lbn)
  <2>1. \A e \in Contents(l) : e[1] \in Nat /\ e[1] < k
    BY <1>2, KeysOf DEF Before
  <2>2. \A e \in Contents(l) : e[1] < r.lbn
    BY <1>4, <1>5, <2>1
  <2>. QED BY <1>3, <1>5, <1>7, <2>2 DEF Before
<1>9. l.height - r.left.height \in -1 .. 1 => Fits(r.lbn, r.valid, Node(k, v, l, r.left), r.right)
  BY <1>3, <1>6, <1>8, Joined DEF Fits
<1>. QED BY <1>1, <1>3, <1>6, <1>7, <1>9

\* x holds what the node of key k above l and r does, in balance; it is of
\* height h, unless slack.
Restored(k, v, l, r, x, h, slack) ==
    /\ Good(x) /\ x # Nil
    /\ Contents(x) = {<<k, v>>} \cup Contents(l) \cup Contents(r)
    /\ x.height \in {h, h + 1}
    /\ ~ slack => x.height = h

LEMMA LeftOuterCase ==
    ASSUME NEW k, NEW v, NEW l, NEW r, Fits(k, v, l, r),
           l.height - r.height = 2, l.left.height >= l.right.height
    PROVE  Restored(k, v, l, r, right_rotate(Node(k, v, l, r)), l.height, l.left.height = l.right.height)
<1>. DEFINE x == right_rotate(Node(k, v, l, r))
            n == Node(k, v, l.right, r)
<1>1. r.height \in Nat /\ l.height \in Nat
  BY Joined
<1>2. l # Nil /\ Good(l)
  BY <1>1, NilTree DEF Fits
<1>3. /\ l.left.height \in Nat /\ l.right.height \in Nat
      /\ l.height = max_height(l.left.height, l.right.height) + 1
      /\ l.left.height - l.right.height \in -1 .. 1
  BY <1>2, GoodParts
<1>4. /\ l.left.height = r.height + 1
      /\ l.right.height \in {r.height, r.height + 1}
  BY <1>1, <1>3 DEF max_height
<1>5. l.right.height - r.height \in -1 .. 1
  BY <1>1, <1>4
<1>6. /\ x = Node(l.lbn, l.valid, l.left, n)
      /\ Fits(k, v, l.right, r) /\ Fits(l.lbn, l.valid, l.left, n)
      /\ {<<l.lbn, l.valid>>} \cup Contents(l.left) \cup Contents(n) = {<<k, v>>} \cup Contents(l) \cup Contents(r)
  BY <1>2, <1>5, RotatesRight
<1>7. n.height = max_height(l.right.height, r.height) + 1
  BY <1>6, Joined
<1>8. n.height = l.right.height + 1
  BY <1>1, <1>4, <1>7 DEF max_height
<1>. HIDE DEF n
<1>9. /\ x # Nil /\ x.height = max_height(l.left.height, n.height) + 1
      /\ Contents(x) = {<<l.lbn, l.valid>>} \cup Contents(l.left) \cup Contents(n)
      /\ l.left.height - n.height \in -1 .. 1 => Good(x)
  BY <1>6, Joined
<1>10. l.left.height - n.height \in -1 .. 1
  BY <1>1, <1>4, <1>8
<1>11. /\ x.height \in {l.height, l.height + 1}
       /\ l.left.height # l.right.height => x.height = l.height
  BY <1>1, <1>4, <1>8, <1>9 DEF max_height
<1>. HIDE DEF x
<1>12. Restored(k, v, l, r, x, l.height, l.left.height = l.right.height)
  BY <1>6, <1>9, <1>10, <1>11 DEF Restored
<1>. QED BY <1>12 DEF x

LEMMA RightOuterCase ==
    ASSUME NEW k, NEW v, NEW l, NEW r, Fits(k, v, l, r),
           r.height - l.height = 2, r.right.height >= r.left.height
    PROVE  Restored(k, v, l, r, left_rotate(Node(k, v, l, r)), r.height, r.left.height = r.right.height)
<1>. DEFINE x == left_rotate(Node(k, v, l, r))
            n == Node(k, v, l, r.left)
<1>1. r.height \in Nat /\ l.height \in Nat
  BY Joined
<1>2. r # Nil /\ Good(r)
  BY <1>1, NilTree DEF Fits
<1>3. /\ r.left.height \in Nat /\ r.right.height \in Nat
      /\ r.height = max_height(r.left.height, r.right.height) + 1
      /\ r.left.height - r.right.height \in -1 .. 1
  BY <1>2, GoodParts
<1>4. /\ r.right.height = l.height + 1
      /\ r.left.height \in {l.height, l.height + 1}
  BY <1>1, <1>3 DEF max_height
<1>5. l.height - r.left.height \in -1 .. 1
  BY <1>1, <1>4
<1>6. /\ x = Node(r.lbn, r.valid, n, r.right)
      /\ Fits(k, v, l, r.left) /\ Fits(r.lbn, r.valid, n, r.right)
      /\ {<<r.lbn, r.valid>>} \cup Contents(n) \cup Contents(r.right) = {<<k, v>>} \cup Contents(l) \cup Contents(r)
  BY <1>2, <1>5, RotatesLeft
<1>7. n.height = max_height(l.height, r.left.height) + 1
  BY <1>6, Joined
<1>8. n.height = r.left.height + 1
  BY <1>1, <1>4, <1>7 DEF max_height
<1>. HIDE DEF n
<1>9. /\ x # Nil /\ x.height = max_height(n.height, r.right.height) + 1
      /\ Contents(x) = {<<r.lbn, r.valid>>} \cup Contents(n) \cup Contents(r.right)
      /\ n.height - r.right.height \in -1 .. 1 => Good(x)
  BY <1>6, Joined
<1>10. n.height - r.right.height \in -1 .. 1
  BY <1>1, <1>4, <1>8
<1>11. /\ x.height \in {r.height, r.height + 1}
       /\ r.left.height # r.right.height => x.height = r.height
  BY <1>1, <1>4, <1>8, <1>9 DEF max_height
<1>. HIDE DEF x
<1>12. Restored(k, v, l, r, x, r.height, r.left.height = r.right.height)
  BY <1>6, <1>9, <1>10, <1>11 DEF Restored
<1>. QED BY <1>12 DEF x

\* The two rotations of a subtree that leans inwards: its inner child comes
\* to stand above it and the node of key k.
LEMMA LeftInnerCase ==
    ASSUME NEW k, NEW v, NEW l, NEW r, Fits(k, v, l, r),
           l.height - r.height = 2, l.left.height < l.right.height
    PROVE  Restored(k, v, l, r, right_rotate(Node(k, v, left_rotate(l), r)), l.height, FALSE)
<1>. DEFINE m == l.right
            a == Node(l.lbn, l.valid, l.left, m.left)
            y == Node(m.lbn, m.valid, a, m.right)
            n == Node(k, v, m.right, r)
            x == right_rotate(Node(k, v, left_rotate(l), r))
<1>1. r.height \in Nat /\ l.height \in Nat
  BY Joined
<1>2. l # Nil /\ Good(l) /\ k \in TreeKeys /\ v \in BOOLEAN /\ Good(r) /\ Before(Contents(l), k) /\ After(Contents(r), k)
  BY <1>1, NilTree DEF Fits
<1>3. /\ l.left.height \in Nat /\ m.height \in Nat
      /\ l.height = max_height(l.left.height, m.height) + 1
      /\ l.left.height - m.height \in -1 .. 1
      /\ l = Node(l.lbn, l.valid, l.left, m)
      /\ Fits(l.lbn, l.valid, l.left, m)
      /\ Contents(l) = {<<l.lbn, l.valid>>} \cup Contents(l.left) \cup Contents(m)
  BY <1>2, GoodParts DEF Fits
<1>4. l.left.height = r.height /\ m.height = r.height + 1
  BY <1>1, <1>3 DEF max_height
<1>5. m # Nil /\ Good(m)
  BY <1>1, <1>3, <1>4, NilTree DEF Fits
<1>6. /\ m.left.height \in Nat /\ m.right.height \in Nat
      /\ m.height = max_height(m.left.height, m.right.height) + 1
      /\ m.left.height - m.right.height \in -1 .. 1
      /\ m.lbn \in TreeKeys /\ m.valid \in BOOLEAN
  BY <1>5, GoodParts
<1>7. /\ m.left.height - r.height \in -1 .. 0 /\ m.right.height - r.height \in -1 .. 0
      /\ m.left.height = r.height \/ m.right.height = r.height
  BY <1>1, <1>4, <1>6 DEF max_height
<1>8. l.left.height - m.left.height \in -1 .. 1
  BY <1>1, <1>4, <1>6, <1>7
<1>. HIDE DEF m
<1>9. /\ left_rotate(l) = y
      /\ Fits(l.lbn, l.valid, l.left, m.left) /\ Fits(m.lbn, m.valid, a, m.right)
      /\ {<<m.lbn, m.valid>>} \cup Contents(a) \cup Contents(m.right) = Contents(l)
  BY <1>3, <1>5, <1>8, RotatesLeft
<1>10. a.height = r.height + 1
  <2>1. a.height = max_height(l.left.height, m.left.height) + 1
    BY <1>9, Joined
  <2>. QED BY <1>1, <1>4, <1>6, <1>7, <2>1 DEF max_height
<1>. HIDE DEF a
<1>11. y.lbn = m.lbn /\ y.valid = m.valid /\ y.left = a /\ y.right = m.right
  BY Fields
<1>. QED
  <2>. HIDE DEF y
  <2>0. x = Node(m.lbn, m.valid, a, n)
    BY <1>9, <1>11, Fields DEF right_rotate
  <2>1. Before(Contents(m.right), k) /\ m.lbn < k
    <3>1. <<m.lbn, m.valid>> \in Contents(l) /\ <<m.lbn, m.valid>>[1] = m.lbn
      BY <1>9
    <3>2. m.lbn < k
      BY <1>2, <3>1, Zenon DEF Before
    <3>. QED BY <1>2, <1>9, <3>2 DEF Before
  <2>2. Fits(k, v, m.right, r)
    BY <1>2, <1>9, <2>1 DEF Fits
  <2>3. Contents(n) = {<<k, v>>} \cup Contents(m.right) \cup Contents(r) /\ n.height = max_height(m.right.height, r.height) + 1
    BY <2>2, Joined
  <2>4. n.height = r.height + 1
    BY <1>1, <1>6, <1>7, <2>3 DEF max_height
  <2>5. Good(n)
    <3>1. m.right.height - r.height \in -1 .. 1
      BY <1>1, <1>6, <1>7
    <3>. QED BY <2>2, <3>1, Joined
  <2>6. Good(a)
    BY <1>9 DEF Fits
  <2>7. After(Contents(n), m.lbn)
    <3>1. k \in Nat /\ m.lbn \in Nat /\ IsTree(r)
      BY <1>2, <1>6, TreeKeysAssumption DEF Good
    <3>2. \A e \in Contents(r) : e[1] \in Nat /\ k < e[1]
      BY <1>2, <3>1, KeysOf DEF After
    <3>3. \A e \in Contents(r) : m.lbn < e[1]
      BY <2>1, <3>1, <3>2
    <3>. QED BY <1>9, <2>1, <2>3, <3>3 DEF After, Fits
  <2>8. Fits(m.lbn, m.valid, a, n)
    BY <1>9, <2>5, <2>7 DEF Fits
  <2>. HIDE DEF n
  <2>9. /\ x # Nil /\ x.height = max_height(a.height, n.height) + 1
        /\ Contents(x) = {<<m.lbn, m.valid>>} \cup Contents(a) \cup Contents(n)
        /\ a.height - n.height \in -1 .. 1 => Good(x)
    BY <2>0, <2>8, Joined
  <2>10. a.height - n.height \in -1 .. 1 /\ x.height = l.height
    BY <1>1, <1>10, <2>4, <2>9 DEF max_height
  <2>11. Contents(x) = {<<k, v>>} \cup Contents(l) \cup Contents(r)
    BY <1>9, <2>3, <2>9
  <2>. HIDE DEF x
  <2>12. Restored(k, v, l, r, x, l.height, FALSE)
    BY <2>9, <2>10, <2>11 DEF Restored
  <2>. QED BY <2>12 DEF x

LEMMA RightInnerCase ==
    ASSUME NEW k, NEW v, NEW l, NEW r, Fits(k, v, l, r),
           r.height - l.height = 2, r.right.height < r.left.height
    PROVE  Restored(k, v, l, r, left_rotate(Node(k, v, l, right_rotate(r))), r.height, FALSE)
<1>. DEFINE m == r.left
            b == Node(r.lbn, r.valid, m.right, r.right)
            y == Node(m.lbn, m.valid, m.left, b)
            n == Node(k, v, l, m.left)
            x == left_rotate(Node(k, v, l, right_rotate(r)))
<1>1. r.height \in Nat /\ l.height \in Nat
  BY Joined
<1>2. r # Nil /\ Good(r) /\ k \in TreeKeys /\ v \in BOOLEAN /\ Good(l) /\ Before(Contents(l), k) /\ After(Contents(r), k)
  BY <1>1, NilTree DEF Fits
<1>3. /\ r.right.height \in Nat /\ m.height \in Nat
      /\ r.height = max_height(m.height, r.right.height) + 1
      /\ m.height - r.right.height \in -1 .. 1
      /\ r = Node(r.lbn, r.valid, m, r.right)
      /\ Fits(r.lbn, r.valid, m, r.right)
      /\ Contents(r) = {<<r.lbn, r.valid>>} \cup Contents(m) \cup Contents(r.right)
  BY <1>2, GoodParts DEF Fits
<1>4. r.right.height = l.height /\ m.height = l.height + 1
  BY <1>1, <1>3 DEF max_height
<1>5. m # Nil /\ Good(m)
  BY <1>1, <1>3, <1>4, NilTree DEF Fits
<1>6. /\ m.left.height \in Nat /\ m.right.height \in Nat
      /\ m.height = max_height(m.left.height, m.right.height) + 1
      /\ m.left.height - m.right.height \in -1 .. 1
      /\ m.lbn \in TreeKeys /\ m.valid \in BOOLEAN
  BY <1>5, GoodParts
<1>7. /\ m.left.height - l.height \in -1 .. 0 /\ m.right.height - l.height \in -1 .. 0
      /\ m.left.height = l.height \/ m.right.height = l.height
  BY <1>1, <1>4, <1>6 DEF max_height
<1>8. m.right.height - r.right.height \in -1 .. 1
  BY <1>1, <1>4, <1>6, <1>7
<1>. HIDE DEF m
<1>9. /\ right_rotate(r) = y
      /\ Fits(r.lbn, r.valid, m.right, r.right) /\ Fits(m.lbn, m.valid, m.left, b)
      /\ {<<m.lbn, m.valid>>} \cup Contents(m.left) \cup Contents(b) = Contents(r)
  BY <1>3, <1>5, <1>8, RotatesRight
<1>10. b.height = l.height + 1
  <2>1. b.height = max_height(m.right.height, r.right.height) + 1
    BY <1>9, Joined
  <2>. QED BY <1>1, <1>4, <1>6, <1>7, <2>1 DEF max_height
<1>. HIDE DEF b
<1>11. y.lbn = m.lbn /\ y.valid = m.valid /\ y.right = b /\ y.left = m.left
  BY Fields
<1>. QED
  <2>. HIDE DEF y
  <2>0. x = Node(m.lbn, m.valid, n, b)
    BY <1>9, <1>11, Fields DEF left_rotate
  <2>1. After(Contents(m.left), k) /\ k < m.lbn
    <3>1. <<m.lbn, m.valid>> \in Contents(r) /\ <<m.lbn, m.valid>>[1] = m.lbn
      BY <1>9
    <3>2. k < m.lbn
      BY <1>2, <3>1, Zenon DEF After
    <3>. QED BY <1>2, <1>9, <3>2 DEF After
  <2>2. Fits(k, v, l, m.left)
    BY <1>2, <1>9, <2>1 DEF Fits
  <2>3. Contents(n) = {<<k, v>>} \cup Contents(l) \cup Contents(m.left) /\ n.height = max_height(l.height, m.left.height) + 1
    BY <2>2, Joined
  <2>4. n.height = l.height + 1
    BY <1>1, <1>6, <1>7, <2>3 DEF max_height
  <2>5. Good(n)
    <3>1. l.height - m.left.height \in -1 .. 1
      BY <1>1, <1>6, <1>7
    <3>. QED BY <2>2, <3>1, Joined
  <2>6. Good(b)
    BY <1>9 DEF Fits
  <2>7. Before(Contents(n), m.lbn)
    <3>1. k \in Nat /\ m.lbn \in Nat /\ IsTree(l)
      BY <1>2, <1>6, TreeKeysAssumption DEF Good
    <3>2. \A e \in Contents(l) : e[1] \in Nat /\ e[1] < k
      BY <1>2, <3>1, KeysOf DEF Before
    <3>3. \A e \in Contents(l) : e[1] < m.lbn
      BY <2>1, <3>1, <3>2
    <3>. QED BY <1>9, <2>1, <2>3, <3>3 DEF Before, Fits
  <2>8. Fits(m.lbn, m.valid, n, b)
    BY <1>9, <2>5, <2>6, <2>7 DEF Fits
  <2>. HIDE DEF n
  <2>9. /\ x # Nil /\ x.height = max_height(n.height, b.height) + 1
        /\ Contents(x) = {<<m.lbn, m.valid>>} \cup Contents(n) \cup Contents(b)
        /\ n.height - b.height \in -1 .. 1 => Good(x)
    BY <2>0, <2>8, Joined
  <2>10. n.height - b.height \in -1 .. 1 /\ x.height = r.height
    BY <1>1, <1>10, <2>4, <2>9 DEF max_height
  <2>11. Contents(x) = {<<k, v>>} \cup Contents(l) \cup Contents(r)
    BY <1>9, <2>3, <2>9
  <2>. HIDE DEF x
  <2>12. Restored(k, v, l, r, x, r.height, FALSE)
    BY <2>9, <2>10, <2>11 DEF Restored
  <2>. QED BY <2>12 DEF x

\* A node whose subtrees differ by up to two levels is balanced, when the
\* flags say which child leans where; it may lose a level.
LEMMA Rebalanced ==
    ASSUME NEW k, NEW v, NEW l, NEW r, Fits(k, v, l, r), l.height - r.height \in -2 .. 2,
           NEW lo \in BOOLEAN, NEW li \in BOOLEAN, NEW ro \in BOOLEAN, NEW ri \in BOOLEAN,
           l.height - r.height = 2 => \/ lo /\ ~ li /\ l.left.height >= l.right.height
                                      \/ ~ lo /\ li /\ l.left.height < l.right.height,
           l.height - r.height = -2 => \/ ro /\ ~ ri /\ r.right.height >= r.left.height
                                       \/ ~ ro /\ ri /\ r.right.height < r.left.height,
           NEW x, x = Rotated(Node(k, v, l, r), lo, li, ro, ri)
    PROVE  /\ Good(x) /\ x # Nil
           /\ Contents(x) = {<<k, v>>} \cup Contents(l) \cup Contents(r)
           /\ l.height \in Nat /\ r.height \in Nat /\ x.height \in Nat
           /\ l.height - r.height \in -1 .. 1 => x = Node(k, v, l, r) /\ x.height = max_height(l.height, r.height) + 1
           /\ l.height - r.height = 2 => /\ x.height \in {l.height, l.height + 1}
                                         /\ l.left.height # l.right.height => x.height = l.height
           /\ l.height - r.height = -2 => /\ x.height \in {r.height, r.height + 1}
                                          /\ r.left.height # r.right.height => x.height = r.height
<1>. DEFINE t == Node(k, v, l, r)
<1>1. /\ t # Nil /\ l.height \in Nat /\ r.height \in Nat
      /\ t.height = max_height(l.height, r.height) + 1
      /\ Contents(t) = {<<k, v>>} \cup Contents(l) \cup Contents(r)
      /\ get_balance(t) = l.height - r.height
      /\ l.height - r.height \in -1 .. 1 => Good(t)
  BY Joined
<1>2. t.lbn = k /\ t.valid = v /\ t.left = l /\ t.right = r
  BY Fields
<1>3. CASE l.height - r.height \in -1 .. 1
  <2>1. ~ (get_balance(t) > 1) /\ ~ (get_balance(t) < -1)
    BY <1>1, <1>3
  <2>2. x = t
    <3>. HIDE DEF t
    <3>. QED BY <2>1 DEF Rotated, t
  <2>3. Good(x)
    BY <1>1, <1>3, <2>2
  <2>4. x.height \in Nat
    BY <2>3, TreeParts DEF Good
  <2>. QED BY <1>1, <1>3, <2>2, <2>3, <2>4
<1>4. CASE l.height - r.height = 2
  <2>1. get_balance(t) > 1 /\ ~ (get_balance(t) < -1)
    BY <1>1, <1>4
  <2>2. CASE lo /\ ~ li /\ l.left.height >= l.right.height
    <3>1. x = right_rotate(t)
      <4>. HIDE DEF t
      <4>. QED BY <2>1, <2>2 DEF Rotated, t
    <3>2. Restored(k, v, l, r, right_rotate(t), l.height, l.left.height = l.right.height)
      BY <1>4, <2>2, LeftOuterCase, Zenon
    <3>. QED BY <1>1, <1>4, <3>1, <3>2 DEF Restored
  <2>3. CASE ~ lo /\ li /\ l.left.height < l.right.height
    <3>1. x = right_rotate(Node(k, v, left_rotate(l), r))
      <4>. HIDE DEF t
      <4>. QED BY <1>2, <2>1, <2>3 DEF Rotated, t
    <3>2. Restored(k, v, l, r, x, l.height, FALSE)
      BY <1>4, <2>3, <3>1, LeftInnerCase
    <3>. QED BY <1>1, <1>4, <3>2 DEF Restored
  <2>. QED BY <1>4, <2>2, <2>3
<1>5. CASE l.height - r.height = -2
  <2>1. get_balance(t) < -1 /\ ~ (get_balance(t) > 1)
    BY <1>1, <1>5
  <2>0. r.height - l.height = 2
    BY <1>1, <1>5
  <2>2. CASE ro /\ ~ ri /\ r.right.height >= r.left.height
    <3>1. x = left_rotate(t)
      <4>. HIDE DEF t
      <4>. QED BY <2>1, <2>2 DEF Rotated, t
    <3>2. Restored(k, v, l, r, left_rotate(t), r.height, r.left.height = r.right.height)
      BY <2>0, <2>2, RightOuterCase, Zenon
    <3>. QED BY <1>1, <1>5, <3>1, <3>2 DEF Restored
  <2>3. CASE ~ ro /\ ri /\ r.right.height < r.left.height
    <3>1. x = left_rotate(Node(k, v, l, right_rotate(r)))
      <4>. HIDE DEF t
      <4>. QED BY <1>2, <2>1, <2>3 DEF Rotated, t
    <3>2. Restored(k, v, l, r, x, r.height, FALSE)
      BY <2>0, <2>3, <3>1, RightInnerCase
    <3>. QED BY <1>1, <1>5, <3>2 DEF Restored
  <2>. QED BY <1>5, <2>2, <2>3
<1>6. l.height - r.height \in -1 .. 1 \/ l.height - r.height = 2 \/ l.height - r.height = -2
  BY <1>1
<1>. QED BY <1>3, <1>4, <1>5, <1>6

(***************************************************************************)
(* Insertion                                                               *)
(***************************************************************************)
\* k comes to what t holds; a tree that grows leans to where k went.
Inserted(t, k, x) ==
    /\ Good(x) /\ x # Nil
    /\ Contents(x) = Contents(t) \cup {<<k, TRUE>>}
    /\ x.height \in {t.height, t.height + 1}
    /\ t # Nil /\ x.height = t.height + 1 => \/ k < x.lbn /\ x.left.height > x.right.height
                                             \/ x.lbn < k /\ x.left.height < x.right.height

LEMMA InsertedLeft ==
    ASSUME NEW t, Good(t), t # Nil, NEW k \in TreeKeys, k < t.lbn,
           NEW l, Inserted(t.left, k, l)
    PROVE  Inserted(t, k, AfterInsert(Node(t.lbn, t.valid, l, t.right), k))
<1>. DEFINE r == t.right
            n == Node(t.lbn, t.valid, l, r)
            x == AfterInsert(n, k)
<1>1. /\ t.lbn \in TreeKeys /\ t.valid \in BOOLEAN /\ Good(t.left) /\ Good(r)
      /\ t.height \in Nat /\ t.left.height \in Nat /\ r.height \in Nat
      /\ t.height = max_height(t.left.height, r.height) + 1
      /\ t.left.height - r.height \in -1 .. 1
      /\ Contents(t) = {<<t.lbn, t.valid>>} \cup Contents(t.left) \cup Contents(r)
      /\ Before(Contents(t.left), t.lbn) /\ After(Contents(r), t.lbn)
  BY GoodParts
<1>2. /\ Good(l) /\ l # Nil /\ Contents(l) = Contents(t.left) \cup {<<k, TRUE>>}
      /\ l.height \in {t.left.height, t.left.height + 1}
  BY DEF Inserted
<1>3. Fits(t.lbn, t.valid, l, r)
  <2>1. <<k, TRUE>>[1] = k
    OBVIOUS
  <2>. QED BY <1>1, <1>2, <2>1 DEF Fits, Before
<1>4. l.height \in Nat /\ l.lbn \in Nat /\ k \in Nat /\ l.left.height \in Nat /\ l.right.height \in Nat
  BY <1>2, GoodParts, TreeKeysAssumption
<1>5. x = Rotated(n, k < l.lbn, k > l.lbn, k > r.lbn, k < r.lbn)
  BY Fields DEF AfterInsert
<1>6. l.height - r.height \in -2 .. 2 /\ ~ (l.height - r.height = -2)
  BY <1>1, <1>2, <1>4
<1>7. ASSUME l.height - r.height = 2
      PROVE  /\ l.height = t.left.height + 1 /\ t.height = l.height
             /\ \/ k < l.lbn /\ ~ (k > l.lbn) /\ l.left.height >= l.right.height
                \/ ~ (k < l.lbn) /\ k > l.lbn /\ l.left.height < l.right.height
             /\ l.left.height # l.right.height
  <2>1. l.height = t.left.height + 1 /\ t.left.height = r.height + 1
    BY <1>1, <1>2, <1>4, <1>7
  <2>2. t.left # Nil
    BY <1>1, <2>1, NilTree
  <2>3. \/ k < l.lbn /\ l.left.height > l.right.height
        \/ l.lbn < k /\ l.left.height < l.right.height
    BY <2>1, <2>2 DEF Inserted
  <2>4. t.height = l.height
    BY <1>1, <2>1 DEF max_height
  <2>. QED BY <1>4, <2>1, <2>3, <2>4
<1>. HIDE DEF r
<1>8. /\ Good(x) /\ x # Nil
      /\ Contents(x) = {<<t.lbn, t.valid>>} \cup Contents(l) \cup Contents(r)
      /\ l.height - r.height \in -1 .. 1 => x = n /\ x.height = max_height(l.height, r.height) + 1
      /\ l.height - r.height = 2 => x.height = l.height
  <2>. DEFINE lo == k < l.lbn
              li == k > l.lbn
              ro == k > r.lbn
              ri == k < r.lbn
  <2>1. lo \in BOOLEAN /\ li \in BOOLEAN /\ ro \in BOOLEAN /\ ri \in BOOLEAN
    OBVIOUS
  <2>2. l.height - r.height = 2 => \/ lo /\ ~ li /\ l.left.height >= l.right.height
                                   \/ ~ lo /\ li /\ l.left.height < l.right.height
    BY <1>7
  <2>3. x = Rotated(n, lo, li, ro, ri)
    BY <1>5
  <2>. HIDE DEF lo, li, ro, ri, x
  <2>. QED BY <1>3, <1>6, <1>7, <2>1, <2>2, <2>3, Rebalanced
<1>9. l.height - r.height \in -1 .. 1 \/ l.height - r.height = 2
  BY <1>1, <1>4, <1>6 DEF r
<1>10. n.lbn = t.lbn /\ n.left = l /\ n.right = r
  BY Fields
<1>. HIDE DEF n, x
<1>11. x.height \in {t.height, t.height + 1}
  <2>1. CASE l.height - r.height = 2
    BY <1>1, <1>7, <1>8, <2>1
  <2>2. CASE l.height - r.height \in -1 .. 1
    BY <1>1, <1>2, <1>8, <2>2 DEF r, max_height
  <2>. QED BY <1>9, <2>1, <2>2
<1>12. x.height = t.height + 1 => k < x.lbn /\ x.left.height > x.right.height
  <2>1. CASE l.height - r.height = 2
    BY <1>1, <1>7, <1>8, <2>1
  <2>2. CASE l.height - r.height \in -1 .. 1
    BY <1>1, <1>2, <1>8, <1>10, <2>2 DEF r, max_height
  <2>. QED BY <1>9, <2>1, <2>2
<1>13. Contents(x) = Contents(t) \cup {<<k, TRUE>>}
  BY <1>1, <1>2, <1>8 DEF r
<1>. QED BY <1>8, <1>11, <1>12, <1>13 DEF Inserted, x, n, r

LEMMA InsertedRight ==
    ASSUME NEW t, Good(t), t # Nil, NEW k \in TreeKeys, k > t.lbn,
           NEW r, Inserted(t.right, k, r)
    PROVE  Inserted(t, k, AfterInsert(Node(t.lbn, t.valid, t.left, r), k))
<1>. DEFINE l == t.left
            n == Node(t.lbn, t.valid, l, r)
            x == AfterInsert(n, k)
<1>1. /\ t.lbn \in TreeKeys /\ t.valid \in BOOLEAN /\ Good(l) /\ Good(t.right)
      /\ t.height \in Nat /\ l.height \in Nat /\ t.right.height \in Nat
      /\ t.height = max_height(l.height, t.right.height) + 1
      /\ l.height - t.right.height \in -1 .. 1
      /\ Contents(t) = {<<t.lbn, t.valid>>} \cup Contents(l) \cup Contents(t.right)
      /\ Before(Contents(l), t.lbn) /\ After(Contents(t.right), t.lbn)
  BY GoodParts
<1>2. /\ Good(r) /\ r # Nil /\ Contents(r) = Contents(t.right) \cup {<<k, TRUE>>}
      /\ r.height \in {t.right.height, t.right.height + 1}
  BY DEF Inserted
<1>3. Fits(t.lbn, t.valid, l, r)
  <2>1. <<k, TRUE>>[1] = k
    OBVIOUS
  <2>. QED BY <1>1, <1>2, <2>1 DEF Fits, After
<1>4. r.height \in Nat /\ r.lbn \in Nat /\ k \in Nat /\ r.left.height \in Nat /\ r.right.height \in Nat
  BY <1>2, GoodParts, TreeKeysAssumption
<1>5. x = Rotated(n, k < l.lbn, k > l.lbn, k > r.lbn, k < r.lbn)
  BY Fields DEF AfterInsert
<1>6. l.height - r.height \in -2 .. 2 /\ ~ (l.height - r.height = 2)
  BY <1>1, <1>2, <1>4
<1>7. ASSUME l.height - r.height = -2
      PROVE  /\ r.height = t.right.height + 1 /\ t.height = r.height
             /\ \/ k > r.lbn /\ ~ (k < r.lbn) /\ r.right.height >= r.left.height
                \/ ~ (k > r.lbn) /\ k < r.lbn /\ r.right.height < r.left.height
             /\ r.left.height # r.right.height
  <2>1. r.height = t.right.height + 1 /\ t.right.height = l.height + 1
    BY <1>1, <1>2, <1>4, <1>7
  <2>2. t.right # Nil
    BY <1>1, <2>1, NilTree
  <2>3. \/ k < r.lbn /\ r.left.height > r.right.height
        \/ r.lbn < k /\ r.left.height < r.right.height
    BY <2>1, <2>2 DEF Inserted
  <2>4. t.height = r.height
    BY <1>1, <2>1 DEF max_height
  <2>. QED BY <1>4, <2>1, <2>3, <2>4
<1>. HIDE DEF l
<1>8. /\ Good(x) /\ x # Nil
      /\ Contents(x) = {<<t.lbn, t.valid>>} \cup Contents(l) \cup Contents(r)
      /\ l.height - r.height \in -1 .. 1 => x = n /\ x.height = max_height(l.height, r.height) + 1
      /\ l.height - r.height = -2 => x.height = r.height
  <2>. DEFINE lo == k < l.lbn
              li == k > l.lbn
              ro == k > r.lbn
              ri == k < r.lbn
  <2>1. lo \in BOOLEAN /\ li \in BOOLEAN /\ ro \in BOOLEAN /\ ri \in BOOLEAN
    OBVIOUS
  <2>2. l.height - r.height = -2 => \/ ro /\ ~ ri /\ r.right.height >= r.left.height
                                    \/ ~ ro /\ ri /\ r.right.height < r.left.height
    BY <1>7
  <2>3. x = Rotated(n, lo, li, ro, ri)
    BY <1>5
  <2>. HIDE DEF lo, li, ro, ri, x
  <2>. QED BY <1>3, <1>6, <1>7, <2>1, <2>2, <2>3, Rebalanced
<1>9. l.height - r.height \in -1 .. 1 \/ l.height - r.height = -2
  BY <1>1, <1>4, <1>6 DEF l
<1>10. n.lbn = t.lbn /\ n.left = l /\ n.right = r
  BY Fields
<1>. HIDE DEF n, x
<1>11. x.height \in {t.height, t.height + 1}
  <2>1. CASE l.height - r.height = -2
    BY <1>1, <1>7, <1>8, <2>1
  <2>2. CASE l.height - r.height \in -1 .. 1
    BY <1>1, <1>2, <1>8, <2>2 DEF l, max_height
  <2>. QED BY <1>9, <2>1, <2>2
<1>12. x.height = t.height + 1 => x.lbn < k /\ x.left.height < x.right.height
  <2>1. CASE l.height - r.height = -2
    BY <1>1, <1>7, <1>8, <2>1
  <2>2. CASE l.height - r.height \in -1 .. 1
    BY <1>1, <1>2, <1>8, <1>10, <2>2 DEF l, max_height
  <2>. QED BY <1>9, <2>1, <2>2
<1>13. Contents(x) = Contents(t) \cup {<<k, TRUE>>}
  BY <1>1, <1>2, <1>8 DEF l
<1>. QED BY <1>8, <1>11, <1>12, <1>13 DEF Inserted, x, n, l

LEMMA Insertion ==
    ASSUME NEW t, Good(t), NEW k \in TreeKeys, \A e \in Contents(t) : e[1] # k
    PROVE  Inserted(t, k, insert_tree_node(t, k))
<1>1. PICK D : t \in D /\ Closed(D)
  BY DEF Good, IsTree
<1>. DEFINE New(u) == \A e \in Contents(u) : e[1] # k
            B == {u \in D : Good(u) /\ New(u) => Inserted(u, k, insert_tree_node(u, k))}
<1>2. ASSUME NEW u \in D, u # Nil => u.left \in B /\ u.right \in B PROVE u \in B
  <2>. SUFFICES ASSUME Good(u), New(u) PROVE Inserted(u, k, insert_tree_node(u, k))
    BY DEF B
  <2>1. CASE u = Nil
    <3>. DEFINE v == TRUE
                x == Node(k, v, Nil, Nil)
    <3>0. v \in BOOLEAN
      OBVIOUS
    <3>. HIDE DEF v
    <3>1. Fits(k, v, Nil, Nil)
      BY <3>0, GoodNil, HeldByNil DEF Fits, Before, After
    <3>2. /\ x # Nil /\ x.height = max_height(Nil.height, Nil.height) + 1
          /\ Contents(x) = {<<k, v>>}
          /\ Nil.height - Nil.height \in -1 .. 1 => Good(x)
      BY <3>1, Joined, HeldByNil
    <3>3. x.height = 1 /\ Good(x)
      <4>. HIDE DEF x
      <4>1. 0 - 0 \in -1 .. 1 /\ max_height(0, 0) + 1 = 1
        BY DEF max_height
      <4>. QED BY <3>2, <4>1, NilTree
    <3>4. insert_tree_node(Nil, k) = x
      BY CallsOnNil DEF v
    <3>. HIDE DEF x
    <3>5. Contents(x) = Contents(Nil) \cup {<<k, TRUE>>} /\ x.height \in {Nil.height, Nil.height + 1}
      BY <3>2, <3>3, NilTree, HeldByNil DEF v
    <3>6. Inserted(Nil, k, x)
      BY <3>2, <3>3, <3>5, Zenon DEF Inserted
    <3>. QED BY <2>1, <3>4, <3>6, Zenon
  <2>2. CASE u # Nil
    <3>1. /\ IsTree(u) /\ u.lbn \in TreeKeys /\ Good(u.left) /\ Good(u.right)
          /\ Contents(u) = {<<u.lbn, u.valid>>} \cup Contents(u.left) \cup Contents(u.right)
      BY <2>2, GoodParts
    <3>2. New(u.left) /\ New(u.right)
      BY <3>1
    <3>3. /\ Inserted(u.left, k, insert_tree_node(u.left, k))
          /\ Inserted(u.right, k, insert_tree_node(u.right, k))
      BY <1>2, <2>2, <3>1, <3>2
    <3>4. u.lbn # k
      <4>1. <<u.lbn, u.valid>> \in Contents(u) /\ <<u.lbn, u.valid>>[1] = u.lbn
        BY <3>1
      <4>. QED BY <4>1
    <3>5. u.lbn \in Nat /\ k \in Nat
      BY <3>1, TreeKeysAssumption
    <3>6. CASE k < u.lbn
      BY <2>2, <3>1, <3>3, <3>6, InsertCall, InsertedLeft
    <3>7. CASE ~ (k < u.lbn)
      <4>1. k > u.lbn
        BY <3>4, <3>5, <3>7
      <4>. QED BY <2>2, <3>1, <3>3, <3>7, <4>1, InsertCall, InsertedRight
    <3>. QED BY <3>6, <3>7
  <2>. QED BY <2>1, <2>2
<1>3. D \subseteq B
  <2>. HIDE DEF B
  <2>. QED BY <1>1, <1>2, TreeInduction
<1>. QED BY <1>1, <1>3

(***************************************************************************)
(* Search, the least node, an invalid node                                 *)
(***************************************************************************)
\* f is the node of key k in t, or Nil when there is none.
Found(t, k, f) ==
    \/ IsNil(f) /\ \A e \in Contents(t) : e[1] # k
    \/ ~ IsNil(f) /\ f.valid \in BOOLEAN /\ <<k, f.valid>> \in Contents(t)

LEMMA Searching ==
    ASSUME NEW t, Good(t), NEW k \in TreeKeys
    PROVE  Found(t, k, search_tree_node(t, k))
<1>1. PICK D : t \in D /\ Closed(D)
  BY DEF Good, IsTree
<1>. DEFINE B == {u \in D : Good(u) => Found(u, k, search_tree_node(u, k))}
<1>2. ASSUME NEW u \in D, u # Nil => u.left \in B /\ u.right \in B PROVE u \in B
  <2>. SUFFICES ASSUME Good(u) PROVE Found(u, k, search_tree_node(u, k))
    BY DEF B
  <2>1. CASE u = Nil
    BY <2>1, CallsOnNil, NilTree, HeldByNil DEF Found
  <2>2. CASE u # Nil
    <3>1. /\ IsTree(u) /\ u.lbn \in TreeKeys /\ u.valid \in BOOLEAN /\ Good(u.left) /\ Good(u.right)
          /\ IsTree(u.left) /\ IsTree(u.right)
          /\ Contents(u) = {<<u.lbn, u.valid>>} \cup Contents(u.left) \cup Contents(u.right)
          /\ Before(Contents(u.left), u.lbn) /\ After(Contents(u.right), u.lbn)
      BY <2>2, GoodParts DEF Good
    <3>2. /\ Found(u.left, k, search_tree_node(u.left, k))
          /\ Found(u.right, k, search_tree_node(u.right, k))
      BY <1>2, <2>2, <3>1
    <3>3. u.lbn \in Nat /\ k \in Nat /\ ~ IsNil(u) /\ <<u.lbn, u.valid>>[1] = u.lbn
      BY <2>2, <3>1, TreeParts, TreeKeysAssumption
    <3>4. /\ \A e \in Contents(u.left) : e[1] \in Nat /\ e[1] < u.lbn
          /\ \A e \in Contents(u.right) : e[1] \in Nat /\ u.lbn < e[1]
      BY <3>1, KeysOf DEF Before, After
    <3>5. CASE k = u.lbn
      <4>1. search_tree_node(u, k) = u
        BY <2>2, <3>1, <3>5, SearchCall
      <4>. QED BY <3>1, <3>3, <3>5, <4>1 DEF Found
    <3>6. CASE k < u.lbn
      <4>1. search_tree_node(u, k) = search_tree_node(u.left, k)
        BY <2>2, <3>1, <3>3, <3>6, SearchCall
      <4>2. \A e \in Contents(u.right) \cup {<<u.lbn, u.valid>>} : e[1] # k
        BY <3>3, <3>4, <3>6
      <4>. QED BY <3>1, <3>2, <4>1, <4>2 DEF Found
    <3>7. CASE u.lbn < k
      <4>1. search_tree_node(u, k) = search_tree_node(u.right, k)
        BY <2>2, <3>1, <3>3, <3>7, SearchCall
      <4>2. \A e \in Contents(u.left) \cup {<<u.lbn, u.valid>>} : e[1] # k
        BY <3>3, <3>4, <3>7
      <4>. QED BY <3>1, <3>2, <4>1, <4>2 DEF Found
    <3>. QED BY <3>3, <3>5, <3>6, <3>7
  <2>. QED BY <2>1, <2>2
<1>3. D \subseteq B
  <2>. HIDE DEF B
  <2>. QED BY <1>1, <1>2, TreeInduction
<1>. QED BY <1>1, <1>3

\* s is the node of the least key in t.
Least(t, s) ==
    /\ s.lbn \in TreeKeys /\ s.valid \in BOOLEAN
    /\ <<s.lbn, s.valid>> \in Contents(t)
    /\ \A e \in Contents(t) : s.lbn <= e[1]

LEMMA Minimum ==
    ASSUME NEW t, Good(t), t # Nil
    PROVE  Least(t, min_value_node(t))
<1>1. PICK D : t \in D /\ Closed(D)
  BY DEF Good, IsTree
<1>. DEFINE B == {u \in D : Good(u) /\ u # Nil => Least(u, min_value_node(u))}
<1>2. ASSUME NEW u \in D, u # Nil => u.left \in B /\ u.right \in B PROVE u \in B
  <2>. SUFFICES ASSUME Good(u), u # Nil PROVE Least(u, min_value_node(u))
    BY DEF B
  <2>1. /\ IsTree(u) /\ u.lbn \in TreeKeys /\ u.valid \in BOOLEAN /\ Good(u.left) /\ Good(u.right)
        /\ IsTree(u.left) /\ IsTree(u.right)
        /\ Contents(u) = {<<u.lbn, u.valid>>} \cup Contents(u.left) \cup Contents(u.right)
        /\ Before(Contents(u.left), u.lbn) /\ After(Contents(u.right), u.lbn)
    BY GoodParts DEF Good
  <2>2. /\ u.lbn \in Nat /\ <<u.lbn, u.valid>>[1] = u.lbn
        /\ \A e \in Contents(u.left) : e[1] \in Nat /\ e[1] < u.lbn
        /\ \A e \in Contents(u.right) : e[1] \in Nat /\ u.lbn < e[1]
    BY <2>1, KeysOf, TreeKeysAssumption DEF Before, After
  <2>3. CASE u.left = Nil
    <3>1. min_value_node(u) = u
      BY <2>1, <2>3, NilTree, MinCall
    <3>2. Contents(u.left) = {}
      BY <2>3, HeldByNil
    <3>. QED BY <2>1, <2>2, <3>1, <3>2 DEF Least
  <2>4. CASE u.left # Nil
    <3>1. min_value_node(u) = min_value_node(u.left)
      BY <2>1, <2>4, TreeParts, MinCall
    <3>2. Least(u.left, min_value_node(u.left))
      BY <1>2, <2>1, <2>4
    <3>. DEFINE s == min_value_node(u.left)
    <3>3. s.lbn \in Nat /\ s.lbn < u.lbn
      <4>1. <<s.lbn, s.valid>>[1] = s.lbn
        OBVIOUS
      <4>2. <<s.lbn, s.valid>> \in Contents(u.left)
        BY <3>2 DEF Least
      <4>. QED BY <2>2, <4>1, <4>2
    <3>4. \A e \in Contents(u) : s.lbn <= e[1]
      <4>. HIDE DEF s
      <4>1. \A e \in Contents(u.left) : s.lbn <= e[1]
        BY <3>2 DEF Least, s
      <4>. QED BY <2>1, <2>2, <3>3, <4>1
    <3>. QED BY <2>1, <3>1, <3>2, <3>4 DEF Least
  <2>. QED BY <2>3, <2>4
<1>3. D \subseteq B
  <2>. HIDE DEF B
  <2>. QED BY <1>1, <1>2, TreeInduction
<1>. QED BY <1>1, <1>3

\* f is an invalid node of t, or Nil when there is none.
FoundInvalid(t, f) ==
    \/ IsNil(f) /\ \A e \in Contents(t) : e[2] = TRUE
    \/ ~ IsNil(f) /\ f.lbn \in TreeKeys /\ <<f.lbn, FALSE>> \in Contents(t)

LEMMA FindingInvalid ==
    ASSUME NEW t, IsTree(t)
    PROVE  FoundInvalid(t, find_invalid_tree_node(t))
<1>1. PICK D : t \in D /\ Closed(D)
  BY DEF IsTree
<1>. DEFINE B == {u \in D : FoundInvalid(u, find_invalid_tree_node(u))}
<1>2. ASSUME NEW u \in D, u # Nil => u.left \in B /\ u.right \in B PROVE u \in B
  <2>. SUFFICES FoundInvalid(u, find_invalid_tree_node(u))
    BY DEF B
  <2>1. CASE u = Nil
    <3>1. find_invalid_tree_node(Nil) = Nil
      <4>. QED BY NilTree, FindResult, ResultOfNil DEF Base
    <3>. QED BY <2>1, <3>1, NilTree, HeldByNil DEF FoundInvalid
  <2>2. CASE u # Nil
    <3>1. /\ IsTree(u) /\ u.lbn \in TreeKeys /\ u.valid \in BOOLEAN /\ ~ IsNil(u)
          /\ Contents(u) = {<<u.lbn, u.valid>>} \cup Contents(u.left) \cup Contents(u.right)
      BY <1>1, <2>2, TreeCases, HeldByNode
    <3>2. /\ FoundInvalid(u.left, find_invalid_tree_node(u.left))
          /\ FoundInvalid(u.right, find_invalid_tree_node(u.right))
      BY <1>2, <2>2
    <3>3. CASE u.valid = FALSE
      <4>1. find_invalid_tree_node(u) = u
        BY <2>2, <3>1, <3>3, FindCall
      <4>. QED BY <3>1, <3>3, <4>1 DEF FoundInvalid
    <3>4. CASE u.valid = TRUE
      <4>1. <<u.lbn, u.valid>>[2] = TRUE
        BY <3>4
      <4>2. find_invalid_tree_node(u) =
              IF IsNil(find_invalid_tree_node(u.left)) THEN find_invalid_tree_node(u.right)
              ELSE find_invalid_tree_node(u.left)
        BY <2>2, <3>1, <3>4, FindCall
      <4>. QED BY <3>1, <3>2, <4>1, <4>2 DEF FoundInvalid
    <3>. QED BY <3>1, <3>3, <3>4
  <2>. QED BY <2>1, <2>2
<1>3. D \subseteq B
  <2>. HIDE DEF B
  <2>. QED BY <1>1, <1>2, TreeInduction
<1>. QED BY <1>1, <1>3

(***************************************************************************)
(* Logical deletion                                                        *)
(***************************************************************************)
\* What C holds, the entry of k invalid.
Marked(C, k) == {IF e[1] = k THEN <<k, FALSE>> ELSE e : e \in C}

LEMMA MarkedElsewhere ==
    ASSUME NEW C, NEW k, \A e \in C : e[1] # k
    PROVE  Marked(C, k) = C
<1>1. \A e \in C : (IF e[1] = k THEN <<k, FALSE>> ELSE e) = e
  OBVIOUS
<1>2. Marked(C, k) \subseteq C
  BY <1>1, Zenon DEF Marked
<1>3. C \subseteq Marked(C, k)
  BY <1>1, Zenon DEF Marked
<1>. QED BY <1>2, <1>3, Zenon

LEMMA NodeExcept ==
    ASSUME NEW t, IsTree(t), t # Nil
    PROVE  /\ [t EXCEPT !.valid = FALSE] = Node(t.lbn, FALSE, t.left, t.right)
           /\ \A x : x.height = t.left.height => [t EXCEPT !.left = x] = Node(t.lbn, t.valid, x, t.right)
           /\ \A x : x.height = t.right.height => [t EXCEPT !.right = x] = Node(t.lbn, t.valid, t.left, x)
<1>. DEFINE k == t.lbn
            v == t.valid
            l == t.left
            r == t.right
            h == max_height(l.height, r.height) + 1
<1>1. t = Node(k, v, l, r)
  BY TreeParts
<1>2. t = [lbn |-> k, valid |-> v, left |-> l, right |-> r, height |-> h]
  BY <1>1, Zenon DEF Node
<1>3. Node(k, FALSE, l, r) = [lbn |-> k, valid |-> FALSE, left |-> l, right |-> r, height |-> h]
  BY Zenon DEF Node
<1>4. \A x : x.height = l.height
             => Node(k, v, x, r) = [lbn |-> k, valid |-> v, left |-> x, right |-> r, height |-> h]
  BY Zenon DEF Node
<1>5. \A x : x.height = r.height
             => Node(k, v, l, x) = [lbn |-> k, valid |-> v, left |-> l, right |-> x, height |-> h]
  BY Zenon DEF Node
<1>. HIDE DEF k, v, l, r, h
<1>6. [t EXCEPT !.valid = FALSE] = Node(k, FALSE, l, r)
  <2>1. \A w : [t EXCEPT !.valid = w] = [lbn |-> k, valid |-> w, left |-> l, right |-> r, height |-> h]
    BY <1>2
  <2>. QED BY <1>3, <2>1, Zenon
<1>7. ASSUME NEW x, x.height = l.height PROVE [t EXCEPT !.left = x] = Node(k, v, x, r)
  <2>1. Node(k, v, x, r) = [lbn |-> k, valid |-> v, left |-> x, right |-> r, height |-> h]
    BY <1>4, <1>7
  <2>. QED BY <1>2, <2>1
<1>8. ASSUME NEW x, x.height = r.height PROVE [t EXCEPT !.right = x] = Node(k, v, l, x)
  <2>1. Node(k, v, l, x) = [lbn |-> k, valid |-> v, left |-> l, right |-> x, height |-> h]
    BY <1>5, <1>8
  <2>. QED BY <1>2, <2>1
<1>. QED BY <1>6, <1>7, <1>8 DEF k, v, l, r

\* k becomes invalid where it is, and nothing moves.
MarkedTree(t, k, x) ==
    /\ Good(x) /\ x.height = t.height
    /\ Contents(x) = Marked(Contents(t), k)

LEMMA Marking ==
    ASSUME NEW t, Good(t), NEW k \in TreeKeys
    PROVE  MarkedTree(t, k, Invalidated(t, k))
<1>1. PICK D : t \in D /\ Closed(D)
  BY DEF Good, IsTree
<1>. DEFINE B == {u \in D : Good(u) => MarkedTree(u, k, Invalidated(u, k))}
<1>2. ASSUME NEW u \in D, u # Nil => u.left \in B /\ u.right \in B PROVE u \in B
  <2>. SUFFICES ASSUME Good(u) PROVE MarkedTree(u, k, Invalidated(u, k))
    BY DEF B
  <2>1. CASE u = Nil
    <3>1. Invalidated(Nil, k) = Nil
      BY CallsOnNil
    <3>2. Contents(Nil) = Marked(Contents(Nil), k)
      BY HeldByNil DEF Marked
    <3>. QED BY <2>1, <3>1, <3>2, GoodNil DEF MarkedTree
  <2>2. CASE u # Nil
    <3>. DEFINE l == u.left
                r == u.right
                x == Invalidated(u, k)
    <3>1. /\ IsTree(u) /\ u.lbn \in TreeKeys /\ u.valid \in BOOLEAN /\ Good(l) /\ Good(r)
          /\ IsTree(l) /\ IsTree(r)
          /\ Contents(u) = {<<u.lbn, u.valid>>} \cup Contents(l) \cup Contents(r)
          /\ Before(Contents(l), u.lbn) /\ After(Contents(r), u.lbn)
          /\ l.height - r.height \in -1 .. 1 /\ u.height = max_height(l.height, r.height) + 1
      BY <2>2, GoodParts DEF Good
    <3>2. /\ u.lbn \in Nat /\ k \in Nat
          /\ \A e \in Contents(l) : e[1] \in Nat /\ e[1] < u.lbn
          /\ \A e \in Contents(r) : e[1] \in Nat /\ u.lbn < e[1]
      BY <3>1, KeysOf, TreeKeysAssumption DEF Before, After
    <3>3. MarkedTree(l, k, Invalidated(l, k)) /\ MarkedTree(r, k, Invalidated(r, k))
      BY <1>2, <2>2, <3>1
    <3>4. Marked(Contents(u), k) = (IF u.lbn = k THEN {<<k, FALSE>>} ELSE {<<u.lbn, u.valid>>})
                                   \cup Marked(Contents(l), k) \cup Marked(Contents(r), k)
      <4>. HIDE DEF l, r
      <4>1. <<u.lbn, u.valid>>[1] = u.lbn
        OBVIOUS
      <4>. QED BY <3>1, <4>1 DEF Marked
    <3>5. CASE k = u.lbn
      <4>. DEFINE v == FALSE
      <4>0. v \in BOOLEAN
        OBVIOUS
      <4>. HIDE DEF v
      <4>1. x = Node(u.lbn, v, l, r)
        BY <2>2, <3>1, <3>5, InvalidateCall, NodeExcept DEF v
      <4>. HIDE DEF l, r, x
      <4>2. Fits(u.lbn, v, l, r)
        BY <3>1, <4>0 DEF Fits
      <4>3. Good(x) /\ x.height = u.height /\ Contents(x) = {<<u.lbn, v>>} \cup Contents(l) \cup Contents(r)
        BY <3>1, <4>1, <4>2, Joined
      <4>4. Marked(Contents(l), k) = Contents(l)
        <5>1. \A e \in Contents(l) : e[1] # k
          BY <3>2, <3>5
        <5>. QED BY <5>1, MarkedElsewhere
      <4>5. Marked(Contents(r), k) = Contents(r)
        <5>1. \A e \in Contents(r) : e[1] # k
          BY <3>2, <3>5
        <5>. QED BY <5>1, MarkedElsewhere
      <4>6. Contents(x) = Marked(Contents(u), k)
        BY <3>4, <3>5, <4>3, <4>4, <4>5 DEF v
      <4>. QED BY <4>3, <4>6 DEF MarkedTree, x
    <3>6. CASE k < u.lbn
      <4>. DEFINE y == Invalidated(l, k)
      <4>1. x = Node(u.lbn, u.valid, y, r)
        <5>1. y.height = u.left.height /\ k # u.lbn
          BY <3>2, <3>3, <3>6 DEF MarkedTree
        <5>2. x = [u EXCEPT !.left = y]
          BY <2>2, <3>1, <3>6, <5>1, InvalidateCall
        <5>. QED BY <2>2, <3>1, <5>1, <5>2, NodeExcept
      <4>. HIDE DEF l, r, x
      <4>2. Good(y) /\ y.height = l.height /\ Contents(y) = Marked(Contents(l), k)
        BY <3>3 DEF MarkedTree
      <4>3. Before(Contents(y), u.lbn)
        <5>1. <<k, FALSE>>[1] = k
          OBVIOUS
        <5>. QED BY <3>2, <3>6, <4>2, <5>1 DEF Before, Marked
      <4>. HIDE DEF y
      <4>4. Fits(u.lbn, u.valid, y, r)
        BY <3>1, <4>2, <4>3 DEF Fits
      <4>5. Good(x) /\ x.height = u.height /\ Contents(x) = {<<u.lbn, u.valid>>} \cup Contents(y) \cup Contents(r)
        BY <3>1, <4>1, <4>2, <4>4, Joined
      <4>6. Marked(Contents(r), k) = Contents(r)
        <5>1. \A e \in Contents(r) : e[1] # k
          BY <3>2, <3>6
        <5>. QED BY <5>1, MarkedElsewhere
      <4>7. Contents(x) = Marked(Contents(u), k)
        <5>1. u.lbn # k
          BY <3>2, <3>6
        <5>. QED BY <3>4, <4>2, <4>5, <4>6, <5>1
      <4>. QED BY <4>5, <4>7 DEF MarkedTree, x
    <3>7. CASE u.lbn < k
      <4>. DEFINE y == Invalidated(r, k)
      <4>1. x = Node(u.lbn, u.valid, l, y)
        <5>1. y.height = u.right.height /\ k # u.lbn /\ ~ (k < u.lbn)
          BY <3>2, <3>3, <3>7 DEF MarkedTree
        <5>2. x = [u EXCEPT !.right = y]
          BY <2>2, <3>1, <5>1, InvalidateCall
        <5>. QED BY <2>2, <3>1, <5>1, <5>2, NodeExcept
      <4>. HIDE DEF l, r, x
      <4>2. Good(y) /\ y.height = r.height /\ Contents(y) = Marked(Contents(r), k)
        BY <3>3 DEF MarkedTree
      <4>3. After(Contents(y), u.lbn)
        <5>1. <<k, FALSE>>[1] = k
          OBVIOUS
        <5>. QED BY <3>2, <3>7, <4>2, <5>1 DEF After, Marked
      <4>. HIDE DEF y
      <4>4. Fits(u.lbn, u.valid, l, y)
        BY <3>1, <4>2, <4>3 DEF Fits
      <4>5. Good(x) /\ x.height = u.height /\ Contents(x) = {<<u.lbn, u.valid>>} \cup Contents(l) \cup Contents(y)
        BY <3>1, <4>1, <4>2, <4>4, Joined
      <4>6. Marked(Contents(l), k) = Contents(l)
        <5>1. \A e \in Contents(l) : e[1] # k
          BY <3>2, <3>7
        <5>. QED BY <5>1, MarkedElsewhere
      <4>7. Contents(x) = Marked(Contents(u), k)
        <5>1. u.lbn # k
          BY <3>2, <3>7
        <5>. QED BY <3>4, <4>2, <4>5, <4>6, <5>1
      <4>. QED BY <4>5, <4>7 DEF MarkedTree, x
    <3>. QED BY <3>2, <3>5, <3>6, <3>7
  <2>. QED BY <2>1, <2>2
<1>3. D \subseteq B
  <2>. HIDE DEF B
  <2>. QED BY <1>1, <1>2, TreeInduction
<1>. QED BY <1>1, <1>3

(***************************************************************************)
(* Physical deletion                                                       *)
(***************************************************************************)
\* A node whose subtrees may differ by two levels, as a deletion leaves it.
LEMMA AfterDeletion ==
    ASSUME NEW k, NEW v, NEW l, NEW r, Fits(k, v, l, r), l.height - r.height \in -2 .. 2,
           NEW x, x = AfterDelete(Node(k, v, l, r))
    PROVE  /\ Good(x) /\ x # Nil
           /\ Contents(x) = {<<k, v>>} \cup Contents(l) \cup Contents(r)
           /\ l.height \in Nat /\ r.height \in Nat /\ x.height \in Nat
           /\ x.height \in {max_height(l.height, r.height), max_height(l.height, r.height) + 1}
           /\ l.height - r.height \in -1 .. 1 => x = Node(k, v, l, r)
<1>. DEFINE n == Node(k, v, l, r)
            lo == get_balance(l) >= 0
            li == get_balance(l) < 0
            ro == get_balance(r) <= 0
            ri == get_balance(r) > 0
<1>1. l.height \in Nat /\ r.height \in Nat /\ Good(l) /\ Good(r) /\ IsTree(l) /\ IsTree(r)
  BY Joined DEF Fits, Good
<1>2. n.left = l /\ n.right = r
  BY Fields
<1>3. x = Rotated(n, lo, li, ro, ri)
  <2>. HIDE DEF n
  <2>. QED BY <1>2 DEF AfterDelete, n
<1>4. l.height - r.height = 2 => \/ lo /\ ~ li /\ l.left.height >= l.right.height
                                 \/ ~ lo /\ li /\ l.left.height < l.right.height
  <2>. SUFFICES ASSUME l.height - r.height = 2
                PROVE  \/ lo /\ ~ li /\ l.left.height >= l.right.height
                       \/ ~ lo /\ li /\ l.left.height < l.right.height
    OBVIOUS
  <2>1. l # Nil
    BY <1>1, NilTree
  <2>2. ~ IsNil(l) /\ l.left.height \in Nat /\ l.right.height \in Nat
    BY <1>1, <2>1, TreeParts
  <2>3. get_balance(l) = l.left.height - l.right.height
    BY <2>2 DEF get_balance
  <2>. QED BY <2>2, <2>3
<1>5. l.height - r.height = -2 => \/ ro /\ ~ ri /\ r.right.height >= r.left.height
                                  \/ ~ ro /\ ri /\ r.right.height < r.left.height
  <2>. SUFFICES ASSUME l.height - r.height = -2
                PROVE  \/ ro /\ ~ ri /\ r.right.height >= r.left.height
                       \/ ~ ro /\ ri /\ r.right.height < r.left.height
    OBVIOUS
  <2>1. r # Nil
    BY <1>1, NilTree
  <2>2. ~ IsNil(r) /\ r.left.height \in Nat /\ r.right.height \in Nat
    BY <1>1, <2>1, TreeParts
  <2>3. get_balance(r) = r.left.height - r.right.height
    BY <2>2 DEF get_balance
  <2>. QED BY <2>2, <2>3
<1>6. lo \in BOOLEAN /\ li \in BOOLEAN /\ ro \in BOOLEAN /\ ri \in BOOLEAN
  OBVIOUS
<1>. HIDE DEF lo, li, ro, ri
<1>7. /\ Good(x) /\ x # Nil
      /\ Contents(x) = {<<k, v>>} \cup Contents(l) \cup Contents(r)
      /\ x.height \in Nat
      /\ l.height - r.height \in -1 .. 1 => x = n /\ x.height = max_height(l.height, r.height) + 1
      /\ l.height - r.height = 2 => x.height \in {l.height, l.height + 1}
      /\ l.height - r.height = -2 => x.height \in {r.height, r.height + 1}
  BY <1>3, <1>4, <1>5, <1>6, Rebalanced
<1>8. x.height \in {max_height(l.height, r.height), max_height(l.height, r.height) + 1}
  <2>1. CASE l.height - r.height \in -1 .. 1
    BY <1>7, <2>1
  <2>2. CASE l.height - r.height = 2
    BY <1>1, <1>7, <2>2 DEF max_height
  <2>3. CASE l.height - r.height = -2
    BY <1>1, <1>7, <2>3 DEF max_height
  <2>4. l.height - r.height \in -1 .. 1 \/ l.height - r.height = 2 \/ l.height - r.height = -2
    BY <1>1
  <2>. QED BY <2>1, <2>2, <2>3, <2>4
<1>. QED BY <1>1, <1>7, <1>8

\* The height of a node one of whose subtrees may have lost a level.
LEMMA HeightAfterDeletion ==
    ASSUME NEW a, NEW b, NEW l, NEW r, NEW x,
           a \in Nat, b \in Nat, a - b \in -1 .. 1,
           l \in Nat, r \in Nat, l \in {a - 1, a}, r \in {b - 1, b}, l = a \/ r = b,
           x \in {max_height(l, r), max_height(l, r) + 1},
           l - r \in -1 .. 1 => x = max_height(l, r) + 1
    PROVE  x \in {max_height(a, b), max_height(a, b) + 1}
<1>1. CASE l = a /\ r = b
  BY <1>1
<1>2. CASE l = a /\ r = b - 1
  <2>1. a - b = -1 \/ a - b = 0 \/ a - b = 1
    OBVIOUS
  <2>. QED BY <1>2, <2>1 DEF max_height
<1>3. CASE l = a - 1 /\ r = b
  <2>1. a - b = -1 \/ a - b = 0 \/ a - b = 1
    OBVIOUS
  <2>. QED BY <1>3, <2>1 DEF max_height
<1>. QED BY <1>1, <1>2, <1>3

Without(C, k) == {e \in C : e[1] # k}

\* k is gone, and with it at most one level.
Deleted(t, k, x) ==
    /\ Good(x)
    /\ Contents(x) = Without(Contents(t), k)
    /\ x.height \in {t.height - 1, t.height}

LEMMA DeletedLeft ==
    ASSUME NEW t, Good(t), t # Nil, NEW k \in TreeKeys, k < t.lbn,
           NEW l, Deleted(t.left, k, l)
    PROVE  Deleted(t, k, AfterDelete(Node(t.lbn, t.valid, l, t.right)))
<1>. DEFINE r == t.right
            x == AfterDelete(Node(t.lbn, t.valid, l, r))
<1>1. /\ t.lbn \in TreeKeys /\ t.valid \in BOOLEAN /\ Good(t.left) /\ Good(r) /\ IsTree(r)
      /\ t.height \in Nat /\ t.left.height \in Nat /\ r.height \in Nat
      /\ t.height = max_height(t.left.height, r.height) + 1
      /\ t.left.height - r.height \in -1 .. 1
      /\ Contents(t) = {<<t.lbn, t.valid>>} \cup Contents(t.left) \cup Contents(r)
      /\ Before(Contents(t.left), t.lbn) /\ After(Contents(r), t.lbn)
  BY GoodParts DEF Good
<1>2. /\ Good(l) /\ Contents(l) = Without(Contents(t.left), k)
      /\ l.height \in {t.left.height - 1, t.left.height}
  BY DEF Deleted
<1>3. Fits(t.lbn, t.valid, l, r)
  BY <1>1, <1>2 DEF Fits, Before, Without
<1>. HIDE DEF r
<1>4. l.height \in Nat
  BY <1>3, Joined
<1>5. l.height - r.height \in -2 .. 2
  BY <1>1, <1>2, <1>4 DEF r
<1>6. /\ Good(x)
      /\ Contents(x) = {<<t.lbn, t.valid>>} \cup Contents(l) \cup Contents(r)
      /\ x.height \in {max_height(l.height, r.height), max_height(l.height, r.height) + 1}
      /\ l.height - r.height \in -1 .. 1 => x = Node(t.lbn, t.valid, l, r)
  BY <1>3, <1>5, AfterDeletion
<1>7. l.height - r.height \in -1 .. 1 => x.height = max_height(l.height, r.height) + 1
  BY <1>3, <1>6, Joined
<1>. HIDE DEF x
<1>8. x.height \in {t.height - 1, t.height}
  <2>. DEFINE a == t.left.height
              b == t.right.height
              p == l.height
              q == r.height
              h == x.height
  <2>1. /\ a \in Nat /\ b \in Nat /\ a - b \in -1 .. 1 /\ p \in Nat /\ q \in Nat
        /\ p \in {a - 1, a} /\ q \in {b - 1, b} /\ (p = a \/ q = b)
        /\ h \in {max_height(p, q), max_height(p, q) + 1}
        /\ p - q \in -1 .. 1 => h = max_height(p, q) + 1
        /\ t.height = max_height(a, b) + 1 /\ t.height \in Nat
    BY <1>1, <1>2, <1>4, <1>6, <1>7 DEF r
  <2>. HIDE DEF a, b, p, q, h
  <2>2. h \in {max_height(a, b), max_height(a, b) + 1}
    BY <2>1, HeightAfterDeletion
  <2>3. max_height(a, b) \in Nat
    BY <2>1, Heights
  <2>. QED BY <2>1, <2>2, <2>3 DEF h
<1>9. Contents(x) = Without(Contents(t), k)
  <2>1. t.lbn \in Nat /\ k \in Nat /\ <<t.lbn, t.valid>>[1] = t.lbn
    BY <1>1, TreeKeysAssumption
  <2>2. \A e \in Contents(r) : e[1] \in Nat /\ t.lbn < e[1]
    BY <1>1, KeysOf DEF After, r
  <2>3. \A e \in Contents(r) \cup {<<t.lbn, t.valid>>} : e[1] # k
    BY <2>1, <2>2
  <2>. QED BY <1>1, <1>2, <1>6, <2>3 DEF Without, r
<1>. QED BY <1>6, <1>8, <1>9 DEF Deleted, x, r

LEMMA DeletedRight ==
    ASSUME NEW t, Good(t), t # Nil, NEW k \in TreeKeys, k > t.lbn,
           NEW r, Deleted(t.right, k, r)
    PROVE  Deleted(t, k, AfterDelete(Node(t.lbn, t.valid, t.left, r)))
<1>. DEFINE l == t.left
            x == AfterDelete(Node(t.lbn, t.valid, l, r))
<1>1. /\ t.lbn \in TreeKeys /\ t.valid \in BOOLEAN /\ Good(l) /\ Good(t.right) /\ IsTree(l)
      /\ t.height \in Nat /\ l.height \in Nat /\ t.right.height \in Nat
      /\ t.height = max_height(l.height, t.right.height) + 1
      /\ l.height - t.right.height \in -1 .. 1
      /\ Contents(t) = {<<t.lbn, t.valid>>} \cup Contents(l) \cup Contents(t.right)
      /\ Before(Contents(l), t.lbn) /\ After(Contents(t.right), t.lbn)
  BY GoodParts DEF Good
<1>2. /\ Good(r) /\ Contents(r) = Without(Contents(t.right), k)
      /\ r.height \in {t.right.height - 1, t.right.height}
  BY DEF Deleted
<1>3. Fits(t.lbn, t.valid, l, r)
  BY <1>1, <1>2 DEF Fits, After, Without
<1>. HIDE DEF l
<1>4. r.height \in Nat
  BY <1>3, Joined
<1>5. l.height - r.height \in -2 .. 2
  BY <1>1, <1>2, <1>4 DEF l
<1>6. /\ Good(x)
      /\ Contents(x) = {<<t.lbn, t.valid>>} \cup Contents(l) \cup Contents(r)
      /\ x.height \in {max_height(l.height, r.height), max_height(l.height, r.height) + 1}
      /\ l.height - r.height \in -1 .. 1 => x = Node(t.lbn, t.valid, l, r)
  BY <1>3, <1>5, AfterDeletion
<1>7. l.height - r.height \in -1 .. 1 => x.height = max_height(l.height, r.height) + 1
  BY <1>3, <1>6, Joined
<1>. HIDE DEF x
<1>8. x.height \in {t.height - 1, t.height}
  <2>. DEFINE a == t.left.height
              b == t.right.height
              p == l.height
              q == r.height
              h == x.height
  <2>1. /\ a \in Nat /\ b \in Nat /\ a - b \in -1 .. 1 /\ p \in Nat /\ q \in Nat
        /\ p \in {a - 1, a} /\ q \in {b - 1, b} /\ (p = a \/ q = b)
        /\ h \in {max_height(p, q), max_height(p, q) + 1}
        /\ p - q \in -1 .. 1 => h = max_height(p, q) + 1
        /\ t.height = max_height(a, b) + 1 /\ t.height \in Nat
    BY <1>1, <1>2, <1>4, <1>6, <1>7 DEF l
  <2>. HIDE DEF a, b, p, q, h
  <2>2. h \in {max_height(a, b), max_height(a, b) + 1}
    BY <2>1, HeightAfterDeletion
  <2>3. max_height(a, b) \in Nat
    BY <2>1, Heights
  <2>. QED BY <2>1, <2>2, <2>3 DEF h
<1>9. Contents(x) = Without(Contents(t), k)
  <2>1. t.lbn \in Nat /\ k \in Nat /\ <<t.lbn, t.valid>>[1] = t.lbn
    BY <1>1, TreeKeysAssumption
  <2>2. \A e \in Contents(l) : e[1] \in Nat /\ e[1] < t.lbn
    BY <1>1, KeysOf DEF Before, l
  <2>3. \A e \in Contents(l) \cup {<<t.lbn, t.valid>>} : e[1] # k
    BY <2>1, <2>2
  <2>. QED BY <1>1, <1>2, <1>6, <2>3 DEF Without, l
<1>. QED BY <1>6, <1>8, <1>9 DEF Deleted, x, l

\* An only child's contents replace the node's.
LEMMA OnlyChild ==
    ASSUME NEW c, Good(c), c # Nil
    PROVE  AfterDelete(Node(c.lbn, c.valid, c.left, c.right)) = c
<1>1. Fits(c.lbn, c.valid, c.left, c.right) /\ c.left.height - c.right.height \in -1 .. 1
  BY GoodParts DEF Fits
<1>2. c.left.height - c.right.height \in -2 .. 2
  BY <1>1, Joined
<1>. DEFINE x == AfterDelete(Node(c.lbn, c.valid, c.left, c.right))
<1>3. x = Node(c.lbn, c.valid, c.left, c.right)
  <2>1. x = AfterDelete(Node(c.lbn, c.valid, c.left, c.right))
    OBVIOUS
  <2>. HIDE DEF x
  <2>. QED BY <1>1, <1>2, <2>1, AfterDeletion
<1>. QED BY <1>3, GoodParts

LEMMA DeletedRoot ==
    ASSUME NEW t, Good(t), t # Nil, NEW right,
           \A j \in TreeKeys : Deleted(t.right, j, right[j])
    PROVE  Deleted(t, t.lbn, WithoutRoot(t, right))
<1>. DEFINE l == t.left
            r == t.right
            k == t.lbn
            x == WithoutRoot(t, right)
<1>1. /\ k \in TreeKeys /\ t.valid \in BOOLEAN /\ Good(l) /\ Good(r) /\ IsTree(l) /\ IsTree(r)
      /\ t.height \in Nat /\ l.height \in Nat /\ r.height \in Nat
      /\ t.height = max_height(l.height, r.height) + 1
      /\ l.height - r.height \in -1 .. 1
      /\ Contents(t) = {<<k, t.valid>>} \cup Contents(l) \cup Contents(r)
      /\ Before(Contents(l), k) /\ After(Contents(r), k)
  BY GoodParts DEF Good
<1>2. /\ k \in Nat /\ <<k, t.valid>>[1] = k
      /\ \A e \in Contents(l) : e[1] \in Nat /\ e[1] < k
      /\ \A e \in Contents(r) : e[1] \in Nat /\ k < e[1]
  BY <1>1, KeysOf, TreeKeysAssumption DEF Before, After
<1>3. (IsNil(l) <=> l = Nil) /\ (IsNil(r) <=> r = Nil)
  BY <1>1, TreeParts
<1>. HIDE DEF l, r, k
<1>4. Without(Contents(t), k) = Contents(l) \cup Contents(r)
  <2>1. \A e \in Contents(l) \cup Contents(r) : e[1] # k
    BY <1>2
  <2>. QED BY <1>1, <1>2, <2>1 DEF Without
<1>5. CASE l = Nil /\ r = Nil
  <2>1. x = Nil
    BY <1>3, <1>5 DEF WithoutRoot, l, r
  <2>2. t.height - 1 = 0
    BY <1>1, <1>5, NilTree DEF max_height
  <2>. HIDE DEF x
  <2>3. Contents(x) = Without(Contents(t), k)
    BY <1>4, <1>5, <2>1, HeldByNil
  <2>. QED BY <2>1, <2>2, <2>3, GoodNil, NilTree DEF Deleted, x, k
<1>6. CASE l = Nil /\ r # Nil
  <2>1. x = AfterDelete(Node(r.lbn, r.valid, r.left, r.right))
    BY <1>3, <1>6 DEF WithoutRoot, l, r
  <2>2. x = r
    BY <1>1, <1>6, <2>1, OnlyChild
  <2>3. t.height - 1 = r.height
    BY <1>1, <1>6, NilTree DEF max_height
  <2>4. Contents(x) = Without(Contents(t), k)
    BY <1>4, <1>6, <2>2, HeldByNil
  <2>. QED BY <1>1, <2>2, <2>3, <2>4 DEF Deleted, k
<1>7. CASE l # Nil /\ r = Nil
  <2>1. x = AfterDelete(Node(l.lbn, l.valid, l.left, l.right))
    BY <1>3, <1>7 DEF WithoutRoot, l, r
  <2>2. x = l
    BY <1>1, <1>7, <2>1, OnlyChild
  <2>3. t.height - 1 = l.height
    BY <1>1, <1>7, NilTree DEF max_height
  <2>4. Contents(x) = Without(Contents(t), k)
    BY <1>4, <1>7, <2>2, HeldByNil
  <2>. QED BY <1>1, <2>2, <2>3, <2>4 DEF Deleted, k
<1>8. CASE l # Nil /\ r # Nil
  <2>. DEFINE s == min_value_node(r)
              y == right[s.lbn]
  <2>1. Least(r, s)
    BY <1>1, <1>8, Minimum
  <2>2. x = AfterDelete(Node(s.lbn, s.valid, l, y))
    BY <1>3, <1>8 DEF WithoutRoot, l, r
  <2>3. /\ s.lbn \in TreeKeys /\ s.valid \in BOOLEAN /\ s.lbn \in Nat
        /\ <<s.lbn, s.valid>> \in Contents(r) /\ <<s.lbn, s.valid>>[1] = s.lbn
        /\ \A e \in Contents(r) : s.lbn <= e[1]
    BY <2>1, TreeKeysAssumption DEF Least
  <2>. HIDE DEF s
  <2>4. Good(y) /\ Contents(y) = Without(Contents(r), s.lbn) /\ y.height \in {r.height - 1, r.height}
    BY <2>3 DEF Deleted, r
  <2>. HIDE DEF x, y
  <2>5. k < s.lbn
    BY <1>2, <2>3
  <2>6. Before(Contents(l), s.lbn)
    BY <1>2, <2>3, <2>5 DEF Before
  <2>7. After(Contents(y), s.lbn)
    BY <1>2, <2>3, <2>4 DEF After, Without
  <2>8. Fits(s.lbn, s.valid, l, y)
    BY <1>1, <2>3, <2>4, <2>6, <2>7 DEF Fits
  <2>9. y.height \in Nat
    BY <2>8, Joined
  <2>10. l.height - y.height \in -2 .. 2
    BY <1>1, <2>4, <2>9
  <2>11. /\ Good(x)
         /\ Contents(x) = {<<s.lbn, s.valid>>} \cup Contents(l) \cup Contents(y)
         /\ x.height \in {max_height(l.height, y.height), max_height(l.height, y.height) + 1}
         /\ l.height - y.height \in -1 .. 1 => x = Node(s.lbn, s.valid, l, y)
    BY <2>2, <2>8, <2>10, AfterDeletion
  <2>12. l.height - y.height \in -1 .. 1 => x.height = max_height(l.height, y.height) + 1
    BY <2>8, <2>11, Joined
  <2>13. x.height \in {t.height - 1, t.height}
    <3>. DEFINE a == l.height
                b == r.height
                p == l.height
                q == y.height
                h == x.height
    <3>1. /\ a \in Nat /\ b \in Nat /\ a - b \in -1 .. 1 /\ p \in Nat /\ q \in Nat
          /\ p \in {a - 1, a} /\ q \in {b - 1, b} /\ (p = a \/ q = b)
          /\ h \in {max_height(p, q), max_height(p, q) + 1}
          /\ p - q \in -1 .. 1 => h = max_height(p, q) + 1
          /\ t.height = max_height(a, b) + 1 /\ t.height \in Nat
      BY <1>1, <2>4, <2>9, <2>11, <2>12
    <3>. HIDE DEF a, b, p, q, h
    <3>2. h \in {max_height(a, b), max_height(a, b) + 1}
      BY <3>1, HeightAfterDeletion
    <3>3. max_height(a, b) \in Nat
      BY <3>1, Heights
    <3>. QED BY <3>1, <3>2, <3>3 DEF h
  <2>14. \A e \in Contents(r) : e[1] = s.lbn => e = <<s.lbn, s.valid>>
    BY <1>1, <2>3, HeldOnce
  <2>15. Contents(r) = {<<s.lbn, s.valid>>} \cup Contents(y)
    BY <2>3, <2>4, <2>14 DEF Without
  <2>16. Contents(x) = Without(Contents(t), k)
    BY <1>4, <2>11, <2>15
  <2>. QED BY <2>11, <2>13, <2>16 DEF Deleted, x, k
<1>. QED BY <1>5, <1>6, <1>7, <1>8

LEMMA Deletion ==
    ASSUME NEW t, Good(t), NEW k \in TreeKeys
    PROVE  Deleted(t, k, physical_delete_tree_node(t, k))
<1>1. PICK D : t \in D /\ Closed(D)
  BY DEF Good, IsTree
<1>. DEFINE B == {u \in D : Good(u) => \A j \in TreeKeys : Deleted(u, j, physical_delete_tree_node(u, j))}
<1>2. ASSUME NEW u \in D, u # Nil => u.left \in B /\ u.right \in B PROVE u \in B
  <2>. SUFFICES ASSUME Good(u), NEW j \in TreeKeys PROVE Deleted(u, j, physical_delete_tree_node(u, j))
    BY DEF B
  <2>1. CASE u = Nil
    <3>1. physical_delete_tree_node(Nil, j) = Nil
      BY CallsOnNil
    <3>2. Contents(Nil) = Without(Contents(Nil), j)
      BY HeldByNil DEF Without
    <3>. QED BY <2>1, <3>1, <3>2, GoodNil DEF Deleted
  <2>2. CASE u # Nil
    <3>1. /\ IsTree(u) /\ u.lbn \in TreeKeys /\ u.lbn \in Nat /\ j \in Nat
          /\ Good(u.left) /\ Good(u.right)
      BY <2>2, GoodParts, TreeKeysAssumption
    <3>2. /\ Deleted(u.left, j, physical_delete_tree_node(u.left, j))
          /\ \A i \in TreeKeys : Deleted(u.right, i, physical_delete_tree_node(u.right, i))
      BY <1>2, <2>2, <3>1
    <3>3. /\ physical_delete_tree_node(u, j) =
                IF j < u.lbn
                THEN AfterDelete(Node(u.lbn, u.valid, physical_delete_tree_node(u.left, j), u.right))
                ELSE IF j > u.lbn
                THEN AfterDelete(Node(u.lbn, u.valid, u.left, physical_delete_tree_node(u.right, j)))
                ELSE WithoutRoot(u, Remains(u.right))
          /\ \A i : physical_delete_tree_node(u.right, i) = Remains(u.right)[i]
      BY <2>2, <3>1, DeleteCall
    <3>4. CASE j < u.lbn
      BY <2>2, <3>2, <3>3, <3>4, DeletedLeft
    <3>5. CASE j > u.lbn
      <4>1. ~ (j < u.lbn)
        BY <3>1, <3>5
      <4>. QED BY <2>2, <3>2, <3>3, <3>5, <4>1, DeletedRight
    <3>6. CASE j = u.lbn
      <4>1. ~ (j < u.lbn) /\ ~ (j > u.lbn)
        BY <3>1, <3>6
      <4>2. \A i \in TreeKeys : Deleted(u.right, i, Remains(u.right)[i])
        BY <3>2, <3>3
      <4>. QED BY <2>2, <3>3, <3>6, <4>1, <4>2, DeletedRoot
    <3>. QED BY <3>1, <3>4, <3>5, <3>6
  <2>. QED BY <2>1, <2>2
<1>3. D \subseteq B
  <2>. HIDE DEF B
  <2>. QED BY <1>1, <1>2, TreeInduction
<1>. QED BY <1>1, <1>3

(***************************************************************************)
(* The sweep                                                               *)
(***************************************************************************)
Invalids(C) == {e \in C : e[2] = FALSE}

LEMMA InvalidsFinite ==
    ASSUME NEW t, IsTree(t)
    PROVE  /\ IsFiniteSet(Contents(t)) /\ Cardinality(Contents(t)) \in Nat
           /\ IsFiniteSet(Invalids(Contents(t))) /\ Cardinality(Invalids(Contents(t))) \in Nat
<1>1. IsFiniteSet(Contents(t))
  BY ContentsFinite
<1>2. Invalids(Contents(t)) \in SUBSET Contents(t)
  BY DEF Invalids
<1>3. IsFiniteSet(Invalids(Contents(t)))
  BY <1>1, <1>2, FS_Subset
<1>. QED BY <1>1, <1>3, FS_CardinalityType

\* One round deletes an invalid node, if there is one.
LEMMA SweepOne ==
    ASSUME NEW t, Good(t), Invalids(Contents(t)) # {}
    PROVE  /\ Good(SweepRound(t))
           /\ \E e \in Invalids(Contents(t)) : Contents(SweepRound(t)) = Contents(t) \ {e}
<1>. DEFINE f == find_invalid_tree_node(t)
            k == f.lbn
            e == <<k, FALSE>>
<1>1. FoundInvalid(t, f)
  BY FindingInvalid DEF Good
<1>2. k \in TreeKeys /\ e \in Contents(t)
  <2>1. ~ \A d \in Contents(t) : d[2] = TRUE
    BY DEF Invalids
  <2>. QED BY <1>1, <2>1 DEF FoundInvalid
<1>3. Deleted(t, k, SweepRound(t))
  BY <1>2, Deletion DEF SweepRound
<1>. HIDE DEF f, k
<1>4. e[1] = k /\ e[2] = FALSE
  OBVIOUS
<1>. HIDE DEF e
<1>5. \A d \in Contents(t) : d[1] = k => d = e
  BY <1>2, <1>4, HeldOnce
<1>6. Contents(SweepRound(t)) = Contents(t) \ {e}
  BY <1>2, <1>3, <1>4, <1>5 DEF Deleted, Without
<1>7. e \in Invalids(Contents(t))
  BY <1>2, <1>4 DEF Invalids
<1>. QED BY <1>3, <1>6, <1>7 DEF Deleted

LEMMA SweepSteps ==
    ASSUME NEW t, NEW n \in Nat
    PROVE  \E swept : /\ Swept(t, n) = swept[n]
                      /\ swept[0] = t
                      /\ \A j \in 1 .. n : swept[j] = SweepRound(swept[j - 1])
<1>. DEFINE Defines(f) == f = [j \in 0 .. n |-> IF j = 0 THEN t ELSE SweepRound(f[j - 1])]
            swept == CHOOSE f : Defines(f)
<1>1. Swept(t, n) = swept[n]
  BY Zenon DEF Swept
<1>2. \E f : Defines(f)
  <2>1. PICK f : Counted("sweep", t, n, f)
    BY CountedFunction
  <2>. QED BY <2>1 DEF Counted, NextOf
<1>3. Defines(swept)
  BY <1>2, Zenon
<1>. HIDE DEF swept
<1>4. 0 \in 0 .. n /\ \A j \in 1 .. n : j \in 0 .. n /\ j # 0
  OBVIOUS
<1>5. swept[0] = t /\ \A j \in 1 .. n : swept[j] = SweepRound(swept[j - 1])
  BY <1>3, <1>4
<1>. QED BY <1>1, <1>5

\* As many rounds as there are invalid nodes leave the others.
LEMMA Sweeping ==
    ASSUME NEW t, Good(t), NEW n, n = Cardinality(Invalids(Contents(t)))
    PROVE  /\ Good(Swept(t, n))
           /\ Contents(Swept(t, n)) = Contents(t) \ Invalids(Contents(t))
           /\ Cardinality(Contents(Swept(t, n))) = Cardinality(Contents(t)) - n
<1>. DEFINE C == Contents(t)
            c == Cardinality(C)
<1>1. n \in Nat /\ c \in Nat
  BY InvalidsFinite DEF Good
<1>2. PICK swept : /\ Swept(t, n) = swept[n]
                   /\ swept[0] = t
                   /\ \A j \in 1 .. n : swept[j] = SweepRound(swept[j - 1])
  BY <1>1, SweepSteps
<1>. DEFINE Round(j) ==
                /\ Good(swept[j])
                /\ Contents(swept[j]) \ Invalids(Contents(swept[j])) = C \ Invalids(C)
                /\ Cardinality(Invalids(Contents(swept[j]))) = n - j
                /\ Cardinality(Contents(swept[j])) = c - j
            S == {j \in Nat : j <= n => Round(j)}
<1>3. Round(0)
  BY <1>1, <1>2
<1>4. ASSUME NEW j \in Nat, j + 1 <= n, Round(j) PROVE Round(j + 1)
  <2>. DEFINE u == swept[j]
              D == Contents(u)
  <2>1. swept[j + 1] = SweepRound(u)
    <3>1. j + 1 \in 1 .. n /\ (j + 1) - 1 = j
      BY <1>1, <1>4
    <3>. QED BY <1>2, <3>1
  <2>2. IsFiniteSet(D) /\ IsFiniteSet(Invalids(D))
    BY <1>4, InvalidsFinite DEF Good
  <2>3. Invalids(D) # {}
    <3>1. Cardinality(Invalids(D)) # 0
      BY <1>1, <1>4
    <3>. QED BY <3>1, FS_EmptySet
  <2>4. /\ Good(SweepRound(u))
        /\ \E e \in Invalids(D) : Contents(SweepRound(u)) = D \ {e}
    BY <1>4, <2>3, SweepOne
  <2>5. PICK e \in Invalids(D) : Contents(swept[j + 1]) = D \ {e}
    BY <2>1, <2>4
  <2>. HIDE DEF D, u, C
  <2>6. e \in D /\ Invalids(D \ {e}) = Invalids(D) \ {e}
    BY <2>5 DEF Invalids
  <2>7. (D \ {e}) \ Invalids(D \ {e}) = D \ Invalids(D)
    BY <2>5, <2>6
  <2>8. /\ Cardinality(D \ {e}) = Cardinality(D) - 1
        /\ Cardinality(Invalids(D) \ {e}) = Cardinality(Invalids(D)) - 1
    BY <2>2, <2>5, <2>6, FS_RemoveElement
  <2>9. Cardinality(D) = c - j /\ Cardinality(Invalids(D)) = n - j /\ D \ Invalids(D) = C \ Invalids(C)
    BY <1>4 DEF D, u
  <2>10. (c - j) - 1 = c - (j + 1) /\ (n - j) - 1 = n - (j + 1)
    BY <1>1
  <2>. HIDE DEF c
  <2>. QED BY <2>1, <2>4, <2>5, <2>6, <2>7, <2>8, <2>9, <2>10
<1>. HIDE DEF Round
<1>5. Round(n)
  <2>1. 0 \in S /\ \A j \in Nat : j \in S => j + 1 \in S
    BY <1>1, <1>3, <1>4
  <2>2. Nat \subseteq S
    <3>. HIDE DEF S
    <3>. QED BY <2>1, Naturals
  <2>. QED BY <1>1, <2>2
<1>6. Invalids(Contents(swept[n])) = {}
  <2>1. Good(swept[n]) /\ Cardinality(Invalids(Contents(swept[n]))) = 0
    BY <1>1, <1>5 DEF Round
  <2>2. IsFiniteSet(Invalids(Contents(swept[n])))
    BY <2>1, InvalidsFinite DEF Good
  <2>. QED BY <2>1, <2>2, FS_EmptySet
<1>. QED BY <1>2, <1>5, <1>6 DEF Round

(***************************************************************************)
(* The invariant                                                           *)
(***************************************************************************)
\* The tree is balanced and in order, and the two counters are exact.
TreeInv ==
    /\ Good(tree)
    /\ count_total = Cardinality(Contents(tree))
    /\ count_invalid = Cardinality(Invalids(Contents(tree)))

LEMMA TreeInitially == TreeInit => TreeInv
<1>1. Invalids({}) = {}
  BY DEF Invalids
<1>. QED BY <1>1, GoodNil, HeldByNil, FS_EmptySet DEF TreeInit, TreeInv

LEMMA InsertStep ==
    ASSUME TreeInv, NEW k \in TreeKeys, TreeInsert(k)
    PROVE  /\ TreeInv'
           /\ \A e \in Contents(tree) : e[1] # k
           /\ Contents(tree') = Contents(tree) \cup {<<k, TRUE>>}
<1>. DEFINE C == Contents(tree)
            e == <<k, TRUE>>
<1>1. \A d \in C : d[1] # k
  BY Searching DEF TreeInv, TreeInsert, Found
<1>2. Good(tree') /\ Contents(tree') = C \cup {e}
  BY <1>1, Insertion DEF TreeInv, TreeInsert, Inserted
<1>3. IsFiniteSet(C)
  BY InvalidsFinite DEF TreeInv, Good
<1>. HIDE DEF C
<1>4. e[1] = k /\ e[2] # FALSE
  OBVIOUS
<1>5. Invalids(C \cup {e}) = Invalids(C)
  BY <1>4 DEF Invalids
<1>6. e \notin C
  BY <1>1, <1>4
<1>7. Cardinality(C \cup {e}) = Cardinality(C) + 1
  BY <1>3, <1>6, FS_AddElement
<1>. QED BY <1>1, <1>2, <1>5, <1>7 DEF TreeInv, TreeInsert, C

\* What logical_delete_tree_node does to what the tree holds.
LEMMA MarkedContents ==
    ASSUME NEW t, Good(t), NEW k \in TreeKeys
    PROVE  LET C == Contents(t) IN
           /\ <<k, TRUE>> \in C => /\ Marked(C, k) = (C \ {<<k, TRUE>>}) \cup {<<k, FALSE>>}
                                   /\ <<k, FALSE>> \notin C
           /\ <<k, TRUE>> \notin C => Marked(C, k) = C
<1>. DEFINE C == Contents(t)
            v == <<k, TRUE>>
            i == <<k, FALSE>>
<1>1. v[1] = k /\ i[1] = k /\ v # i
  OBVIOUS
<1>2. \A d \in C, e \in C : d[1] = e[1] => d = e
  BY HeldOnce
<1>3. \A d \in C : d[1] = k => d = v \/ d = i
  BY KeysOf DEF Good
<1>4. Marked(C, k) = {IF e[1] = k THEN i ELSE e : e \in C}
  BY DEF Marked
<1>. HIDE DEF C, v, i
<1>5. CASE v \in C
  <2>1. i \notin C /\ \A d \in C : d[1] = k => d = v
    BY <1>1, <1>2, <1>5
  <2>2. \A d \in C : (IF d[1] = k THEN i ELSE d) = IF d = v THEN i ELSE d
    BY <1>1, <2>1
  <2>3. Marked(C, k) \subseteq (C \ {v}) \cup {i}
    BY <1>4, <2>2
  <2>4. (C \ {v}) \cup {i} \subseteq Marked(C, k)
    BY <1>4, <1>5, <2>2
  <2>. QED BY <1>5, <2>1, <2>3, <2>4 DEF C, v, i
<1>6. CASE v \notin C
  <2>1. \A d \in C : (IF d[1] = k THEN i ELSE d) = d
    BY <1>3, <1>6
  <2>2. Marked(C, k) = C
    BY <1>4, <2>1
  <2>. QED BY <1>6, <2>2 DEF C, v, i
<1>. QED BY <1>5, <1>6

LEMMA MarkStep ==
    ASSUME TreeInv, NEW k \in TreeKeys, logical_delete_tree_node(k)
    PROVE  /\ TreeInv'
           /\ <<k, TRUE>> \in Contents(tree) =>
                 /\ Contents(tree') = (Contents(tree) \ {<<k, TRUE>>}) \cup {<<k, FALSE>>}
                 /\ count_invalid' = count_invalid + 1
           /\ <<k, TRUE>> \notin Contents(tree) =>
                 /\ Contents(tree') = Contents(tree)
                 /\ count_invalid' = count_invalid
           /\ count_total' = count_total
<1>. DEFINE C == Contents(tree)
            f == search_tree_node(tree, k)
            v == <<k, TRUE>>
            i == <<k, FALSE>>
<1>1. Found(tree, k, f)
  BY Searching DEF TreeInv
<1>2. /\ tree' = Invalidated(tree, k) /\ count_total' = count_total
      /\ count_invalid' = count_invalid + (IF ~ IsNil(f) /\ f.valid THEN 1 ELSE 0)
  BY DEF logical_delete_tree_node
<1>3. Good(tree') /\ Contents(tree') = Marked(C, k)
  BY <1>2, Marking DEF TreeInv, MarkedTree
<1>4. /\ v \in C => Marked(C, k) = (C \ {v}) \cup {i} /\ i \notin C
      /\ v \notin C => Marked(C, k) = C
  BY MarkedContents DEF TreeInv
<1>5. v[1] = k /\ i[1] = k /\ v[2] # FALSE /\ i[2] = FALSE /\ v # i
  OBVIOUS
<1>6. IsFiniteSet(C) /\ IsFiniteSet(Invalids(C)) /\ Cardinality(C) \in Nat /\ Cardinality(Invalids(C)) \in Nat
  BY InvalidsFinite DEF TreeInv, Good
<1>7. count_total = Cardinality(C) /\ count_invalid = Cardinality(Invalids(C))
  BY DEF TreeInv
<1>8. ~ IsNil(f) /\ f.valid <=> v \in C
  <2>1. CASE IsNil(f)
    BY <1>1, <1>5, <2>1 DEF Found
  <2>2. CASE ~ IsNil(f)
    <3>1. f.valid \in BOOLEAN /\ <<k, f.valid>> \in C
      BY <1>1, <2>2 DEF Found
    <3>2. CASE f.valid = TRUE
      BY <2>2, <3>1, <3>2
    <3>3. CASE f.valid = FALSE
      <4>1. i \in C
        BY <3>1, <3>3
      <4>. QED BY <1>4, <3>3, <4>1
    <3>. QED BY <3>1, <3>2, <3>3
  <2>. QED BY <2>1, <2>2
<1>. HIDE DEF C, f, v, i
<1>9. CASE v \in C
  <2>1. Contents(tree') = (C \ {v}) \cup {i} /\ i \notin C \ {v}
    BY <1>3, <1>4, <1>9
  <2>2. count_invalid' = count_invalid + 1
    BY <1>2, <1>8, <1>9
  <2>3. Cardinality((C \ {v}) \cup {i}) = Cardinality(C)
    <3>1. IsFiniteSet(C \ {v}) /\ Cardinality(C \ {v}) = Cardinality(C) - 1
      BY <1>6, <1>9, FS_RemoveElement
    <3>2. Cardinality((C \ {v}) \cup {i}) = Cardinality(C \ {v}) + 1
      BY <2>1, <3>1, FS_AddElement
    <3>. QED BY <1>6, <3>1, <3>2
  <2>4. Invalids((C \ {v}) \cup {i}) = Invalids(C) \cup {i} /\ i \notin Invalids(C)
    BY <1>4, <1>5, <1>9 DEF Invalids
  <2>5. Cardinality(Invalids(C) \cup {i}) = Cardinality(Invalids(C)) + 1
    BY <1>6, <2>4, FS_AddElement
  <2>6. TreeInv'
    BY <1>2, <1>3, <1>7, <2>1, <2>2, <2>3, <2>4, <2>5 DEF TreeInv
  <2>. QED BY <1>2, <1>9, <2>1, <2>2, <2>6 DEF C, v, i
<1>10. CASE v \notin C
  <2>1. Contents(tree') = C /\ count_invalid' = count_invalid
    BY <1>2, <1>3, <1>4, <1>6, <1>7, <1>8, <1>10
  <2>2. TreeInv'
    BY <1>2, <1>3, <1>7, <2>1 DEF TreeInv
  <2>. QED BY <1>2, <1>10, <2>1, <2>2 DEF C, v
<1>. QED BY <1>9, <1>10

LEMMA SweepStep ==
    ASSUME TreeInv, rebalance_tree_node
    PROVE  /\ TreeInv'
           /\ Contents(tree') = Contents(tree) \ Invalids(Contents(tree))
<1>. DEFINE C == Contents(tree)
<1>1. /\ Good(tree) /\ count_total = Cardinality(C) /\ count_invalid = Cardinality(Invalids(C))
      /\ tree' = Swept(tree, count_invalid)
      /\ count_total' = count_total - count_invalid /\ count_invalid' = 0
  BY DEF TreeInv, rebalance_tree_node
<1>2. /\ Good(tree') /\ Contents(tree') = C \ Invalids(C)
      /\ Cardinality(Contents(tree')) = Cardinality(C) - count_invalid
  BY <1>1, Sweeping
<1>. HIDE DEF C
<1>3. Invalids(C \ Invalids(C)) = {}
  BY DEF Invalids
<1>. QED BY <1>1, <1>2, <1>3, FS_EmptySet DEF TreeInv, C

\* Whatever the order of insertions, logical deletions and sweeps
\* (nvm0avltree.cc 43-242) the tree is balanced and in order, and the two
\* counters of tree_root are exact.
THEOREM TreeInvariant == TreeSpec => []TreeInv
<1>1. TreeInv /\ [TreeNext]_treeVars => TreeInv'
  <2>. SUFFICES ASSUME TreeInv, [TreeNext]_treeVars PROVE TreeInv'
    OBVIOUS
  <2>1. ASSUME NEW k \in TreeKeys, TreeInsert(k) PROVE TreeInv'
    BY <2>1, InsertStep
  <2>2. ASSUME NEW k \in TreeKeys, logical_delete_tree_node(k) PROVE TreeInv'
    BY <2>2, MarkStep
  <2>3. CASE rebalance_tree_node
    BY <2>3, SweepStep
  <2>4. CASE UNCHANGED treeVars
    BY <2>4 DEF treeVars, TreeInv
  <2>. QED BY <2>1, <2>2, <2>3, <2>4 DEF TreeNext
<1>. QED BY <1>1, TreeInitially, PTL DEF TreeSpec

\* The tree is ordered, every height is exact and no two sibling subtrees
\* differ by more than one level, whatever the keys and however many.
THEOREM AlwaysBalanced == TreeSpec => []StaysBalanced
<1>1. TreeInv => StaysBalanced
  <2>. SUFFICES ASSUME TreeInv, NEW t \in Nodes(tree)
                PROVE  /\ get_balance(t) \in -1 .. 1
                       /\ t.height = max_height(t.left.height, t.right.height) + 1
                       /\ \A k \in LbnsIn(t.left) : k < t.lbn
                       /\ \A k \in LbnsIn(t.right) : k > t.lbn
    BY Zenon DEF StaysBalanced
  <2>1. /\ IsTree(tree) /\ t.left.height - t.right.height \in -1 .. 1
        /\ Before(Contents(t.left), t.lbn) /\ After(Contents(t.right), t.lbn)
    BY DEF TreeInv, Good
  <2>2. IsTree(t) /\ ~ IsNil(t) /\ t # Nil
    BY <2>1, SubtreesClosed, TreeCases DEF Nodes
  <2>3. get_balance(t) = t.left.height - t.right.height
    BY <2>2 DEF get_balance
  <2>4. t.height = max_height(t.left.height, t.right.height) + 1 /\ t.lbn \in TreeKeys
        /\ IsTree(t.right)
    BY <2>2, TreeParts
  <2>5. \A k \in LbnsIn(t.left) : \E e \in Contents(t.left) : e[1] = k
    BY LbnsHeld
  <2>6. \A k \in LbnsIn(t.right) : \E e \in Contents(t.right) : e[1] = k
    BY LbnsHeld
  <2>7. \A k \in LbnsIn(t.left) : k < t.lbn
    BY <2>1, <2>5 DEF Before
  <2>8. \A k \in LbnsIn(t.right) : k > t.lbn
    <3>1. \A e \in Contents(t.right) : e[1] \in Nat /\ t.lbn < e[1]
      BY <2>1, <2>4, KeysOf DEF After
    <3>2. t.lbn \in Nat
      BY <2>4, TreeKeysAssumption
    <3>. QED BY <2>6, <3>1, <3>2
  <2>. QED BY <2>1, <2>3, <2>4, <2>7, <2>8
<1>. QED BY <1>1, TreeInvariant, PTL

(***************************************************************************)
(* The abstract index                                                      *)
(***************************************************************************)
\* The code's search tells what the tree holds.
LEMMA StatusIs ==
    ASSUME NEW t, Good(t), NEW k \in TreeKeys
    PROVE  /\ StatusIn(t)[k] \in {"absent", "valid", "invalid"}
           /\ StatusIn(t)[k] = "valid" <=> <<k, TRUE>> \in Contents(t)
           /\ StatusIn(t)[k] = "invalid" <=> <<k, FALSE>> \in Contents(t)
<1>. DEFINE C == Contents(t)
            f == search_tree_node(t, k)
            v == <<k, TRUE>>
            i == <<k, FALSE>>
<1>1. Found(t, k, f)
  BY Searching
<1>2. StatusIn(t)[k] = IF IsNil(f) THEN "absent" ELSE IF f.valid THEN "valid" ELSE "invalid"
  BY DEF StatusIn
<1>3. v[1] = k /\ i[1] = k /\ v # i
  OBVIOUS
<1>4. ~ (v \in C /\ i \in C)
  BY <1>3, HeldOnce
<1>5. CASE IsNil(f)
  <2>1. v \notin C /\ i \notin C
    BY <1>1, <1>3, <1>5 DEF Found
  <2>. QED BY <1>2, <1>5, <2>1
<1>6. CASE ~ IsNil(f)
  <2>1. f.valid \in BOOLEAN /\ <<k, f.valid>> \in C
    BY <1>1, <1>6 DEF Found
  <2>2. CASE f.valid = TRUE
    <3>1. v \in C
      BY <2>1, <2>2
    <3>. QED BY <1>2, <1>4, <1>6, <2>2, <3>1
  <2>3. CASE f.valid = FALSE
    <3>1. i \in C
      BY <2>1, <2>3
    <3>. QED BY <1>2, <1>4, <1>6, <2>3, <3>1
  <2>. QED BY <2>1, <2>2, <2>3
<1>. QED BY <1>5, <1>6

LEMMA SameStatus ==
    ASSUME NEW t, Good(t), NEW u, Good(u), NEW k \in TreeKeys,
           <<k, TRUE>> \in Contents(u) <=> <<k, TRUE>> \in Contents(t),
           <<k, FALSE>> \in Contents(u) <=> <<k, FALSE>> \in Contents(t)
    PROVE  StatusIn(u)[k] = StatusIn(t)[k]
<1>. DEFINE x == StatusIn(t)[k]
            y == StatusIn(u)[k]
<1>1. /\ x \in {"absent", "valid", "invalid"}
      /\ x = "valid" <=> <<k, TRUE>> \in Contents(t)
      /\ x = "invalid" <=> <<k, FALSE>> \in Contents(t)
  BY StatusIs
<1>2. /\ y \in {"absent", "valid", "invalid"}
      /\ y = "valid" <=> <<k, TRUE>> \in Contents(u)
      /\ y = "invalid" <=> <<k, FALSE>> \in Contents(u)
  BY StatusIs
<1>. HIDE DEF x, y
<1>3. x = y
  BY <1>1, <1>2
<1>. QED BY <1>3 DEF x, y

LEMMA StatusType ==
    ASSUME NEW t, Good(t)
    PROVE  StatusIn(t) \in [TreeKeys -> {"absent", "valid", "invalid"}]
<1>1. \A k \in TreeKeys : StatusIn(t)[k] \in {"absent", "valid", "invalid"}
  BY StatusIs
<1>2. StatusIn(t) = [k \in TreeKeys |-> StatusIn(t)[k]]
  BY DEF StatusIn
<1>. QED BY <1>1, <1>2

\* There are as many invalid keys as invalid nodes.
LEMMA InvalidKeys ==
    ASSUME NEW t, Good(t)
    PROVE  Cardinality({k \in TreeKeys : StatusIn(t)[k] = "invalid"}) = Cardinality(Invalids(Contents(t)))
<1>. DEFINE I == Invalids(Contents(t))
            K == {k \in TreeKeys : StatusIn(t)[k] = "invalid"}
            f == [e \in I |-> e[1]]
<1>1. \A k \in TreeKeys : k \in K <=> <<k, FALSE>> \in I
  <2>1. \A k : <<k, FALSE>>[2] = FALSE
    OBVIOUS
  <2>. QED BY <2>1, StatusIs DEF Invalids
<1>2. \A e \in I : e[1] \in TreeKeys /\ e = <<e[1], FALSE>>
  BY KeysOf DEF Invalids, Good
<1>3. IsFiniteSet(I)
  BY InvalidsFinite DEF Good
<1>4. \A k : <<k, FALSE>>[1] = k
  OBVIOUS
<1>5. K \subseteq TreeKeys
  OBVIOUS
<1>. HIDE DEF I, K
<1>6. f \in Bijection(I, K)
  <2>1. \A e \in I : f[e] \in K
    BY <1>1, <1>2
  <2>2. \A d \in I, e \in I : f[d] = f[e] => d = e
    BY <1>2
  <2>3. \A k \in K : \E e \in I : f[e] = k
    BY <1>1, <1>4, <1>5
  <2>4. f \in [I -> K]
    BY <2>1
  <2>. HIDE DEF f
  <2>5. f \in Injection(I, K)
    BY <2>2, <2>4 DEF Injection, IsInjective
  <2>6. f \in Surjection(I, K)
    BY <2>3, <2>4 DEF Surjection
  <2>. QED BY <2>5, <2>6 DEF Bijection
<1>7. ExistsBijection(I, K)
  BY <1>6 DEF ExistsBijection
<1>. QED BY <1>3, <1>7, FS_Bijection DEF I, K

LEMMA IndexCardinality == \A S : Index!Cardinality(S) = Cardinality(S)
BY Zenon DEF Cardinality, Index!Cardinality

LEMMA IndexInitially == TreeInit => Index!Init
<1>. SUFFICES ASSUME TreeInit PROVE Index!Init
  OBVIOUS
<1>1. StatusIn(Nil) = [k \in TreeKeys |-> "absent"]
  <2>1. \A k \in TreeKeys : IsNil(search_tree_node(Nil, k))
    BY CallsOnNil, NilTree
  <2>. QED BY <2>1 DEF StatusIn
<1>. QED BY <1>1 DEF TreeInit, Index!Init

LEMMA InsertImplements ==
    ASSUME TreeInv, NEW k \in TreeKeys, TreeInsert(k)
    PROVE  Index!Insert(k)
<1>. DEFINE C == Contents(tree)
            s == StatusIn(tree)
            s1 == StatusIn(tree')
<1>1. /\ \A e \in C : e[1] # k
      /\ Contents(tree') = C \cup {<<k, TRUE>>}
      /\ Good(tree) /\ Good(tree')
  BY InsertStep DEF TreeInv
<1>2. \A v : <<k, v>>[1] = k /\ <<k, v>>[2] = v
  OBVIOUS
<1>3. <<k, TRUE>> \notin C /\ <<k, FALSE>> \notin C
  BY <1>1, <1>2
<1>4. s[k] = "absent"
  BY <1>1, <1>3, StatusIs
<1>5. s1 = [s EXCEPT ![k] = "valid"]
  <2>1. s \in [TreeKeys -> {"absent", "valid", "invalid"}] /\ s1 \in [TreeKeys -> {"absent", "valid", "invalid"}]
    BY <1>1, StatusType
  <2>2. s1[k] = "valid"
    BY <1>1, StatusIs
  <2>3. ASSUME NEW j \in TreeKeys, j # k PROVE s1[j] = s[j]
    <3>1. <<j, TRUE>> # <<k, TRUE>> /\ <<j, FALSE>> # <<k, TRUE>>
      BY <2>3
    <3>2. /\ <<j, TRUE>> \in Contents(tree') <=> <<j, TRUE>> \in C
          /\ <<j, FALSE>> \in Contents(tree') <=> <<j, FALSE>> \in C
      BY <1>1, <3>1
    <3>. QED BY <1>1, <3>2, SameStatus
  <2>. HIDE DEF s, s1
  <2>. QED BY <2>1, <2>2, <2>3
<1>6. count_total' = count_total + 1 /\ count_invalid' = count_invalid
  BY DEF TreeInsert
<1>. QED BY <1>4, <1>5, <1>6 DEF Index!Insert

LEMMA MarkImplements ==
    ASSUME TreeInv, NEW k \in TreeKeys, logical_delete_tree_node(k)
    PROVE  Index!Invalidate(k) \/ UNCHANGED <<StatusIn(tree), count_total, count_invalid>>
<1>. DEFINE C == Contents(tree)
            s == StatusIn(tree)
            s1 == StatusIn(tree')
<1>1. /\ <<k, TRUE>> \in C => /\ Contents(tree') = (C \ {<<k, TRUE>>}) \cup {<<k, FALSE>>}
                              /\ count_invalid' = count_invalid + 1
      /\ <<k, TRUE>> \notin C => Contents(tree') = C /\ count_invalid' = count_invalid
      /\ count_total' = count_total
      /\ Good(tree) /\ Good(tree')
  BY MarkStep DEF TreeInv
<1>2. s \in [TreeKeys -> {"absent", "valid", "invalid"}] /\ s1 \in [TreeKeys -> {"absent", "valid", "invalid"}]
  BY <1>1, StatusType
<1>3. CASE <<k, TRUE>> \in C
  <2>1. s[k] = "valid"
    BY <1>1, <1>3, StatusIs
  <2>2. s1[k] = "invalid"
    BY <1>1, <1>3, StatusIs
  <2>3. ASSUME NEW j \in TreeKeys, j # k PROVE s1[j] = s[j]
    <3>1. \A v, w : <<j, v>> # <<k, w>>
      BY <2>3
    <3>2. /\ <<j, TRUE>> \in Contents(tree') <=> <<j, TRUE>> \in C
          /\ <<j, FALSE>> \in Contents(tree') <=> <<j, FALSE>> \in C
      BY <1>1, <1>3, <3>1
    <3>. QED BY <1>1, <3>2, SameStatus
  <2>4. s1 = [s EXCEPT ![k] = "invalid"]
    <3>. HIDE DEF s, s1
    <3>. QED BY <1>2, <2>2, <2>3
  <2>. QED BY <1>1, <1>3, <2>1, <2>4 DEF Index!Invalidate
<1>4. CASE <<k, TRUE>> \notin C
  <2>1. \A j \in TreeKeys : s1[j] = s[j]
    BY <1>1, <1>4, SameStatus
  <2>2. s1 = s
    <3>. HIDE DEF s, s1
    <3>. QED BY <1>2, <2>1
  <2>. QED BY <1>1, <1>4, <2>2
<1>. QED BY <1>3, <1>4

LEMMA SweepImplements ==
    ASSUME TreeInv, rebalance_tree_node
    PROVE  Index!Sweep \/ UNCHANGED <<StatusIn(tree), count_total, count_invalid>>
<1>. DEFINE C == Contents(tree)
            s == StatusIn(tree)
            s1 == StatusIn(tree')
<1>1. Contents(tree') = C \ Invalids(C) /\ Good(tree) /\ Good(tree')
  BY SweepStep DEF TreeInv
<1>2. /\ count_invalid = Cardinality(Invalids(C)) /\ count_total = Cardinality(C)
      /\ IsFiniteSet(Invalids(C)) /\ count_invalid \in Nat /\ count_total \in Nat
  BY <1>1, InvalidsFinite DEF TreeInv, Good
<1>3. count_total' = count_total - count_invalid /\ count_invalid' = 0
  BY DEF rebalance_tree_node
<1>4. s \in [TreeKeys -> {"absent", "valid", "invalid"}] /\ s1 \in [TreeKeys -> {"absent", "valid", "invalid"}]
  BY <1>1, StatusType
<1>5. \A j \in TreeKeys : s1[j] = IF s[j] = "invalid" THEN "absent" ELSE s[j]
  <2>. SUFFICES ASSUME NEW j \in TreeKeys PROVE s1[j] = IF s[j] = "invalid" THEN "absent" ELSE s[j]
    OBVIOUS
  <2>1. <<j, TRUE>>[2] # FALSE /\ <<j, FALSE>>[2] = FALSE
    OBVIOUS
  <2>2. /\ <<j, TRUE>> \in Contents(tree') <=> <<j, TRUE>> \in C
        /\ <<j, FALSE>> \notin Contents(tree')
    BY <1>1, <2>1 DEF Invalids
  <2>3. /\ s[j] \in {"absent", "valid", "invalid"} /\ s1[j] \in {"absent", "valid", "invalid"}
        /\ s[j] = "valid" <=> <<j, TRUE>> \in C
        /\ s[j] = "invalid" <=> <<j, FALSE>> \in C
        /\ s1[j] = "valid" <=> <<j, TRUE>> \in Contents(tree')
        /\ s1[j] = "invalid" <=> <<j, FALSE>> \in Contents(tree')
    BY <1>1, StatusIs
  <2>. HIDE DEF s, s1
  <2>. QED BY <2>2, <2>3
<1>6. s1 = [k \in TreeKeys |-> IF s[k] = "invalid" THEN "absent" ELSE s[k]]
  <2>. HIDE DEF s, s1
  <2>. QED BY <1>4, <1>5
<1>7. CASE count_invalid > 0
  <2>1. count_invalid = Cardinality({k \in TreeKeys : s[k] = "invalid"})
    BY <1>1, <1>2, InvalidKeys
  <2>2. count_total' = count_total - Index!Cardinality({k \in TreeKeys : s[k] = "invalid"})
    BY <1>3, <2>1, IndexCardinality
  <2>. QED BY <1>3, <1>6, <1>7, <2>2, Zenon DEF Index!Sweep
<1>8. CASE ~ (count_invalid > 0)
  <2>1. count_invalid = 0
    BY <1>2, <1>8
  <2>2. Invalids(C) = {}
    BY <1>2, <2>1, FS_EmptySet
  <2>3. \A j \in TreeKeys : s[j] # "invalid"
    <3>. SUFFICES ASSUME NEW j \in TreeKeys, s[j] = "invalid" PROVE FALSE
      OBVIOUS
    <3>1. <<j, FALSE>> \in C /\ <<j, FALSE>>[2] = FALSE
      BY <1>1, StatusIs
    <3>. QED BY <2>2, <3>1 DEF Invalids
  <2>4. s1 = s
    <3>. HIDE DEF s, s1
    <3>. QED BY <1>4, <1>5, <2>3
  <2>. QED BY <1>2, <1>3, <2>1, <2>4
<1>. QED BY <1>7, <1>8

\* Read by the code's own search (nvm0avltree.cc 62-242) the tree is the
\* abstract index: a rotation or a deletion never hides, loses or revives a
\* key, a sweep removes exactly the invalid ones, and the counters follow.
THEOREM TreeImplementsIndex == TreeSpec => ImplementsIndex
<1>1. TreeInv /\ [TreeNext]_treeVars => [Index!Next]_<<StatusIn(tree), count_total, count_invalid>>
  <2>. SUFFICES ASSUME TreeInv, [TreeNext]_treeVars
                PROVE  Index!Next \/ UNCHANGED <<StatusIn(tree), count_total, count_invalid>>
    OBVIOUS
  <2>1. ASSUME NEW k \in TreeKeys, TreeInsert(k) PROVE Index!Next
    BY <2>1, InsertImplements DEF Index!Next
  <2>2. ASSUME NEW k \in TreeKeys, logical_delete_tree_node(k)
        PROVE  Index!Next \/ UNCHANGED <<StatusIn(tree), count_total, count_invalid>>
    BY <2>2, MarkImplements DEF Index!Next
  <2>3. CASE rebalance_tree_node
    BY <2>3, SweepImplements DEF Index!Next
  <2>4. CASE UNCHANGED treeVars
    BY <2>4 DEF treeVars
  <2>. QED BY <2>1, <2>2, <2>3, <2>4 DEF TreeNext
<1>. QED BY <1>1, IndexInitially, TreeInvariant, PTL DEF TreeSpec, ImplementsIndex, Index!Spec
=============================================================================
