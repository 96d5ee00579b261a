-------------------------- MODULE BurstBufferProofs --------------------------
(***************************************************************************)
(* Theorems about the running burst buffer, for every number of inodes,    *)
(* blocks, queues and threads.                                             *)
(***************************************************************************)
EXTENDS BurstBuffer, SequenceTheorems, FiniteSetTheorems, WellFoundedInduction, TLAPS

(***************************************************************************)
(* Constants                                                               *)
(***************************************************************************)
LEMMA Sizes ==
    /\ NumVolumes \in Nat \ {0} /\ NumLbns \in Nat \ {0} /\ NumInodes \in Nat \ {0}
    /\ NumFree \in Nat \ {0} /\ NumSyncers \in Nat \ {0} /\ NumBalloons \in Nat \ {0}
    /\ MaxWrites \in Nat
BY SizeAssumption DEF SizeAssumption

\* An index that is advanced stays an index.
LEMMA AdvanceType ==
    ASSUME NEW n \in Nat \ {0}, NEW i \in 0 .. n - 1
    PROVE  Advance(i, n) \in 0 .. n - 1
<1>1. i + 1 \in Nat
  OBVIOUS
<1>. QED BY <1>1, SMT DEF Advance

LEMMA DivMost ==
    ASSUME NEW n \in Nat, NEW x \in Nat, NEW d \in Nat \ {0}, x <= n \div d
    PROVE  x * d <= n
BY SMT

\* The inodes are dealt to the free queues: each queue holds inodes.
LEMMA InitialFreeType ==
    ASSUME NEW k \in 0 .. NumFree - 1
    PROVE  InitialFree(k) \in Seq(Inodes)
<1>. USE Sizes
<1>. DEFINE top == NumInodes - k + NumFree - 1
<1>1. top \in Nat
  OBVIOUS
<1>. HIDE DEF top
<1>2. top \div NumFree \in Nat
  BY <1>1, SMT
<1>3. ASSUME NEW n \in 1 .. top \div NumFree PROVE k + (n - 1) * NumFree \in Inodes
  <2>1. n * NumFree <= top /\ n \in Nat
    BY <1>1, <1>2, <1>3, DivMost
  <2>2. (n - 1) * NumFree = n * NumFree - NumFree /\ n * NumFree \in Nat /\ (n - 1) * NumFree \in Nat
    BY <1>2, SMT
  <2>3. k + (n - 1) * NumFree <= NumInodes - 1
    BY <2>1, <2>2 DEF top
  <2>. QED BY <2>2, <2>3 DEF Inodes
<1>. QED BY <1>2, <1>3 DEF InitialFree, top

(***************************************************************************)
(* Queues as sets                                                          *)
(***************************************************************************)
In(q) == {q[n] : n \in 1 .. Len(q)}
Once(q) == \A m, n \in 1 .. Len(q) : q[m] = q[n] => m = n

LEMMA AppendIn ==
    ASSUME NEW S, NEW q \in Seq(S), NEW x \in S
    PROVE  /\ In(Append(q, x)) = In(q) \cup {x}
           /\ Once(q) /\ x \notin In(q) => Once(Append(q, x))
<1>. DEFINE r == Append(q, x)
<1>1. /\ Len(q) \in Nat /\ Len(r) = Len(q) + 1 /\ r[Len(q) + 1] = x
      /\ \A n \in 1 .. Len(q) : r[n] = q[n]
  BY AppendProperties
<1>. HIDE DEF r
<1>2. ASSUME NEW y \in In(r) PROVE y \in In(q) \cup {x}
  <2>1. PICK n \in 1 .. Len(r) : r[n] = y
    BY DEF In
  <2>2. n \in 1 .. Len(q) \/ n = Len(q) + 1
    BY <1>1
  <2>. QED BY <1>1, <2>1, <2>2 DEF In
<1>3. x \in In(r)
  <2>1. Len(q) + 1 \in 1 .. Len(r)
    BY <1>1
  <2>. QED BY <1>1, <2>1 DEF In
<1>4. ASSUME NEW y \in In(q) PROVE y \in In(r)
  <2>1. PICK n \in 1 .. Len(q) : q[n] = y
    BY DEF In
  <2>2. n \in 1 .. Len(r) /\ r[n] = y
    BY <1>1, <2>1
  <2>. QED BY <2>2 DEF In
<1>5. ASSUME Once(q), x \notin In(q) PROVE Once(r)
  <2>1. ASSUME NEW n \in 1 .. Len(q) PROVE r[n] = q[n] /\ r[n] # x
    BY <1>1, <1>5 DEF In
  <2>2. ASSUME NEW m \in 1 .. Len(r), NEW n \in 1 .. Len(r), r[m] = r[n] PROVE m = n
    <3>1. (m \in 1 .. Len(q) \/ m = Len(q) + 1) /\ (n \in 1 .. Len(q) \/ n = Len(q) + 1)
      BY <1>1
    <3>. QED BY <1>1, <1>5, <2>1, <2>2, <3>1 DEF Once
  <2>. QED BY <2>2 DEF Once
<1>. QED BY <1>2, <1>3, <1>4, <1>5 DEF r

LEMMA TailIn ==
    ASSUME NEW S, NEW q \in Seq(S), q # <<>>
    PROVE  /\ Head(q) \in In(q) /\ Head(q) \in S
           /\ In(q) = In(Tail(q)) \cup {Head(q)}
           /\ Once(q) => Once(Tail(q)) /\ Head(q) \notin In(Tail(q))
<1>. DEFINE r == Tail(q)
<1>1. /\ Len(q) \in Nat \ {0} /\ Len(r) = Len(q) - 1 /\ Head(q) = q[1] /\ Head(q) \in S
      /\ \A n \in 1 .. Len(r) : r[n] = q[n + 1]
  BY HeadTailProperties, EmptySeq
<1>. HIDE DEF r
<1>2. Head(q) \in In(q)
  BY <1>1 DEF In
<1>3. ASSUME NEW y \in In(r) PROVE y \in In(q)
  <2>1. PICK n \in 1 .. Len(r) : r[n] = y
    BY DEF In
  <2>2. n + 1 \in 1 .. Len(q) /\ q[n + 1] = y
    BY <1>1, <2>1
  <2>. QED BY <2>2 DEF In
<1>4. ASSUME NEW y \in In(q), y # Head(q) PROVE y \in In(r)
  <2>1. PICK n \in 1 .. Len(q) : q[n] = y
    BY DEF In
  <2>2. n - 1 \in 1 .. Len(r) /\ (n - 1) + 1 = n
    BY <1>1, <1>4, <2>1
  <2>3. r[n - 1] = y
    BY <1>1, <2>1, <2>2
  <2>. QED BY <2>2, <2>3 DEF In
<1>5. ASSUME Once(q) PROVE Once(r) /\ Head(q) \notin In(r)
  <2>1. ASSUME NEW m \in 1 .. Len(r), NEW n \in 1 .. Len(r), r[m] = r[n] PROVE m = n
    <3>1. m + 1 \in 1 .. Len(q) /\ n + 1 \in 1 .. Len(q) /\ q[m + 1] = q[n + 1]
      BY <1>1, <2>1
    <3>2. m + 1 = n + 1
      BY <1>5, <3>1 DEF Once
    <3>. QED BY <3>2
  <2>2. ASSUME NEW n \in 1 .. Len(r) PROVE r[n] # Head(q)
    <3>1. n + 1 \in 1 .. Len(q) /\ 1 \in 1 .. Len(q) /\ n + 1 # 1
      BY <1>1
    <3>. QED BY <1>1, <1>5, <3>1 DEF Once
  <2>. QED BY <2>1, <2>2 DEF Once, In
<1>. QED BY <1>1, <1>2, <1>3, <1>4, <1>5 DEF r

\* The same for one queue of a family.
LEMMA EnqueueIn ==
    ASSUME NEW S, NEW q, NEW k \in DOMAIN q, q[k] \in Seq(S), NEW x \in S
    PROVE  /\ In(Enqueue(q, k, x)[k]) = In(q[k]) \cup {x}
           /\ Once(q[k]) /\ x \notin In(q[k]) => Once(Enqueue(q, k, x)[k])
           /\ \A j \in DOMAIN q : j # k => Enqueue(q, k, x)[j] = q[j]
<1>1. Enqueue(q, k, x)[k] = Append(q[k], x)
  BY DEF Enqueue
<1>2. \A j \in DOMAIN q : j # k => Enqueue(q, k, x)[j] = q[j]
  BY DEF Enqueue
<1>. QED BY <1>1, <1>2, AppendIn

LEMMA DequeueIn ==
    ASSUME NEW S, NEW q, NEW k \in DOMAIN q, q[k] \in Seq(S), q[k] # <<>>
    PROVE  /\ Head(q[k]) \in In(q[k]) /\ Head(q[k]) \in S
           /\ In(q[k]) = In(Dequeue(q, k)[k]) \cup {Head(q[k])}
           /\ Once(q[k]) => Once(Dequeue(q, k)[k]) /\ Head(q[k]) \notin In(Dequeue(q, k)[k])
           /\ \A j \in DOMAIN q : j # k => Dequeue(q, k)[j] = q[j]
<1>1. Dequeue(q, k)[k] = Tail(q[k])
  BY DEF Dequeue
<1>2. \A j \in DOMAIN q : j # k => Dequeue(q, k)[j] = q[j]
  BY DEF Dequeue
<1>. QED BY <1>1, <1>2, TailIn

LEMMA InType ==
    ASSUME NEW S, NEW q \in Seq(S)
    PROVE  In(q) \subseteq S /\ In(<<>>) = {}
BY DEF In

LEMMA MostDiv ==
    ASSUME NEW n \in Nat, NEW x \in Nat, NEW d \in Nat \ {0}, (x + 1) * d <= n
    PROVE  x + 1 \in 1 .. n \div d
<1>. DEFINE m == n \div d
<1>1. m \in Nat /\ n < (m + 1) * d
  BY SMT
<1>2. (x + 1) * d < (m + 1) * d
  <2>1. (x + 1) * d \in Nat /\ (m + 1) * d \in Nat
    BY <1>1, SMT
  <2>. QED BY <1>1, <2>1
<1>. HIDE DEF m
<1>3. x < m
  <2>1. x >= m => x * d >= m * d
    BY <1>1, SMT
  <2>2. (x + 1) * d = x * d + d /\ (m + 1) * d = m * d + d /\ x * d \in Nat /\ m * d \in Nat
    BY <1>1, SMT
  <2>. QED BY <1>1, <1>2, <2>1, <2>2
<1>. QED BY <1>1, <1>3 DEF m

FreeQueues == 0 .. NumFree - 1

\* The inodes are dealt to the free queues in turn: inode i goes to queue
\* i % NumFree, behind i \div NumFree others.
LEMMA InitialDeal ==
    ASSUME NEW j \in FreeQueues
    PROVE  /\ Once(InitialFree(j))
           /\ In(InitialFree(j)) = {i \in Inodes : i % NumFree = j}
<1>. USE Sizes
<1>. DEFINE top == NumInodes - j + NumFree - 1
            most == top \div NumFree
<1>1. /\ j \in Nat /\ j < NumFree /\ NumFree \in Nat \ {0} /\ NumInodes \in Nat
      /\ top \in Nat
  BY DEF FreeQueues
<1>2. most \in Nat
  BY <1>1, SMT
<1>3. /\ Len(InitialFree(j)) = most
      /\ \A n \in 1 .. most : InitialFree(j)[n] = j + (n - 1) * NumFree
  BY <1>2 DEF InitialFree
<1>4. \A m, n \in 1 .. most : (m - 1) * NumFree = (n - 1) * NumFree => m = n
  BY <1>1, <1>2, SMT
<1>5. Once(InitialFree(j))
  <2>1. ASSUME NEW m \in 1 .. most, NEW n \in 1 .. most, InitialFree(j)[m] = InitialFree(j)[n]
        PROVE  m = n
    <3>1. (m - 1) * NumFree \in Int /\ (n - 1) * NumFree \in Int
      BY <1>1, <1>2, SMT
    <3>2. j + (m - 1) * NumFree = j + (n - 1) * NumFree
      BY <1>3, <2>1
    <3>3. (m - 1) * NumFree = (n - 1) * NumFree
      BY <1>1, <3>1, <3>2
    <3>. QED BY <1>4, <3>3
  <2>. QED BY <1>3, <2>1 DEF Once
<1>6. ASSUME NEW n \in 1 .. most PROVE (j + (n - 1) * NumFree) % NumFree = j
  <2>1. n - 1 \in Nat
    BY <1>2
  <2>. QED BY <1>1, <2>1, SMT
<1>7. ASSUME NEW i \in Inodes, i % NumFree = j
      PROVE  \E n \in 1 .. most : i = j + (n - 1) * NumFree
  <2>1. i \in Nat /\ i < NumInodes
    BY DEF Inodes
  <2>2. i \div NumFree \in Nat /\ i = j + (i \div NumFree) * NumFree
    BY <1>1, <1>7, <2>1, SMT
  <2>3. (i \div NumFree + 1) * NumFree = (i \div NumFree) * NumFree + NumFree
    BY <1>1, <2>2, SMT
  <2>4. (i \div NumFree + 1) * NumFree <= top
    BY <1>1, <2>1, <2>2, <2>3
  <2>5. i \div NumFree + 1 \in 1 .. most
    BY <1>1, <2>2, <2>4, MostDiv
  <2>6. (i \div NumFree + 1) - 1 = i \div NumFree
    BY <2>2
  <2>. QED BY <2>2, <2>5, <2>6
<1>8. InitialFree(j) \in Seq(Inodes)
  BY InitialFreeType DEF FreeQueues
<1>9. \A n \in 1 .. most : InitialFree(j)[n] \in Inodes
  BY <1>3, <1>8
<1>. HIDE DEF most
<1>10. In(InitialFree(j)) = {i \in Inodes : i % NumFree = j}
  <2>1. ASSUME NEW i \in In(InitialFree(j)) PROVE i \in Inodes /\ i % NumFree = j
    BY <1>3, <1>6, <1>9 DEF In
  <2>2. ASSUME NEW i \in Inodes, i % NumFree = j PROVE i \in In(InitialFree(j))
    BY <1>3, <1>7, <2>2 DEF In
  <2>. QED BY <2>1, <2>2
<1>. QED BY <1>5, <1>10

\* A nonempty set of naturals has a least element.
LEMMA LeastNatural ==
    ASSUME NEW T \in SUBSET Nat, T # {}
    PROVE  \E x \in T : \A y \in T : x <= y
<1>1. PICK x \in T : \A y \in T : ~ (<<y, x>> \in OpToRel(<, Nat))
  BY WFMin, NatLessThanWellFounded
<1>2. ASSUME NEW y \in T PROVE x <= y
  <2>1. ~ (<<y, x>> \in OpToRel(<, Nat))
    BY <1>1
  <2>. QED BY <2>1 DEF OpToRel
<1>. QED BY <1>2

\* A batch that is not empty begins with a longest run of consecutive blocks.
LEMMA RunExists ==
    ASSUME NEW batch \in Seq(Inodes), batch # <<>>
    PROVE  \E m \in 1 .. Len(batch) : Consecutive(batch, m) /\ ~ Consecutive(batch, m + 1)
<1>. DEFINE Ends == {m \in 1 .. Len(batch) : ~ Consecutive(batch, m + 1)}
<1>1. Len(batch) \in Nat \ {0}
  BY EmptySeq
<1>2. Len(batch) \in Ends
  BY <1>1 DEF Consecutive
<1>3. PICK m \in Ends : \A y \in Ends : m <= y
  <2>1. Ends \in SUBSET Nat /\ Ends # {}
    BY <1>1, <1>2
  <2>. HIDE DEF Ends
  <2>. QED BY <2>1, LeastNatural
<1>4. CASE m = 1
  <2>1. Consecutive(batch, 1)
    BY <1>1 DEF Consecutive
  <2>. QED BY <1>3, <1>4, <2>1
<1>5. CASE m # 1
  <2>1. m - 1 \in 1 .. Len(batch) /\ m - 1 \notin Ends
    <3>1. m \in 1 .. Len(batch)
      OBVIOUS
    <3>2. m - 1 \in 1 .. Len(batch) /\ ~ (m <= m - 1)
      BY <1>1, <1>5, <3>1
    <3>. HIDE DEF Ends
    <3>. QED BY <1>3, <3>2
  <2>2. Consecutive(batch, (m - 1) + 1)
    BY <2>1
  <2>3. (m - 1) + 1 = m
    BY <1>1, <1>3
  <2>. QED BY <1>3, <2>2, <2>3
<1>. QED BY <1>4, <1>5

(***************************************************************************)
(* Types.  TypeOK is not inductive: that a thread has an inode in hand     *)
(* where it needs one, that a batch is not empty when it is written, and   *)
(* that no block is written more often than the bound says, depends on     *)
(* where the threads are.                                                  *)
(***************************************************************************)
HasInode == {"assign", "insert", "set_dirty", "copy", "swap_volume", "swap_inode",
             "count_dirty", "enqueue_dirty", "unlock_inode"}

\* The call of v has yet to write block l.
ToWrite(v, l) == w[v].pc # "idle" /\ w[v].lbn <= l /\ l <= w[v].lbn_end

WriterOK ==
    \A v \in Volumes :
        /\ w[v].lbn <= w[v].lbn_end
        /\ w[v].pc \in HasInode => w[v].idx \in Inodes
        /\ \A l \in Lbns :
              acked[v][l] + budget[v] + (IF ToWrite(v, l) THEN 1 ELSE 0) <= MaxWrites

FlusherOK ==
    \A t \in Flushers :
        /\ f[t].pc = "requeue" => f[t].failed \in Inodes
        /\ f[t].pc \in {"write", "hand_off"} => f[t].batch # <<>>
        /\ f[t].pc = "hand_off" => f[t].run \in 1 .. Len(f[t].batch)

SyncerOK == \A k \in Syncers : s[k].pc \in {"enqueue", "unlock"} => s[k].idx \in Inodes

BalloonOK == \A k \in Balloons : b[k].pc # "idle" => b[k].idx \in Inodes

TypeInv == TypeOK /\ WriterOK /\ FlusherOK /\ SyncerOK /\ BalloonOK

\* Queues and tables of nodes keep their types when one place changes.
LEMMA QueueTypes ==
    ASSUME NEW S, NEW D, NEW q \in [D -> Seq(S)], NEW k \in D
    PROVE  /\ \A x \in S : Enqueue(q, k, x) \in [D -> Seq(S)]
           /\ q[k] # <<>> => Head(q[k]) \in S /\ Dequeue(q, k) \in [D -> Seq(S)]
<1>1. q[k] \in Seq(S)
  OBVIOUS
<1>2. ASSUME NEW x \in S PROVE Append(q[k], x) \in Seq(S)
  BY <1>1, AppendProperties
<1>3. q[k] # <<>> => Head(q[k]) \in S /\ Tail(q[k]) \in Seq(S)
  BY <1>1, HeadTailProperties
<1>. QED BY <1>2, <1>3 DEF Enqueue, Dequeue

LEMMA NodeType ==
    ASSUME SharedTypeOK, NEW v \in Volumes, NEW l \in Lbns
    PROVE  /\ node[v][l] \in Nodes
           /\ [node EXCEPT ![v][l].mutex = TRUE] \in [Volumes -> [Lbns -> Nodes]]
           /\ [node EXCEPT ![v][l].mutex = FALSE] \in [Volumes -> [Lbns -> Nodes]]
           /\ \A n \in Nodes : [node EXCEPT ![v][l] = n] \in [Volumes -> [Lbns -> Nodes]]
<1>1. node \in [Volumes -> [Lbns -> Nodes]]
  BY DEF SharedTypeOK
<1>2. node[v][l] \in Nodes
  BY <1>1
<1>3. ASSUME NEW n \in Nodes PROVE [node EXCEPT ![v][l] = n] \in [Volumes -> [Lbns -> Nodes]]
  <2>1. [node[v] EXCEPT ![l] = n] \in [Lbns -> Nodes]
    BY <1>1
  <2>. QED BY <1>1, <2>1
<1>4. [node EXCEPT ![v][l].mutex = TRUE] \in [Volumes -> [Lbns -> Nodes]]
  <2>1. [node[v][l] EXCEPT !.mutex = TRUE] \in Nodes
    BY <1>2 DEF Nodes
  <2>. QED BY <1>3, <2>1
<1>5. [node EXCEPT ![v][l].mutex = FALSE] \in [Volumes -> [Lbns -> Nodes]]
  <2>1. [node[v][l] EXCEPT !.mutex = FALSE] \in Nodes
    BY <1>2 DEF Nodes
  <2>. QED BY <1>3, <2>1
<1>. QED BY <1>2, <1>3, <1>4, <1>5

\* A new or revalidated node is a node, and so is one that is invalidated.
LEMMA NodeOperations ==
    ASSUME NEW n \in Nodes, NEW i \in Inodes
    PROVE  /\ new_hash_node(i) \in Nodes /\ validate_hash_node(n, i) \in Nodes
           /\ logical_delete_hash_node(n) \in Nodes
BY DEF Nodes, new_hash_node, validate_hash_node, logical_delete_hash_node

\* What a writer stores is a content.
LEMMA ContentType ==
    ASSUME NEW v \in Volumes, NEW l \in Lbns, NEW n \in 1 .. MaxWrites
    PROVE  Content(v, l, n) \in Contents
BY Sizes DEF Content, Contents

(***************************************************************************)
(* The writers                                                             *)
(***************************************************************************)
WriterRec ==
    [pc : WriterSteps, lbn : Lbns, lbn_end : Lbns, free_idx : 0 .. NumFree - 1,
     idx : Inodes \cup {NoInode}, old_state : States, ownerless : Blocks]

\* A step inside the call of one writer that moves neither the block nor the
\* end of the call.
LEMMA WriterMoves ==
    ASSUME WriterTypeOK, WriterOK, NEW v \in Volumes, NEW r \in WriterRec,
           w' = [w EXCEPT ![v] = r], acked' = acked, budget' = budget,
           w[v].pc # "idle", r.lbn = w[v].lbn, r.lbn_end = w[v].lbn_end,
           r.pc \in HasInode => r.idx \in Inodes
    PROVE  WriterTypeOK' /\ WriterOK'
<1>1. w \in [Volumes -> WriterRec]
  BY DEF WriterTypeOK, WriterRec
<1>2. w' \in [Volumes -> WriterRec]
  BY <1>1
<1>3. WriterTypeOK'
  BY <1>2 DEF WriterTypeOK, WriterRec
<1>4. ASSUME NEW u \in Volumes
      PROVE  /\ w'[u].lbn <= w'[u].lbn_end
             /\ w'[u].pc \in HasInode => w'[u].idx \in Inodes
             /\ w'[u].lbn = w[u].lbn /\ w'[u].lbn_end = w[u].lbn_end
             /\ w'[u].pc # "idle" => w[u].pc # "idle"
  BY <1>1 DEF WriterOK
<1>5. ASSUME NEW u \in Volumes, NEW l \in Lbns
      PROVE  acked'[u][l] + budget'[u] + (IF ToWrite(u, l)' THEN 1 ELSE 0) <= MaxWrites
  <2>1. acked[u][l] + budget[u] + (IF ToWrite(u, l) THEN 1 ELSE 0) <= MaxWrites
    BY DEF WriterOK
  <2>2. ToWrite(u, l)' => ToWrite(u, l)
    BY <1>4 DEF ToWrite
  <2>3. acked[u][l] \in Nat /\ budget[u] \in Nat
    BY Sizes DEF WriterTypeOK
  <2>. QED BY <2>1, <2>2, <2>3, Sizes
<1>6. WriterOK'
  BY <1>4, <1>5 DEF WriterOK
<1>. QED BY <1>3, <1>6

\* A call begins.
LEMMA WriteStartTypes ==
    ASSUME TypeInv, NEW v \in Volumes, NEW first \in Lbns, NEW last \in Lbns,
           WriteStart(v, first, last)
    PROVE  WriterTypeOK' /\ WriterOK'
<1>. USE Sizes
<1>1. w \in [Volumes -> WriterRec] /\ budget \in [Volumes -> 0 .. MaxWrites]
  BY DEF TypeInv, TypeOK, WriterTypeOK, WriterRec
<1>2. first \in Nat /\ last \in Nat /\ first <= last /\ budget[v] > last - first /\ budget[v] \in Nat
  BY <1>1 DEF WriteStart, Lbns
<1>. DEFINE r == [w[v] EXCEPT !.pc = "search", !.lbn = first, !.lbn_end = last]
<1>3. r \in WriterRec /\ r.pc = "search" /\ r.lbn = first /\ r.lbn_end = last
  <2>1. w[v] \in WriterRec /\ "search" \in WriterSteps
    BY <1>1 DEF WriterSteps
  <2>. QED BY <2>1 DEF WriterRec
<1>4. w' = [w EXCEPT ![v] = r]
  BY <1>1 DEF WriteStart
<1>. HIDE DEF r
<1>5. w' \in [Volumes -> WriterRec]
  BY <1>1, <1>3, <1>4
<1>6. /\ budget' \in [Volumes -> 0 .. MaxWrites] /\ acked' = acked
      /\ budget'[v] <= budget[v] - 1
      /\ \A u \in Volumes : u # v => budget'[u] = budget[u]
  BY <1>1, <1>2 DEF WriteStart
<1>7. WriterTypeOK'
  BY <1>5, <1>6 DEF WriterTypeOK, WriterRec, TypeInv, TypeOK
<1>8. ASSUME NEW u \in Volumes
      PROVE  w'[u].lbn <= w'[u].lbn_end /\ (w'[u].pc \in HasInode => w'[u].idx \in Inodes)
  <2>1. CASE u = v
    BY <1>1, <1>2, <1>3, <1>4, <2>1 DEF HasInode
  <2>2. CASE u # v
    BY <1>1, <1>4, <2>2 DEF TypeInv, WriterOK
  <2>. QED BY <2>1, <2>2
<1>9. ASSUME NEW u \in Volumes, NEW l \in Lbns
      PROVE  acked'[u][l] + budget'[u] + (IF ToWrite(u, l)' THEN 1 ELSE 0) <= MaxWrites
  <2>1. /\ acked[u][l] + budget[u] + (IF ToWrite(u, l) THEN 1 ELSE 0) <= MaxWrites
        /\ acked[u][l] \in Nat /\ budget[u] \in Nat /\ budget'[u] \in Nat
    BY <1>1, <1>6 DEF TypeInv, TypeOK, WriterOK, WriterTypeOK
  <2>2. CASE u = v
    BY <1>6, <2>1, <2>2
  <2>3. CASE u # v
    <3>1. ToWrite(u, l)' <=> ToWrite(u, l)
      BY <1>1, <1>4, <2>3 DEF ToWrite
    <3>. QED BY <1>6, <2>1, <2>3, <3>1
  <2>. QED BY <2>2, <2>3
<1>. QED BY <1>7, <1>8, <1>9 DEF WriterOK

\* A block is done, and the call goes on to the next or returns.
LEMMA UnlockNodeTypes ==
    ASSUME TypeInv, NEW v \in Volumes, UnlockNode(v)
    PROVE  WriterTypeOK' /\ WriterOK'
<1>. USE Sizes
<1>1. /\ w \in [Volumes -> WriterRec] /\ budget \in [Volumes -> 0 .. MaxWrites]
      /\ acked \in [Volumes -> [Lbns -> 0 .. MaxWrites]]
  BY DEF TypeInv, TypeOK, WriterTypeOK, WriterRec
<1>. DEFINE k == w[v].lbn
<1>. DEFINE r == IF k < w[v].lbn_end
                 THEN [Idle EXCEPT !.pc = "search", !.lbn = k + 1, !.lbn_end = w[v].lbn_end]
                 ELSE Idle
<1>2. k \in Lbns /\ w[v].lbn_end \in Lbns /\ k <= w[v].lbn_end /\ w[v].pc = "unlock_node"
  BY <1>1 DEF WriterRec, UnlockNode, At, TypeInv, WriterOK
<1>3. 0 \in Lbns /\ 0 \in Blocks /\ 0 \in 0 .. NumFree - 1 /\ "FREE" \in States
  BY DEF Lbns, Blocks, States
<1>4. Idle \in WriterRec /\ Idle.pc = "idle" /\ Idle.lbn = 0 /\ Idle.lbn_end = 0
  BY <1>3 DEF Idle, WriterRec, WriterSteps
<1>5. /\ r \in WriterRec /\ r.lbn <= r.lbn_end /\ r.pc \notin HasInode
      /\ r.pc # "idle" => r.lbn = k + 1 /\ r.lbn_end = w[v].lbn_end
  <2>1. CASE k < w[v].lbn_end
    <3>1. k + 1 \in Lbns /\ k + 1 <= w[v].lbn_end
      BY <1>2, <2>1 DEF Lbns
    <3>2. r = [Idle EXCEPT !.pc = "search", !.lbn = k + 1, !.lbn_end = w[v].lbn_end]
      BY <2>1
    <3>3. r \in WriterRec /\ r.pc = "search" /\ r.lbn = k + 1 /\ r.lbn_end = w[v].lbn_end
      BY <1>2, <1>4, <3>1, <3>2 DEF WriterRec, WriterSteps
    <3>4. r.pc # "idle" /\ r.pc \notin HasInode
      BY <3>3 DEF HasInode
    <3>. HIDE DEF r
    <3>. QED BY <3>1, <3>3, <3>4
  <2>2. CASE ~ (k < w[v].lbn_end)
    <3>1. r = Idle
      BY <2>2
    <3>2. Idle.pc \notin HasInode
      BY <1>4 DEF HasInode
    <3>. HIDE DEF r
    <3>. QED BY <1>4, <3>1, <3>2
  <2>. QED BY <2>1, <2>2
<1>6. w' = [w EXCEPT ![v] = r] /\ budget' = budget
  BY DEF UnlockNode
<1>7. acked' = [acked EXCEPT ![v][k] = @ + 1]
  BY DEF UnlockNode
<1>. HIDE DEF r
<1>8. w' \in [Volumes -> WriterRec]
  BY <1>1, <1>5, <1>6
<1>9. ASSUME NEW u \in Volumes
      PROVE  w'[u].lbn <= w'[u].lbn_end /\ (w'[u].pc \in HasInode => w'[u].idx \in Inodes)
  <2>1. CASE u = v
    BY <1>1, <1>5, <1>6, <2>1
  <2>2. CASE u # v
    BY <1>1, <1>6, <2>2 DEF TypeInv, WriterOK
  <2>. QED BY <2>1, <2>2
<1>10. ASSUME NEW u \in Volumes, NEW l \in Lbns
       PROVE  /\ acked'[u][l] \in Nat
              /\ acked'[u][l] + budget'[u] + (IF ToWrite(u, l)' THEN 1 ELSE 0) <= MaxWrites
  <2>1. /\ acked[u][l] + budget[u] + (IF ToWrite(u, l) THEN 1 ELSE 0) <= MaxWrites
        /\ acked[u][l] \in Nat /\ budget[u] \in Nat
    BY <1>1 DEF TypeInv, WriterOK
  <2>2. CASE u = v /\ l = k
    <3>1. ToWrite(u, l) /\ ~ ToWrite(u, l)'
      BY <1>1, <1>2, <1>5, <1>6, <2>2 DEF ToWrite, Lbns
    <3>2. acked'[u][l] = acked[u][l] + 1
      BY <1>1, <1>2, <1>7, <2>2
    <3>. QED BY <1>6, <2>1, <3>1, <3>2
  <2>3. CASE u = v /\ l # k
    <3>0. w'[u] = r /\ l \in Int /\ k \in Int
      BY <1>1, <1>2, <1>6, <2>3 DEF Lbns
    <3>1. ToWrite(u, l)' => ToWrite(u, l)
      BY <1>2, <1>5, <2>3, <3>0 DEF ToWrite
    <3>2. acked'[u][l] = acked[u][l]
      BY <1>1, <1>2, <1>7, <2>3
    <3>3. budget'[u] = budget[u]
      BY <1>6
    <3>. QED BY <2>1, <3>1, <3>2, <3>3
  <2>4. CASE u # v
    <3>1. ToWrite(u, l)' <=> ToWrite(u, l)
      BY <1>1, <1>6, <2>4 DEF ToWrite
    <3>2. acked'[u][l] = acked[u][l]
      BY <1>1, <1>2, <1>7, <2>4
    <3>. QED BY <1>6, <2>1, <3>1, <3>2
  <2>. QED BY <2>2, <2>3, <2>4
<1>11. acked' \in [Volumes -> [Lbns -> 0 .. MaxWrites]]
  <2>1. ASSUME NEW u \in Volumes, NEW l \in Lbns PROVE acked'[u][l] \in 0 .. MaxWrites
    <3>1. budget'[u] \in Nat
      BY <1>1, <1>6
    <3>. QED BY <1>10, <3>1
  <2>2. acked' \in [Volumes -> [Lbns -> Nat]]
    <3>1. acked[v] \in [Lbns -> Nat] /\ acked[v][k] + 1 \in Nat
      BY <1>1, <1>2
    <3>2. [acked[v] EXCEPT ![k] = acked[v][k] + 1] \in [Lbns -> Nat]
      BY <1>2, <3>1
    <3>. QED BY <1>1, <1>7, <3>2
  <2>. QED BY <2>1, <2>2
<1>12. WriterTypeOK'
  BY <1>1, <1>6, <1>8, <1>11 DEF WriterTypeOK, WriterRec
<1>. QED BY <1>9, <1>10, <1>12 DEF WriterOK

\* Every other step of a writer.
LEMMA WriteStepTypes ==
    ASSUME TypeInv, NEW v \in Volumes, WriteStep(v)
    PROVE  SharedTypeOK' /\ WriterTypeOK' /\ WriterOK'
<1>. USE Sizes
<1>1. /\ SharedTypeOK /\ w \in [Volumes -> WriterRec]
      /\ w[v].lbn \in Lbns /\ Node(v) \in Nodes
      /\ w[v].pc \in HasInode => w[v].idx \in Inodes
  <2>1. SharedTypeOK /\ w \in [Volumes -> WriterRec]
    BY DEF TypeInv, TypeOK, WriterTypeOK, WriterRec
  <2>2. w[v].lbn \in Lbns
    BY <2>1 DEF WriterRec
  <2>. QED BY <2>1, <2>2, NodeType DEF Node, TypeInv, WriterOK
<1>2. CASE SearchNode(v)
  <2>3. SharedTypeOK'
    BY <1>1, <1>2
       DEF SearchNode, SharedTypeOK, shared, inodeTable, queues, indices, counts, storage
  <2>. DEFINE r == [w[v] EXCEPT !.pc = IF isValidNode(Node(v)) THEN "lock_node" ELSE "free_check"]
  <2>4. r \in WriterRec /\ (r.pc \in HasInode => r.idx \in Inodes)
    BY <1>1, <1>2 DEF SearchNode, At, WriterRec, WriterSteps, HasInode, TypeInv, WriterOK
  <2>5. w' = [w EXCEPT ![v] = r] /\ acked' = acked /\ budget' = budget
    BY <1>1, <1>2 DEF SearchNode, WriterRec
  <2>6. w[v].pc # "idle" /\ r.lbn = w[v].lbn /\ r.lbn_end = w[v].lbn_end
    BY <1>1, <1>2 DEF SearchNode, At, WriterRec
  <2>. HIDE DEF r
  <2>. QED BY <1>1, <2>3, <2>4, <2>5, <2>6, WriterMoves DEF TypeInv, TypeOK
<1>3. CASE FreeCheck(v)
  <2>3. SharedTypeOK'
    BY <1>1, <1>3
       DEF FreeCheck, SharedTypeOK, shared, inodeTable, queues, indices, counts, storage
  <2>. DEFINE r == [w[v] EXCEPT !.pc = IF isFreeLFQueueEnough THEN "take_ticket" ELSE "search"]
  <2>4. r \in WriterRec /\ (r.pc \in HasInode => r.idx \in Inodes)
    BY <1>1, <1>3 DEF FreeCheck, At, WriterRec, WriterSteps, HasInode, TypeInv, WriterOK
  <2>5. w' = [w EXCEPT ![v] = r] /\ acked' = acked /\ budget' = budget
    BY <1>1, <1>3 DEF FreeCheck, WriterRec
  <2>6. w[v].pc # "idle" /\ r.lbn = w[v].lbn /\ r.lbn_end = w[v].lbn_end
    BY <1>1, <1>3 DEF FreeCheck, At, WriterRec
  <2>. HIDE DEF r
  <2>. QED BY <1>1, <2>3, <2>4, <2>5, <2>6, WriterMoves DEF TypeInv, TypeOK
<1>4. CASE TakeTicket(v)
  <2>3. SharedTypeOK'
    BY <1>1, <1>4, AdvanceType
       DEF TakeTicket, SharedTypeOK, shared, inodeTable, queues, indices, counts, storage
  <2>. DEFINE r == [w[v] EXCEPT !.pc = "dequeue", !.free_idx = free_dequeue_idx]
  <2>4. r \in WriterRec /\ (r.pc \in HasInode => r.idx \in Inodes)
    <3>1. /\ w[v] \in WriterRec /\ "dequeue" \in WriterSteps /\ "dequeue" \notin HasInode
          /\ free_dequeue_idx \in 0 .. NumFree - 1
      BY <1>1 DEF WriterSteps, HasInode, SharedTypeOK
    <3>. QED BY <3>1 DEF WriterRec
  <2>5. w' = [w EXCEPT ![v] = r] /\ acked' = acked /\ budget' = budget
    BY <1>1, <1>4 DEF TakeTicket, WriterRec
  <2>6. w[v].pc # "idle" /\ r.lbn = w[v].lbn /\ r.lbn_end = w[v].lbn_end
    BY <1>1, <1>4 DEF TakeTicket, At, WriterRec
  <2>. HIDE DEF r
  <2>. QED BY <1>1, <2>3, <2>4, <2>5, <2>6, WriterMoves DEF TypeInv, TypeOK
<1>5. CASE DequeueFree(v)
  <2>1. /\ Head(freeq[w[v].free_idx]) \in Inodes
        /\ freeq' \in [0 .. NumFree - 1 -> Seq(Inodes)]
    <3>1. freeq \in [0 .. NumFree - 1 -> Seq(Inodes)] /\ w[v].free_idx \in 0 .. NumFree - 1
      BY <1>1 DEF SharedTypeOK, WriterRec
    <3>2. freeq[w[v].free_idx] # <<>> /\ freeq' = Dequeue(freeq, w[v].free_idx)
      BY <1>5 DEF DequeueFree
    <3>. QED BY <3>1, <3>2, QueueTypes
  <2>3. SharedTypeOK'
    BY <1>1, <1>5, <2>1
       DEF DequeueFree, SharedTypeOK, shared, inodeTable, queues, indices, counts, storage
  <2>. DEFINE r == [w[v] EXCEPT !.pc = "assign", !.idx = Head(freeq[w[v].free_idx])]
  <2>4. r \in WriterRec /\ (r.pc \in HasInode => r.idx \in Inodes)
    <3>1. w[v] \in WriterRec /\ "assign" \in WriterSteps
      BY <1>1 DEF WriterSteps
    <3>. QED BY <2>1, <3>1 DEF WriterRec
  <2>5. w' = [w EXCEPT ![v] = r] /\ acked' = acked /\ budget' = budget
    BY <1>1, <1>5 DEF DequeueFree, WriterRec
  <2>6. w[v].pc # "idle" /\ r.lbn = w[v].lbn /\ r.lbn_end = w[v].lbn_end
    BY <1>1, <1>5 DEF DequeueFree, At, WriterRec
  <2>. HIDE DEF r
  <2>. QED BY <1>1, <2>3, <2>4, <2>5, <2>6, WriterMoves DEF TypeInv, TypeOK
<1>6. CASE AssignInode(v)
  <2>1. w[v].idx \in Inodes
    BY <1>1, <1>6 DEF AssignInode, At, HasInode
  <2>2. inode_free_count' \in Int
    BY <1>1, <1>6 DEF AssignInode, SharedTypeOK
  <2>3. SharedTypeOK'
    BY <1>1, <1>6, <2>1, <2>2
       DEF AssignInode, SharedTypeOK, shared, inodeTable, queues, indices, counts, storage
  <2>. DEFINE r == [w[v] EXCEPT !.pc = "insert"]
  <2>4. r \in WriterRec /\ (r.pc \in HasInode => r.idx \in Inodes)
    BY <1>1, <1>6 DEF AssignInode, At, WriterRec, WriterSteps, HasInode, TypeInv, WriterOK
  <2>5. w' = [w EXCEPT ![v] = r] /\ acked' = acked /\ budget' = budget
    BY <1>1, <1>6 DEF AssignInode, WriterRec
  <2>6. w[v].pc # "idle" /\ r.lbn = w[v].lbn /\ r.lbn_end = w[v].lbn_end
    BY <1>1, <1>6 DEF AssignInode, At, WriterRec
  <2>. HIDE DEF r
  <2>. QED BY <1>1, <2>3, <2>4, <2>5, <2>6, WriterMoves DEF TypeInv, TypeOK
<1>7. CASE InsertNode(v)
  <2>1. w[v].idx \in Inodes
    BY <1>1, <1>7 DEF InsertNode, At, HasInode
  <2>2. /\ node' = [node EXCEPT ![v][w[v].lbn] = IF Node(v).exists
                                                 THEN validate_hash_node(Node(v), w[v].idx)
                                                 ELSE new_hash_node(w[v].idx)]
    BY <1>1, <1>7 DEF InsertNode, Node, SharedTypeOK
  <2>7. node' \in [Volumes -> [Lbns -> Nodes]]
    BY <1>1, <2>1, <2>2, NodeType, NodeOperations
  <2>3. SharedTypeOK'
    BY <1>1, <1>7, <2>7
       DEF InsertNode, SharedTypeOK, shared, inodeTable, queues, indices, counts, storage
  <2>. DEFINE r == [w[v] EXCEPT !.pc = "lock_new"]
  <2>4. r \in WriterRec /\ (r.pc \in HasInode => r.idx \in Inodes)
    BY <1>1, <1>7 DEF InsertNode, At, WriterRec, WriterSteps, HasInode, TypeInv, WriterOK
  <2>5. w' = [w EXCEPT ![v] = r] /\ acked' = acked /\ budget' = budget
    BY <1>1, <1>7 DEF InsertNode, WriterRec
  <2>6. w[v].pc # "idle" /\ r.lbn = w[v].lbn /\ r.lbn_end = w[v].lbn_end
    BY <1>1, <1>7 DEF InsertNode, At, WriterRec
  <2>. HIDE DEF r
  <2>. QED BY <1>1, <2>3, <2>4, <2>5, <2>6, WriterMoves DEF TypeInv, TypeOK
<1>8. CASE LockNewNode(v)
  <2>1. node' \in [Volumes -> [Lbns -> Nodes]]
    <3>1. node' = [node EXCEPT ![v][w[v].lbn].mutex = TRUE]
      BY <1>8 DEF LockNewNode
    <3>. QED BY <1>1, <3>1, NodeType
  <2>3. SharedTypeOK'
    BY <1>1, <1>8, <2>1
       DEF LockNewNode, SharedTypeOK, shared, inodeTable, queues, indices, counts, storage
  <2>. DEFINE r == [w[v] EXCEPT !.pc = "lock_inode"]
  <2>4. r \in WriterRec /\ (r.pc \in HasInode => r.idx \in Inodes)
    BY <1>1, <1>8 DEF LockNewNode, At, WriterRec, WriterSteps, HasInode, TypeInv, WriterOK
  <2>5. w' = [w EXCEPT ![v] = r] /\ acked' = acked /\ budget' = budget
    BY <1>1, <1>8 DEF LockNewNode, WriterRec
  <2>6. w[v].pc # "idle" /\ r.lbn = w[v].lbn /\ r.lbn_end = w[v].lbn_end
    BY <1>1, <1>8 DEF LockNewNode, At, WriterRec
  <2>. HIDE DEF r
  <2>. QED BY <1>1, <2>3, <2>4, <2>5, <2>6, WriterMoves DEF TypeInv, TypeOK
<1>9. CASE LockNode(v)
  <2>1. node' \in [Volumes -> [Lbns -> Nodes]]
    <3>1. node' = [node EXCEPT ![v][w[v].lbn].mutex = TRUE]
      BY <1>9 DEF LockNode
    <3>. QED BY <1>1, <3>1, NodeType
  <2>3. SharedTypeOK'
    BY <1>1, <1>9, <2>1
       DEF LockNode, SharedTypeOK, shared, inodeTable, queues, indices, counts, storage
  <2>. DEFINE r == [w[v] EXCEPT !.pc = "recheck"]
  <2>4. r \in WriterRec /\ (r.pc \in HasInode => r.idx \in Inodes)
    BY <1>1, <1>9 DEF LockNode, At, WriterRec, WriterSteps, HasInode, TypeInv, WriterOK
  <2>5. w' = [w EXCEPT ![v] = r] /\ acked' = acked /\ budget' = budget
    BY <1>1, <1>9 DEF LockNode, WriterRec
  <2>6. w[v].pc # "idle" /\ r.lbn = w[v].lbn /\ r.lbn_end = w[v].lbn_end
    BY <1>1, <1>9 DEF LockNode, At, WriterRec
  <2>. HIDE DEF r
  <2>. QED BY <1>1, <2>3, <2>4, <2>5, <2>6, WriterMoves DEF TypeInv, TypeOK
<1>10. CASE RecheckNode(v)
  <2>1. node' \in [Volumes -> [Lbns -> Nodes]]
    <3>1. node' = node \/ node' = [node EXCEPT ![v][w[v].lbn].mutex = FALSE]
      BY <1>10 DEF RecheckNode
    <3>2. node \in [Volumes -> [Lbns -> Nodes]]
      BY <1>1 DEF SharedTypeOK
    <3>3. [node EXCEPT ![v][w[v].lbn].mutex = FALSE] \in [Volumes -> [Lbns -> Nodes]]
      BY <1>1, NodeType
    <3>. QED BY <3>1, <3>2, <3>3
  <2>3. SharedTypeOK'
    BY <1>1, <1>10, <2>1
       DEF RecheckNode, SharedTypeOK, shared, inodeTable, queues, indices, counts, storage
  <2>. DEFINE r == [w[v] EXCEPT !.pc = IF Node(v).valid THEN "lock_inode" ELSE "search"]
  <2>4. r \in WriterRec /\ (r.pc \in HasInode => r.idx \in Inodes)
    BY <1>1, <1>10 DEF RecheckNode, At, WriterRec, WriterSteps, HasInode, TypeInv, WriterOK
  <2>5. w' = [w EXCEPT ![v] = r] /\ acked' = acked /\ budget' = budget
    BY <1>1, <1>10 DEF RecheckNode, WriterRec
  <2>6. w[v].pc # "idle" /\ r.lbn = w[v].lbn /\ r.lbn_end = w[v].lbn_end
    BY <1>1, <1>10 DEF RecheckNode, At, WriterRec
  <2>. HIDE DEF r
  <2>. QED BY <1>1, <2>3, <2>4, <2>5, <2>6, WriterMoves DEF TypeInv, TypeOK
<1>11. CASE LockInode(v)
  <2>1. Node(v).inode \in Inodes
    BY <1>1, <1>11 DEF LockInode, Nodes
  <2>3. SharedTypeOK'
    BY <1>1, <1>11, <2>1
       DEF LockInode, SharedTypeOK, shared, inodeTable, queues, indices, counts, storage
  <2>. DEFINE r == [w[v] EXCEPT !.pc = "set_dirty", !.idx = Node(v).inode]
  <2>4. r \in WriterRec /\ (r.pc \in HasInode => r.idx \in Inodes)
    BY <1>1, <2>1, <1>11 DEF LockInode, At, WriterRec, WriterSteps, HasInode, TypeInv, WriterOK
  <2>5. w' = [w EXCEPT ![v] = r] /\ acked' = acked /\ budget' = budget
    BY <1>1, <1>11 DEF LockInode, WriterRec
  <2>6. w[v].pc # "idle" /\ r.lbn = w[v].lbn /\ r.lbn_end = w[v].lbn_end
    BY <1>1, <1>11 DEF LockInode, At, WriterRec
  <2>. HIDE DEF r
  <2>. QED BY <1>1, <2>3, <2>4, <2>5, <2>6, WriterMoves DEF TypeInv, TypeOK
<1>12. CASE SetDirty(v)
  <2>1. w[v].idx \in Inodes
    BY <1>1, <1>12 DEF SetDirty, At, HasInode
  <2>3. SharedTypeOK'
    BY <1>1, <1>12, <2>1
       DEF SetDirty, SharedTypeOK, shared, inodeTable, queues, indices, counts, storage,
           States
  <2>. DEFINE r == [w[v] EXCEPT !.pc = "copy", !.old_state = istate[w[v].idx]]
  <2>4. r \in WriterRec /\ (r.pc \in HasInode => r.idx \in Inodes)
    <3>1. w[v] \in WriterRec /\ "copy" \in WriterSteps /\ istate[w[v].idx] \in States
      BY <1>1, <2>1 DEF WriterSteps, SharedTypeOK
    <3>. QED BY <2>1, <3>1 DEF WriterRec
  <2>5. w' = [w EXCEPT ![v] = r] /\ acked' = acked /\ budget' = budget
    BY <1>1, <1>12 DEF SetDirty, WriterRec
  <2>6. w[v].pc # "idle" /\ r.lbn = w[v].lbn /\ r.lbn_end = w[v].lbn_end
    BY <1>1, <1>12 DEF SetDirty, At, WriterRec
  <2>. HIDE DEF r
  <2>. QED BY <1>1, <2>3, <2>4, <2>5, <2>6, WriterMoves DEF TypeInv, TypeOK
<1>13. CASE CopyToOwnerless(v)
  <2>1. w[v].idx \in Inodes
    BY <1>1, <1>13 DEF CopyToOwnerless, At, HasInode
  <2>2. vblock[ivol[w[v].idx]] \in Blocks /\ NewContent(v) \in Contents
    <3>1. acked[v][w[v].lbn] + 1 \in 1 .. MaxWrites
      <4>1. ToWrite(v, w[v].lbn)
        BY <1>1, <1>13 DEF CopyToOwnerless, At, ToWrite, TypeInv, WriterOK, Lbns
      <4>2. /\ acked[v][w[v].lbn] + budget[v] + 1 <= MaxWrites
            /\ acked[v][w[v].lbn] \in Nat /\ budget[v] \in Nat
        BY <1>1, <4>1 DEF TypeInv, TypeOK, WriterTypeOK, WriterOK
      <4>. QED BY <4>2
    <3>2. NewContent(v) \in Contents
      BY <1>1, <3>1, ContentType DEF NewContent
    <3>. QED BY <1>1, <2>1, <3>2 DEF SharedTypeOK
  <2>3. SharedTypeOK'
    BY <1>1, <1>13, <2>2
       DEF CopyToOwnerless, SharedTypeOK, shared, inodeTable, queues, indices, counts, storage
  <2>. DEFINE r == [w[v] EXCEPT !.pc = "swap_volume", !.ownerless = vblock[ivol[w[v].idx]]]
  <2>4. r \in WriterRec /\ (r.pc \in HasInode => r.idx \in Inodes)
    BY <1>1, <2>2, <1>13
       DEF CopyToOwnerless, At, WriterRec, WriterSteps, HasInode, TypeInv, WriterOK
  <2>5. w' = [w EXCEPT ![v] = r] /\ acked' = acked /\ budget' = budget
    BY <1>1, <1>13 DEF CopyToOwnerless, WriterRec
  <2>6. w[v].pc # "idle" /\ r.lbn = w[v].lbn /\ r.lbn_end = w[v].lbn_end
    BY <1>1, <1>13 DEF CopyToOwnerless, At, WriterRec
  <2>. HIDE DEF r
  <2>. QED BY <1>1, <2>3, <2>4, <2>5, <2>6, WriterMoves DEF TypeInv, TypeOK
<1>14. CASE SwapVolumeBlock(v)
  <2>1. w[v].idx \in Inodes
    BY <1>1, <1>14 DEF SwapVolumeBlock, At, HasInode
  <2>3. SharedTypeOK'
    BY <1>1, <1>14, <2>1
       DEF SwapVolumeBlock, SharedTypeOK, shared, inodeTable, queues, indices, counts, storage
  <2>. DEFINE r == [w[v] EXCEPT !.pc = "swap_inode"]
  <2>4. r \in WriterRec /\ (r.pc \in HasInode => r.idx \in Inodes)
    BY <1>1, <1>14 DEF SwapVolumeBlock, At, WriterRec, WriterSteps, HasInode, TypeInv, WriterOK
  <2>5. w' = [w EXCEPT ![v] = r] /\ acked' = acked /\ budget' = budget
    BY <1>1, <1>14 DEF SwapVolumeBlock, WriterRec
  <2>6. w[v].pc # "idle" /\ r.lbn = w[v].lbn /\ r.lbn_end = w[v].lbn_end
    BY <1>1, <1>14 DEF SwapVolumeBlock, At, WriterRec
  <2>. HIDE DEF r
  <2>. QED BY <1>1, <2>3, <2>4, <2>5, <2>6, WriterMoves DEF TypeInv, TypeOK
<1>15. CASE SwapInodeBlock(v)
  <2>1. w[v].idx \in Inodes
    BY <1>1, <1>15 DEF SwapInodeBlock, At, HasInode
  <2>3. SharedTypeOK'
    BY <1>1, <1>15, <2>1
       DEF SwapInodeBlock, SharedTypeOK, shared, inodeTable, queues, indices, counts, storage,
           WriterRec
  <2>. DEFINE r == [w[v] EXCEPT !.pc = IF w[v].old_state # "DIRTY" THEN "count_dirty" ELSE "unlock_inode"]
  <2>4. r \in WriterRec /\ (r.pc \in HasInode => r.idx \in Inodes)
    BY <1>1, <1>15 DEF SwapInodeBlock, At, WriterRec, WriterSteps, HasInode, TypeInv, WriterOK
  <2>5. w' = [w EXCEPT ![v] = r] /\ acked' = acked /\ budget' = budget
    BY <1>1, <1>15 DEF SwapInodeBlock, WriterRec
  <2>6. w[v].pc # "idle" /\ r.lbn = w[v].lbn /\ r.lbn_end = w[v].lbn_end
    BY <1>1, <1>15 DEF SwapInodeBlock, At, WriterRec
  <2>. HIDE DEF r
  <2>. QED BY <1>1, <2>3, <2>4, <2>5, <2>6, WriterMoves DEF TypeInv, TypeOK
<1>16. CASE CountDirty(v)
  <2>1. inode_dirty_count' \in Int
    BY <1>1, <1>16 DEF CountDirty, SharedTypeOK
  <2>3. SharedTypeOK'
    BY <1>1, <1>16, <2>1
       DEF CountDirty, SharedTypeOK, shared, inodeTable, queues, indices, counts, storage
  <2>. DEFINE r == [w[v] EXCEPT !.pc = "enqueue_dirty"]
  <2>4. r \in WriterRec /\ (r.pc \in HasInode => r.idx \in Inodes)
    BY <1>1, <1>16 DEF CountDirty, At, WriterRec, WriterSteps, HasInode, TypeInv, WriterOK
  <2>5. w' = [w EXCEPT ![v] = r] /\ acked' = acked /\ budget' = budget
    BY <1>1, <1>16 DEF CountDirty, WriterRec
  <2>6. w[v].pc # "idle" /\ r.lbn = w[v].lbn /\ r.lbn_end = w[v].lbn_end
    BY <1>1, <1>16 DEF CountDirty, At, WriterRec
  <2>. HIDE DEF r
  <2>. QED BY <1>1, <2>3, <2>4, <2>5, <2>6, WriterMoves DEF TypeInv, TypeOK
<1>17. CASE EnqueueDirty(v)
  <2>1. w[v].idx \in Inodes
    BY <1>1, <1>17 DEF EnqueueDirty, At, HasInode
  <2>2. dirtyq' \in [Volumes -> Seq(Inodes)]
    <3>1. dirtyq \in [Volumes -> Seq(Inodes)] /\ dirtyq' = Enqueue(dirtyq, v, w[v].idx)
      BY <1>1, <1>17 DEF EnqueueDirty, SharedTypeOK
    <3>. QED BY <2>1, <3>1, QueueTypes
  <2>3. SharedTypeOK'
    BY <1>1, <1>17, <2>2
       DEF EnqueueDirty, SharedTypeOK, shared, inodeTable, queues, indices, counts, storage
  <2>. DEFINE r == [w[v] EXCEPT !.pc = "unlock_inode"]
  <2>4. r \in WriterRec /\ (r.pc \in HasInode => r.idx \in Inodes)
    BY <1>1, <1>17 DEF EnqueueDirty, At, WriterRec, WriterSteps, HasInode, TypeInv, WriterOK
  <2>5. w' = [w EXCEPT ![v] = r] /\ acked' = acked /\ budget' = budget
    BY <1>1, <1>17 DEF EnqueueDirty, WriterRec
  <2>6. w[v].pc # "idle" /\ r.lbn = w[v].lbn /\ r.lbn_end = w[v].lbn_end
    BY <1>1, <1>17 DEF EnqueueDirty, At, WriterRec
  <2>. HIDE DEF r
  <2>. QED BY <1>1, <2>3, <2>4, <2>5, <2>6, WriterMoves DEF TypeInv, TypeOK
<1>18. CASE UnlockInode(v)
  <2>1. w[v].idx \in Inodes
    BY <1>1, <1>18 DEF UnlockInode, At, HasInode
  <2>3. SharedTypeOK'
    BY <1>1, <1>18, <2>1
       DEF UnlockInode, SharedTypeOK, shared, inodeTable, queues, indices, counts, storage
  <2>. DEFINE r == [w[v] EXCEPT !.pc = "unlock_node"]
  <2>4. r \in WriterRec /\ (r.pc \in HasInode => r.idx \in Inodes)
    BY <1>1, <1>18 DEF UnlockInode, At, WriterRec, WriterSteps, HasInode, TypeInv, WriterOK
  <2>5. w' = [w EXCEPT ![v] = r] /\ acked' = acked /\ budget' = budget
    BY <1>1, <1>18 DEF UnlockInode, WriterRec
  <2>6. w[v].pc # "idle" /\ r.lbn = w[v].lbn /\ r.lbn_end = w[v].lbn_end
    BY <1>1, <1>18 DEF UnlockInode, At, WriterRec
  <2>. HIDE DEF r
  <2>. QED BY <1>1, <2>3, <2>4, <2>5, <2>6, WriterMoves DEF TypeInv, TypeOK
<1>19. CASE UnlockNode(v)
  <2>1. node' \in [Volumes -> [Lbns -> Nodes]]
    <3>1. node' = [node EXCEPT ![v][w[v].lbn].mutex = FALSE]
      BY <1>19 DEF UnlockNode
    <3>. QED BY <1>1, <3>1, NodeType
  <2>2. SharedTypeOK'
    BY <1>1, <1>19, <2>1
       DEF UnlockNode, SharedTypeOK, shared, inodeTable, queues, indices, counts, storage
  <2>. QED BY <1>19, <2>2, UnlockNodeTypes
<1>. QED
  BY <1>2, <1>3, <1>4, <1>5, <1>6, <1>7, <1>8, <1>9, <1>10, <1>11, <1>12, <1>13, <1>14, <1>15, <1>16, <1>17, <1>18, <1>19
     DEF WriteStep

(***************************************************************************)
(* The flush threads                                                       *)
(***************************************************************************)
FlusherRec ==
    [pc : FlusherSteps, v_idx : Volumes, num : Int, write_size : Int,
     batch : Seq(Inodes), run : Nat, failed : Inodes \cup {NoInode}]

\* What FlusherOK says of one thread.
Ready(r) ==
    /\ r.pc = "requeue" => r.failed \in Inodes
    /\ r.pc \in {"write", "hand_off"} => r.batch # <<>>
    /\ r.pc = "hand_off" => r.run \in 1 .. Len(r.batch)

LEMMA FlusherMoves ==
    ASSUME FlushTypeOK, FlusherOK, NEW t \in Flushers, NEW r \in FlusherRec, Ready(r),
           f' = [f EXCEPT ![t] = r]
    PROVE  FlushTypeOK' /\ FlusherOK'
<1>1. f \in [Flushers -> FlusherRec]
  BY DEF FlushTypeOK, FlusherRec
<1>2. f' \in [Flushers -> FlusherRec]
  BY <1>1
<1>3. ASSUME NEW u \in Flushers PROVE Ready(f'[u])
  BY <1>1 DEF FlusherOK, Ready
<1>. QED BY <1>2, <1>3 DEF FlushTypeOK, FlusherRec, FlusherOK, Ready

\* The tail of a batch.
LEMMA BatchTail ==
    ASSUME NEW batch \in Seq(Inodes), batch # <<>>
    PROVE  /\ Head(batch) \in Inodes /\ Tail(batch) \in Seq(Inodes)
           /\ Len(batch) \in Nat \ {0} /\ Len(Tail(batch)) = Len(batch) - 1
<1>1. /\ Head(batch) \in Inodes /\ Tail(batch) \in Seq(Inodes)
      /\ Len(Tail(batch)) = Len(batch) - 1
  BY HeadTailProperties
<1>2. Len(batch) \in Nat \ {0}
  BY EmptySeq
<1>. QED BY <1>1, <1>2

\* Every step of a flush thread.
LEMMA FlushStepTypes ==
    ASSUME TypeInv, NEW t \in Flushers, FlushStep(t)
    PROVE  SharedTypeOK' /\ FlushTypeOK' /\ FlusherOK'
<1>. USE Sizes
<1>1. /\ SharedTypeOK /\ FlushTypeOK /\ FlusherOK
      /\ f \in [Flushers -> FlusherRec] /\ f[t] \in FlusherRec /\ Ready(f[t])
  BY DEF TypeInv, TypeOK, FlushTypeOK, FlusherRec, FlusherOK, Ready
<1>2. CASE FlushCheck(t)
  <2>. DEFINE r == [f[t] EXCEPT !.pc = "take"]
  <2>1. r \in FlusherRec /\ Ready(r) /\ f' = [f EXCEPT ![t] = r]
    BY <1>1, <1>2 DEF FlushCheck, FlusherRec, FlusherSteps, Ready
  <2>8. SharedTypeOK'
    BY <1>1, <1>2
       DEF FlushCheck, SharedTypeOK, shared, inodeTable, queues, indices, counts,
           storage
  <2>. QED BY <1>1, <2>1, <2>8, FlusherMoves
<1>3. CASE FlushTake(t)
  <2>1. Head(inuseq) \in Volumes /\ inuseq' \in Seq(Volumes)
    <3>1. inuseq \in Seq(Volumes) /\ inuseq # <<>> /\ inuseq' = Tail(inuseq)
      BY <1>1, <1>3 DEF SharedTypeOK, FlushTake
    <3>. QED BY <3>1, HeadTailProperties
  <2>. DEFINE r == [f[t] EXCEPT !.pc = "size", !.v_idx = Head(inuseq)]
  <2>2. r \in FlusherRec /\ Ready(r) /\ f' = [f EXCEPT ![t] = r]
    BY <1>1, <1>3, <2>1 DEF FlushTake, FlusherRec, FlusherSteps, Ready
  <2>8. SharedTypeOK'
    BY <1>1, <1>3, <2>1
       DEF FlushTake, SharedTypeOK, shared, inodeTable, queues, indices, counts,
           storage
  <2>. QED BY <1>1, <2>2, <2>8, FlusherMoves
<1>4. CASE FlushSize(t)
  <2>. DEFINE n == Len(dirtyq[f[t].v_idx])
  <2>1. n \in Nat /\ FlushBatch \in Nat
    <3>1. dirtyq[f[t].v_idx] \in Seq(Inodes)
      BY <1>1 DEF SharedTypeOK, FlusherRec
    <3>. QED BY <3>1, SizeAssumption DEF SizeAssumption
  <2>. DEFINE r == IF n > 1
                   THEN [f[t] EXCEPT !.pc = "collect", !.num = n - 1,
                              !.write_size = IF n - 1 >= FlushBatch THEN FlushBatch ELSE n - 1]
                   ELSE [f[t] EXCEPT !.pc = "give_back"]
  <2>2. f' = [f EXCEPT ![t] = r]
    BY <1>1, <1>4 DEF FlushSize
  <2>3. r \in FlusherRec /\ Ready(r)
    <3>. HIDE DEF n
    <3>1. CASE n > 1
      <4>. DEFINE k == n - 1
      <4>. DEFINE z == IF n - 1 >= FlushBatch THEN FlushBatch ELSE n - 1
      <4>1. r = [f[t] EXCEPT !.pc = "collect", !.num = k, !.write_size = z]
        BY <3>1
      <4>2. k \in Int /\ z \in Int
        BY <2>1
      <4>. HIDE DEF k, z, r
      <4>. QED BY <1>1, <4>1, <4>2 DEF FlusherRec, FlusherSteps, Ready
    <3>2. CASE ~ (n > 1)
      BY <1>1, <2>1, <3>2 DEF FlusherRec, FlusherSteps, Ready
    <3>. QED BY <3>1, <3>2
  <2>8. SharedTypeOK'
    BY <1>1, <1>4
       DEF FlushSize, SharedTypeOK, shared, inodeTable, queues, indices, counts,
           storage
  <2>. QED BY <1>1, <2>2, <2>3, <2>8, FlusherMoves
<1>5. CASE FlushCollect(t)
  <2>. DEFINE i == Head(dirtyq[f[t].v_idx])
  <2>1. i \in Inodes /\ dirtyq' \in [Volumes -> Seq(Inodes)]
    <3>1. dirtyq \in [Volumes -> Seq(Inodes)] /\ f[t].v_idx \in Volumes
      BY <1>1 DEF SharedTypeOK, FlusherRec
    <3>2. dirtyq[f[t].v_idx] # <<>> /\ dirtyq' = Dequeue(dirtyq, f[t].v_idx)
      BY <1>5 DEF FlushCollect
    <3>. QED BY <3>1, <3>2, QueueTypes
  <2>2. CASE ilock[i]
    <3>. DEFINE r == [f[t] EXCEPT !.pc = "requeue", !.failed = i]
    <3>1. f' = [f EXCEPT ![t] = r] /\ ilock' = ilock
      BY <1>1, <1>5, <2>2 DEF FlushCollect
    <3>2. r \in FlusherRec /\ Ready(r)
      BY <1>1, <2>1 DEF FlusherRec, FlusherSteps, Ready
    <3>3. SharedTypeOK'
      BY <1>1, <1>5, <2>1, <3>1
         DEF FlushCollect, SharedTypeOK, inodeTable, queues, indices, counts, storage
    <3>. QED BY <1>1, <3>1, <3>2, <3>3, FlusherMoves
  <2>3. CASE ~ ilock[i]
    <3>. DEFINE r == [f[t] EXCEPT !.batch = Append(f[t].batch, i)]
    <3>1. f' = [f EXCEPT ![t] = r] /\ ilock' = [ilock EXCEPT ![i] = TRUE]
      BY <1>1, <1>5, <2>3 DEF FlushCollect
    <3>2. Append(f[t].batch, i) \in Seq(Inodes)
      BY <1>1, <2>1, AppendProperties DEF FlusherRec
    <3>3. r \in FlusherRec /\ Ready(r)
      BY <1>1, <1>5, <3>2 DEF FlushCollect, FlusherRec, FlusherSteps, Ready
    <3>4. SharedTypeOK'
      BY <1>1, <1>5, <2>1, <3>1
         DEF FlushCollect, SharedTypeOK, inodeTable, queues, indices, counts, storage
    <3>. QED BY <1>1, <3>1, <3>3, <3>4, FlusherMoves
  <2>. QED BY <2>2, <2>3
<1>6. CASE FlushRequeue(t)
  <2>1. dirtyq' \in [Volumes -> Seq(Inodes)]
    <3>1. /\ dirtyq \in [Volumes -> Seq(Inodes)] /\ f[t].v_idx \in Volumes
          /\ f[t].failed \in Inodes /\ dirtyq' = Enqueue(dirtyq, f[t].v_idx, f[t].failed)
      BY <1>1, <1>6 DEF SharedTypeOK, FlusherRec, FlushRequeue, Ready
    <3>. QED BY <3>1, QueueTypes
  <2>. DEFINE k == f[t].num - 1
  <2>. DEFINE z == f[t].write_size - IF f[t].num - 1 < FlushBatch THEN 1 ELSE 0
  <2>. DEFINE r == [f[t] EXCEPT !.pc = "collect", !.failed = NoInode, !.num = k,
                                !.write_size = z]
  <2>2. f' = [f EXCEPT ![t] = r]
    BY <1>6 DEF FlushRequeue
  <2>3. k \in Int /\ z \in Int
    BY <1>1 DEF FlusherRec
  <2>. HIDE DEF k, z
  <2>4. r \in FlusherRec
    BY <1>1, <2>3 DEF FlusherRec, FlusherSteps
  <2>5. Ready(r)
    BY <1>1 DEF FlusherRec, Ready
  <2>8. SharedTypeOK'
    BY <1>1, <1>6, <2>1
       DEF FlushRequeue, SharedTypeOK, shared, inodeTable, queues, indices, counts,
           storage
  <2>. QED BY <1>1, <2>2, <2>4, <2>5, <2>8, FlusherMoves
<1>7. CASE FlushCollected(t)
  <2>. DEFINE r == [f[t] EXCEPT !.pc = IF f[t].batch = <<>> THEN "give_back" ELSE "write"]
  <2>1. f' = [f EXCEPT ![t] = r]
    BY <1>1, <1>7 DEF FlushCollected
  <2>2. r \in FlusherRec /\ Ready(r)
    BY <1>1 DEF FlusherRec, FlusherSteps, Ready
  <2>8. SharedTypeOK'
    BY <1>1, <1>7
       DEF FlushCollected, SharedTypeOK, shared, inodeTable, queues, indices, counts,
           storage
  <2>. QED BY <1>1, <2>1, <2>2, <2>8, FlusherMoves
<1>8. CASE FlushWrite(t)
  <2>. DEFINE batch == f[t].batch
  <2>. DEFINE start == Head(batch)
  <2>. DEFINE n == CHOOSE m \in 1 .. Len(batch) :
                      /\ Consecutive(batch, m)
                      /\ ~ Consecutive(batch, m + 1)
  <2>. DEFINE r == [f[t] EXCEPT !.pc = "hand_off", !.run = n]
  <2>1. batch \in Seq(Inodes) /\ batch # <<>> /\ Len(batch) \in Nat
    <3>1. batch \in Seq(Inodes) /\ batch # <<>>
      BY <1>1, <1>8 DEF FlusherRec, FlushWrite, Ready
    <3>. QED BY <3>1, LenProperties
  <2>2. n \in 1 .. Len(batch)
    BY <2>1, RunExists
  <2>3. f' = [f EXCEPT ![t] = r]
    <3>1. f' = [f EXCEPT ![t].pc = "hand_off", ![t].run = n]
      BY <1>1, <1>8 DEF FlushWrite
    <3>. HIDE DEF n
    <3>. QED BY <1>1, <3>1 DEF FlusherRec
  <2>4. file' = [file EXCEPT ![ivol[start]] =
                    [l \in Lbns |-> IF l - ilbn[start] \in 0 .. n - 1
                                    THEN data[iblock[batch[l - ilbn[start] + 1]]]
                                    ELSE file[ivol[start]][l]]]
    BY <1>1, <1>8 DEF FlushWrite, SharedTypeOK
  <2>. HIDE DEF n
  <2>5. r \in FlusherRec /\ Ready(r)
    <3>1. n \in Nat /\ r.pc = "hand_off" /\ r.batch = batch /\ r.run = n
      BY <1>1, <2>1, <2>2 DEF FlusherRec
    <3>2. r \in FlusherRec
      BY <1>1, <3>1 DEF FlusherRec, FlusherSteps
    <3>. HIDE DEF r, batch
    <3>. QED BY <2>1, <2>2, <3>1, <3>2 DEF Ready
  <2>6. file' \in [Volumes -> [Lbns -> Contents]]
    <3>1. start \in Inodes /\ ivol[start] \in Volumes /\ ilbn[start] \in Int
      BY <1>1, <2>1, BatchTail DEF SharedTypeOK, Lbns
    <3>. HIDE DEF start
    <3>. HIDE DEF batch
    <3>2. ASSUME NEW l \in Lbns, l - ilbn[start] \in 0 .. n - 1
          PROVE  data[iblock[batch[l - ilbn[start] + 1]]] \in Contents
      <4>1. l - ilbn[start] + 1 \in 1 .. Len(batch)
        BY <2>1, <2>2, <3>1, <3>2 DEF Lbns
      <4>2. batch[l - ilbn[start] + 1] \in Inodes
        BY <2>1, <4>1, ElementOfSeq
      <4>. QED BY <1>1, <4>2 DEF SharedTypeOK
    <3>3. file \in [Volumes -> [Lbns -> Contents]]
      BY <1>1 DEF SharedTypeOK
    <3>. QED BY <2>4, <3>1, <3>2, <3>3
  <2>. HIDE DEF batch
  <2>8. SharedTypeOK'
    BY <1>1, <1>8, <2>6
       DEF FlushWrite, SharedTypeOK, shared, inodeTable, queues, indices, counts,
           storage
  <2>. QED BY <1>1, <2>3, <2>5, <2>8, FlusherMoves
<1>9. CASE FlushHandOff(t)
  <2>. DEFINE batch == f[t].batch
  <2>. DEFINE r == [f[t] EXCEPT !.batch = Tail(batch), !.run = f[t].run - 1,
                       !.pc = IF f[t].run > 1 THEN "hand_off"
                              ELSE IF Tail(batch) # <<>> THEN "write" ELSE "give_back"]
  <2>1. /\ Head(batch) \in Inodes /\ Tail(batch) \in Seq(Inodes)
        /\ Len(batch) \in Nat \ {0} /\ Len(Tail(batch)) = Len(batch) - 1
    BY <1>1, <1>9, BatchTail DEF FlusherRec, FlushHandOff, Ready
  <2>2. f[t].run \in 1 .. Len(batch) /\ f[t].pc = "hand_off"
    BY <1>1, <1>9 DEF FlushHandOff, Ready
  <2>3. f' = [f EXCEPT ![t] = r]
    BY <1>1, <1>9 DEF FlushHandOff, FlusherRec
  <2>. HIDE DEF batch
  <2>4. r \in FlusherRec
    <3>1. f[t].run - 1 \in Nat
      BY <2>1, <2>2
    <3>. QED BY <1>1, <2>1, <3>1 DEF FlusherRec, FlusherSteps
  <2>5. Ready(r)
    <3>1. /\ r.batch = Tail(batch) /\ r.run = f[t].run - 1
          /\ r.pc = IF f[t].run > 1 THEN "hand_off"
                    ELSE IF Tail(batch) # <<>> THEN "write" ELSE "give_back"
      BY <1>1 DEF FlusherRec
    <3>2. f[t].run > 1 => Tail(batch) # <<>>
      <4>1. f[t].run > 1 => Len(Tail(batch)) # 0
        BY <2>1, <2>2
      <4>2. Tail(batch) = <<>> => Len(Tail(batch)) = 0
        BY <2>1, EmptySeq
      <4>. QED BY <4>1, <4>2
    <3>. HIDE DEF r
    <3>. QED BY <2>1, <2>2, <3>1, <3>2 DEF Ready
  <2>6. syncq' \in [Syncers -> Seq(Inodes)] /\ sync_queue_idx' \in Syncers
    <3>1. /\ syncq \in [Syncers -> Seq(Inodes)] /\ sync_queue_idx \in Syncers
          /\ syncq' = Enqueue(syncq, sync_queue_idx, Head(batch))
          /\ sync_queue_idx' = Advance(sync_queue_idx, NumSyncers)
      BY <1>1, <1>9 DEF FlushHandOff, SharedTypeOK, batch
    <3>. QED BY <2>1, <3>1, QueueTypes, AdvanceType DEF Syncers
  <2>7. istate' \in [Inodes -> States] /\ inode_dirty_count' \in Int
    <3>1. istate' = [istate EXCEPT ![Head(batch)] = "SYNC"]
      BY <1>9 DEF FlushHandOff, batch
    <3>2. inode_dirty_count' \in Int
      BY <1>1, <1>9 DEF FlushHandOff, SharedTypeOK
    <3>. QED BY <1>1, <2>1, <3>1, <3>2 DEF SharedTypeOK, States
  <2>8. SharedTypeOK'
    BY <1>1, <1>9, <2>6, <2>7
       DEF FlushHandOff, SharedTypeOK, shared, inodeTable, queues, indices, counts,
           storage
  <2>. QED BY <1>1, <2>3, <2>4, <2>5, <2>8, FlusherMoves
<1>10. CASE FlushGiveBack(t)
  <2>1. FlusherIdle \in FlusherRec /\ Ready(FlusherIdle)
    BY DEF FlusherIdle, FlusherRec, FlusherSteps, Ready, Volumes
  <2>2. f' = [f EXCEPT ![t] = FlusherIdle]
    BY <1>10 DEF FlushGiveBack
  <2>3. inuseq' \in Seq(Volumes)
    <3>1. inuseq \in Seq(Volumes) /\ inuseq' = Append(inuseq, f[t].v_idx) /\ f[t].v_idx \in Volumes
      BY <1>1, <1>10 DEF SharedTypeOK, FlushGiveBack, FlusherRec
    <3>. QED BY <3>1, AppendProperties
  <2>8. SharedTypeOK'
    BY <1>1, <1>10, <2>3
       DEF FlushGiveBack, SharedTypeOK, shared, inodeTable, queues, indices, counts,
           storage
  <2>. QED BY <1>1, <2>1, <2>2, <2>8, FlusherMoves
<1>. QED
  BY <1>2, <1>3, <1>4, <1>5, <1>6, <1>7, <1>8, <1>9, <1>10 DEF FlushStep

(***************************************************************************)
(* The sync threads                                                        *)
(***************************************************************************)
SyncerRec == [pc : SyncerSteps, n : Nat, idx : Inodes \cup {NoInode}]

LEMMA SyncerMoves ==
    ASSUME SyncTypeOK, SyncerOK, NEW k \in Syncers, NEW r \in SyncerRec,
           r.pc \in {"enqueue", "unlock"} => r.idx \in Inodes,
           s' = [s EXCEPT ![k] = r]
    PROVE  SyncTypeOK' /\ SyncerOK'
<1>1. s \in [Syncers -> SyncerRec]
  BY DEF SyncTypeOK, SyncerRec
<1>2. s' \in [Syncers -> SyncerRec]
  BY <1>1
<1>3. ASSUME NEW j \in Syncers, s'[j].pc \in {"enqueue", "unlock"} PROVE s'[j].idx \in Inodes
  BY <1>1, <1>3 DEF SyncerOK
<1>. QED BY <1>2, <1>3 DEF SyncTypeOK, SyncerRec, SyncerOK

\* Every step of a sync thread.
LEMMA SyncStepTypes ==
    ASSUME TypeInv, NEW k \in Syncers, SyncStep(k)
    PROVE  SharedTypeOK' /\ SyncTypeOK' /\ SyncerOK'
<1>. USE Sizes
<1>1. /\ SharedTypeOK /\ SyncTypeOK /\ SyncerOK /\ s \in [Syncers -> SyncerRec]
      /\ s[k] \in SyncerRec /\ (s[k].pc \in {"enqueue", "unlock"} => s[k].idx \in Inodes)
  BY DEF TypeInv, TypeOK, SyncTypeOK, SyncerRec, SyncerOK
<1>2. CASE SyncCount(k)
  <2>. DEFINE n == Len(syncq[k])
  <2>. DEFINE r == [s[k] EXCEPT !.pc = "sync", !.n = n]
  <2>1. n \in Nat
    <3>1. syncq[k] \in Seq(Inodes)
      BY <1>1 DEF SharedTypeOK
    <3>. QED BY <3>1
  <2>2. s' = [s EXCEPT ![k].pc = "sync", ![k].n = n]
    BY <1>2 DEF SyncCount
  <2>. HIDE DEF n
  <2>3. s' = [s EXCEPT ![k] = r]
    BY <1>1, <2>2 DEF SyncerRec
  <2>4. r \in SyncerRec /\ r.pc = "sync"
    BY <1>1, <2>1 DEF SyncerRec, SyncerSteps
  <2>8. SharedTypeOK'
    BY <1>1, <1>2
       DEF SyncCount, SharedTypeOK, shared, inodeTable, queues, indices, counts,
           storage
  <2>. QED BY <1>1, <2>3, <2>4, <2>8, SyncerMoves
<1>3. CASE SyncFiles(k)
  <2>. DEFINE r == [s[k] EXCEPT !.pc = "clean"]
  <2>1. r \in SyncerRec /\ r.pc = "clean" /\ s' = [s EXCEPT ![k] = r]
    BY <1>1, <1>3 DEF SyncFiles, SyncerRec, SyncerSteps
  <2>8. SharedTypeOK'
    BY <1>1, <1>3
       DEF SyncFiles, SharedTypeOK, shared, inodeTable, queues, indices, counts,
           storage
  <2>. QED BY <1>1, <2>1, <2>8, SyncerMoves
<1>4. CASE SyncClean(k)
  <2>1. Head(syncq[k]) \in Inodes /\ syncq' \in [Syncers -> Seq(Inodes)]
    <3>1. syncq \in [Syncers -> Seq(Inodes)] /\ syncq[k] # <<>> /\ syncq' = Dequeue(syncq, k)
      BY <1>1, <1>4 DEF SyncClean, SharedTypeOK
    <3>. QED BY <3>1, QueueTypes
  <2>. DEFINE r == [s[k] EXCEPT !.pc = "enqueue", !.idx = Head(syncq[k])]
  <2>2. s' = [s EXCEPT ![k] = r]
    BY <1>1, <1>4 DEF SyncClean, SyncerRec
  <2>3. r \in SyncerRec /\ r.idx \in Inodes
    BY <1>1, <2>1 DEF SyncerRec, SyncerSteps
  <2>8. SharedTypeOK'
    BY <1>1, <1>4, <2>1
       DEF SyncClean, States, SharedTypeOK, shared, inodeTable, queues, indices, counts,
           storage
  <2>. QED BY <1>1, <2>2, <2>3, <2>8, SyncerMoves
<1>5. CASE SyncEnqueue(k)
  <2>1. s[k].idx \in Inodes
    BY <1>1, <1>5 DEF SyncEnqueue
  <2>. DEFINE r == [s[k] EXCEPT !.pc = "unlock"]
  <2>2. r \in SyncerRec /\ r.idx \in Inodes /\ s' = [s EXCEPT ![k] = r]
    BY <1>1, <1>5, <2>1 DEF SyncEnqueue, SyncerRec, SyncerSteps
  <2>3. cleanq' \in [Balloons -> Seq(Inodes)] /\ clean_queue_idx' \in Balloons
    <3>1. /\ cleanq \in [Balloons -> Seq(Inodes)] /\ clean_queue_idx \in Balloons
          /\ cleanq' = Enqueue(cleanq, clean_queue_idx, s[k].idx)
          /\ clean_queue_idx' = Advance(clean_queue_idx, NumBalloons)
      BY <1>1, <1>5 DEF SyncEnqueue, SharedTypeOK
    <3>. QED BY <2>1, <3>1, QueueTypes, AdvanceType DEF Balloons
  <2>8. SharedTypeOK'
    BY <1>1, <1>5, <2>3
       DEF SyncEnqueue, SharedTypeOK, shared, inodeTable, queues, indices, counts,
           storage
  <2>. QED BY <1>1, <2>2, <2>8, SyncerMoves
<1>6. CASE SyncUnlock(k)
  <2>1. s[k].idx \in Inodes
    BY <1>1, <1>6 DEF SyncUnlock
  <2>2. SyncerIdle \in SyncerRec /\ SyncerIdle.pc \notin {"enqueue", "unlock"}
    BY DEF SyncerIdle, SyncerRec, SyncerSteps
  <2>5. SharedTypeOK'
    BY <1>1, <1>6, <2>1
       DEF SyncUnlock, SharedTypeOK, shared, inodeTable, queues, indices, counts,
           storage
  <2>3. CASE s[k].n > 1
    <3>. DEFINE m == s[k].n - 1
    <3>. DEFINE r == [pc |-> "clean", n |-> m, idx |-> NoInode]
    <3>1. s' = [s EXCEPT ![k] = r]
      BY <1>6, <2>3 DEF SyncUnlock
    <3>2. m \in Nat
      BY <1>1, <2>3 DEF SyncerRec
    <3>. HIDE DEF m
    <3>3. r \in SyncerRec /\ r.pc \notin {"enqueue", "unlock"}
      BY <3>2 DEF SyncerRec, SyncerSteps
    <3>. HIDE DEF r
    <3>. QED BY <1>1, <2>5, <3>1, <3>3, SyncerMoves
  <2>4. CASE ~ (s[k].n > 1)
    <3>1. s' = [s EXCEPT ![k] = SyncerIdle]
      BY <1>6, <2>4 DEF SyncUnlock
    <3>. QED BY <1>1, <2>2, <2>5, <3>1, SyncerMoves
  <2>. QED BY <2>3, <2>4
<1>. QED BY <1>2, <1>3, <1>4, <1>5, <1>6 DEF SyncStep

(***************************************************************************)
(* The balloon threads                                                     *)
(***************************************************************************)
BalloonRec == [pc : BalloonSteps, idx : Inodes \cup {NoInode}, vol : Volumes, lbn : Lbns]

LEMMA BalloonMoves ==
    ASSUME BalloonTypeOK, BalloonOK, NEW k \in Balloons, NEW r \in BalloonRec,
           r.pc # "idle" => r.idx \in Inodes,
           b' = [b EXCEPT ![k] = r]
    PROVE  BalloonTypeOK' /\ BalloonOK'
<1>1. b \in [Balloons -> BalloonRec]
  BY DEF BalloonTypeOK, BalloonRec
<1>2. b' \in [Balloons -> BalloonRec]
  BY <1>1
<1>3. ASSUME NEW j \in Balloons, b'[j].pc # "idle" PROVE b'[j].idx \in Inodes
  BY <1>1, <1>3 DEF BalloonOK
<1>. QED BY <1>2, <1>3 DEF BalloonTypeOK, BalloonRec, BalloonOK

\* Every step of a balloon thread.
LEMMA BalloonStepTypes ==
    ASSUME TypeInv, NEW k \in Balloons, BalloonStep(k)
    PROVE  SharedTypeOK' /\ BalloonTypeOK' /\ BalloonOK'
<1>. USE Sizes
<1>1. /\ SharedTypeOK /\ BalloonTypeOK /\ BalloonOK /\ b \in [Balloons -> BalloonRec]
      /\ b[k] \in BalloonRec /\ b[k].vol \in Volumes /\ b[k].lbn \in Lbns
      /\ b[k].pc # "idle" => b[k].idx \in Inodes
  BY DEF TypeInv, TypeOK, BalloonTypeOK, BalloonRec, BalloonOK
<1>0. BalloonIdle \in BalloonRec /\ BalloonIdle.pc = "idle"
  BY DEF BalloonIdle, BalloonRec, BalloonSteps, Volumes, Lbns
<1>2. CASE BalloonDequeue(k)
  <2>1. Head(cleanq[k]) \in Inodes /\ cleanq' \in [Balloons -> Seq(Inodes)]
    <3>1. /\ cleanq \in [Balloons -> Seq(Inodes)] /\ cleanq[k] # <<>>
          /\ cleanq' = Dequeue(cleanq, k)
      BY <1>1, <1>2 DEF BalloonDequeue, SharedTypeOK
    <3>. QED BY <3>1, QueueTypes
  <2>. DEFINE r == [b[k] EXCEPT !.pc = "state", !.idx = Head(cleanq[k])]
  <2>5. r \in BalloonRec /\ r.idx \in Inodes /\ b' = [b EXCEPT ![k] = r]
    BY <1>1, <1>2, <2>1 DEF BalloonDequeue, BalloonRec, BalloonSteps
  <2>6. BalloonTypeOK' /\ BalloonOK'
    BY <1>1, <2>5, BalloonMoves
  <2>8. SharedTypeOK'
    BY <1>1, <1>2, <2>1
       DEF BalloonDequeue, SharedTypeOK, shared, inodeTable, queues, indices, counts,
           storage
  <2>. QED BY <2>6, <2>8
<1>3. CASE BalloonState(k)
  <2>. DEFINE r == [b[k] EXCEPT !.pc = "search"]
  <2>1. r \in BalloonRec /\ r.idx \in Inodes
    BY <1>1, <1>3 DEF BalloonState, BalloonRec, BalloonSteps
  <2>2. b' = [b EXCEPT ![k] = r] \/ b' = [b EXCEPT ![k] = BalloonIdle]
    BY <1>1, <1>3 DEF BalloonState
  <2>. HIDE DEF r
  <2>6. BalloonTypeOK' /\ BalloonOK'
    BY <1>0, <1>1, <2>1, <2>2, BalloonMoves
  <2>8. SharedTypeOK'
    BY <1>1, <1>3
       DEF BalloonState, SharedTypeOK, shared, inodeTable, queues, indices, counts,
           storage
  <2>. QED BY <2>6, <2>8
<1>4. CASE BalloonSearch(k)
  <2>1. ivol[b[k].idx] \in Volumes /\ ilbn[b[k].idx] \in Lbns
    BY <1>1, <1>4 DEF BalloonSearch, SharedTypeOK
  <2>. DEFINE v == ivol[b[k].idx]
              l == ilbn[b[k].idx]
              r == [b[k] EXCEPT !.pc = IF node[v][l].exists THEN "trylock" ELSE "fault",
                                !.vol = v, !.lbn = l]
  <2>5. r \in BalloonRec /\ r.idx \in Inodes /\ b' = [b EXCEPT ![k] = r]
    BY <1>1, <1>4, <2>1 DEF BalloonSearch, BalloonRec, BalloonSteps
  <2>6. BalloonTypeOK' /\ BalloonOK'
    BY <1>1, <2>5, BalloonMoves
  <2>8. SharedTypeOK'
    BY <1>1, <1>4
       DEF BalloonSearch, SharedTypeOK, shared, inodeTable, queues, indices, counts,
           storage
  <2>. QED BY <2>6, <2>8
<1>5. CASE BalloonTryLock(k)
  <2>1. node' \in [Volumes -> [Lbns -> Nodes]]
    <3>1. node' = node \/ node' = [node EXCEPT ![b[k].vol][b[k].lbn].mutex = TRUE]
      BY <1>5 DEF BalloonTryLock
    <3>2. node \in [Volumes -> [Lbns -> Nodes]]
      BY <1>1 DEF SharedTypeOK
    <3>3. /\ [node EXCEPT ![b[k].vol][b[k].lbn].mutex = TRUE] \in [Volumes -> [Lbns -> Nodes]]
          /\ [node EXCEPT ![b[k].vol][b[k].lbn].mutex = FALSE] \in [Volumes -> [Lbns -> Nodes]]
      BY <1>1, NodeType
    <3>. QED BY <3>1, <3>2, <3>3
  <2>. DEFINE r == [b[k] EXCEPT !.pc = "check"]
  <2>2. r \in BalloonRec /\ r.idx \in Inodes
    BY <1>1, <1>5 DEF BalloonTryLock, BalloonRec, BalloonSteps
  <2>3. b' = [b EXCEPT ![k] = r] \/ b' = [b EXCEPT ![k] = BalloonIdle]
    BY <1>1, <1>5 DEF BalloonTryLock
  <2>. HIDE DEF r
  <2>6. BalloonTypeOK' /\ BalloonOK'
    BY <1>0, <1>1, <2>2, <2>3, BalloonMoves
  <2>8. SharedTypeOK'
    BY <1>1, <1>5, <2>1
       DEF BalloonTryLock, SharedTypeOK, shared, inodeTable, queues, indices, counts,
           storage
  <2>. QED BY <2>6, <2>8
<1>6. CASE BalloonCheck(k)
  <2>1. node' \in [Volumes -> [Lbns -> Nodes]]
    <3>1. node' = node \/ node' = [node EXCEPT ![b[k].vol][b[k].lbn].mutex = FALSE]
      BY <1>6 DEF BalloonCheck
    <3>2. node \in [Volumes -> [Lbns -> Nodes]]
      BY <1>1 DEF SharedTypeOK
    <3>3. /\ [node EXCEPT ![b[k].vol][b[k].lbn].mutex = TRUE] \in [Volumes -> [Lbns -> Nodes]]
          /\ [node EXCEPT ![b[k].vol][b[k].lbn].mutex = FALSE] \in [Volumes -> [Lbns -> Nodes]]
      BY <1>1, NodeType
    <3>. QED BY <3>1, <3>2, <3>3
  <2>. DEFINE r == [b[k] EXCEPT !.pc = "fault"]
  <2>. DEFINE q == [b[k] EXCEPT !.pc = "delete"]
  <2>2. /\ r \in BalloonRec /\ r.idx \in Inodes
        /\ q \in BalloonRec /\ q.idx \in Inodes
    BY <1>1, <1>6 DEF BalloonCheck, BalloonRec, BalloonSteps
  <2>3. \/ b' = [b EXCEPT ![k] = r] \/ b' = [b EXCEPT ![k] = q]
        \/ b' = [b EXCEPT ![k] = BalloonIdle]
    BY <1>1, <1>6 DEF BalloonCheck
  <2>. HIDE DEF r, q
  <2>6. BalloonTypeOK' /\ BalloonOK'
    BY <1>0, <1>1, <2>2, <2>3, BalloonMoves
  <2>8. SharedTypeOK'
    BY <1>1, <1>6, <2>1
       DEF BalloonCheck, SharedTypeOK, shared, inodeTable, queues, indices, counts,
           storage
  <2>. QED BY <2>6, <2>8
<1>7. CASE BalloonDelete(k)
  <2>1. node' \in [Volumes -> [Lbns -> Nodes]]
    <3>1. node' = [node EXCEPT ![b[k].vol][b[k].lbn] = logical_delete_hash_node(HashNode(k))]
      BY <1>1, <1>7 DEF BalloonDelete, HashNode, SharedTypeOK
    <3>2. HashNode(k) \in Nodes
      BY <1>1, NodeType DEF HashNode
    <3>3. 0 \in Inodes
      BY DEF Inodes
    <3>4. logical_delete_hash_node(HashNode(k)) \in Nodes
      BY <3>2, <3>3, NodeOperations
    <3>. QED BY <1>1, <3>1, <3>4, NodeType
  <2>. DEFINE r == [b[k] EXCEPT !.pc = "free"]
  <2>5. r \in BalloonRec /\ r.idx \in Inodes /\ b' = [b EXCEPT ![k] = r]
    BY <1>1, <1>7 DEF BalloonDelete, BalloonRec, BalloonSteps
  <2>6. BalloonTypeOK' /\ BalloonOK'
    BY <1>1, <2>5, BalloonMoves
  <2>8. SharedTypeOK'
    BY <1>1, <1>7, <2>1
       DEF BalloonDelete, SharedTypeOK, shared, inodeTable, queues, indices, counts,
           storage
  <2>. QED BY <2>6, <2>8
<1>8. CASE BalloonFree(k)
  <2>1. inode_free_count' \in Int /\ b[k].idx \in Inodes
    BY <1>1, <1>8 DEF BalloonFree, SharedTypeOK
  <2>. DEFINE r == [b[k] EXCEPT !.pc = "enqueue"]
  <2>5. r \in BalloonRec /\ r.idx \in Inodes /\ b' = [b EXCEPT ![k] = r]
    BY <1>1, <1>8 DEF BalloonFree, BalloonRec, BalloonSteps
  <2>6. BalloonTypeOK' /\ BalloonOK'
    BY <1>1, <2>5, BalloonMoves
  <2>8. SharedTypeOK'
    BY <1>1, <1>8, <2>1
       DEF BalloonFree, States, SharedTypeOK, shared, inodeTable, queues, indices, counts,
           storage
  <2>. QED BY <2>6, <2>8
<1>9. CASE BalloonEnqueue(k)
  <2>1. freeq' \in [0 .. NumFree - 1 -> Seq(Inodes)] /\ free_enqueue_idx' \in 0 .. NumFree - 1
    <3>1. /\ freeq \in [0 .. NumFree - 1 -> Seq(Inodes)] /\ free_enqueue_idx \in 0 .. NumFree - 1
          /\ freeq' = Enqueue(freeq, free_enqueue_idx, b[k].idx)
          /\ free_enqueue_idx' = Advance(free_enqueue_idx, NumFree)
      BY <1>1, <1>9 DEF BalloonEnqueue, SharedTypeOK
    <3>2. b[k].idx \in Inodes
      BY <1>1, <1>9 DEF BalloonEnqueue
    <3>. QED BY <3>1, <3>2, QueueTypes, AdvanceType
  <2>. DEFINE r == [b[k] EXCEPT !.pc = "unlock"]
  <2>5. r \in BalloonRec /\ r.idx \in Inodes /\ b' = [b EXCEPT ![k] = r]
    BY <1>1, <1>9 DEF BalloonEnqueue, BalloonRec, BalloonSteps
  <2>6. BalloonTypeOK' /\ BalloonOK'
    BY <1>1, <2>5, BalloonMoves
  <2>8. SharedTypeOK'
    BY <1>1, <1>9, <2>1
       DEF BalloonEnqueue, SharedTypeOK, shared, inodeTable, queues, indices, counts,
           storage
  <2>. QED BY <2>6, <2>8
<1>10. CASE BalloonUnlock(k)
  <2>1. node' \in [Volumes -> [Lbns -> Nodes]]
    <3>1. node' = [node EXCEPT ![b[k].vol][b[k].lbn].mutex = FALSE]
      BY <1>10 DEF BalloonUnlock
    <3>2. node \in [Volumes -> [Lbns -> Nodes]]
      BY <1>1 DEF SharedTypeOK
    <3>3. /\ [node EXCEPT ![b[k].vol][b[k].lbn].mutex = TRUE] \in [Volumes -> [Lbns -> Nodes]]
          /\ [node EXCEPT ![b[k].vol][b[k].lbn].mutex = FALSE] \in [Volumes -> [Lbns -> Nodes]]
      BY <1>1, NodeType
    <3>. QED BY <3>1, <3>2, <3>3
  <2>6. BalloonTypeOK' /\ BalloonOK'
    BY <1>0, <1>1, <1>10, BalloonMoves DEF BalloonUnlock
  <2>8. SharedTypeOK'
    BY <1>1, <1>10, <2>1
       DEF BalloonUnlock, SharedTypeOK, shared, inodeTable, queues, indices, counts,
           storage
  <2>. QED BY <2>6, <2>8
<1>. QED
  BY <1>2, <1>3, <1>4, <1>5, <1>6, <1>7, <1>8, <1>9, <1>10 DEF BalloonStep

(***************************************************************************)
(* The system                                                              *)
(***************************************************************************)
LEMMA TypeInit == Init => TypeInv
<1>. USE Sizes
<1>. SUFFICES ASSUME Init PROVE TypeInv
  OBVIOUS
<1>0. NumFlushers \in Nat \ {0}
  BY SizeAssumption DEF SizeAssumption
<1>1. /\ 0 \in Volumes /\ 0 \in Lbns /\ 0 \in Blocks /\ 0 \in Syncers /\ 0 \in Balloons
      /\ 0 \in 0 .. NumFree - 1 /\ "FREE" \in States /\ Blank \in Contents
      /\ \A i \in Inodes : i \in Blocks
      /\ \A v \in Volumes : NumInodes + v \in Blocks
  BY DEF Volumes, Lbns, Blocks, Syncers, Balloons, States, Contents, Inodes
<1>2. SharedTypeOK
  <2>1. NoNode \in Nodes
    BY DEF NoNode, Nodes
  <2>2. freeq \in [0 .. NumFree - 1 -> Seq(Inodes)]
    BY InitialFreeType DEF Init, InitShared, InitQueues
  <2>3. inuseq \in Seq(Volumes)
    <3>1. ASSUME NEW n \in 1 .. NumVolumes PROVE n - 1 \in Volumes
      BY DEF Volumes
    <3>. QED BY <3>1 DEF Init, InitShared, InitQueues
  <2>4. /\ dirtyq \in [Volumes -> Seq(Inodes)] /\ syncq \in [Syncers -> Seq(Inodes)]
        /\ cleanq \in [Balloons -> Seq(Inodes)]
    BY EmptySeq DEF Init, InitShared, InitQueues
  <2>5. /\ istate \in [Inodes -> States] /\ ilbn \in [Inodes -> Lbns]
        /\ ivol \in [Inodes -> Volumes] /\ iblock \in [Inodes -> Blocks]
        /\ ilock \in [Inodes -> BOOLEAN] /\ vblock \in [Volumes -> Blocks]
        /\ data \in [Blocks -> Contents] /\ node \in [Volumes -> [Lbns -> Nodes]]
    BY <1>1, <2>1 DEF Init, InitShared, InitTables
  <2>6. /\ free_enqueue_idx \in 0 .. NumFree - 1 /\ free_dequeue_idx \in 0 .. NumFree - 1
        /\ sync_queue_idx \in Syncers /\ clean_queue_idx \in Balloons
        /\ inode_free_count \in Int /\ inode_dirty_count \in Int
    BY <1>1 DEF Init, InitShared, InitQueues
  <2>7. file \in [Volumes -> [Lbns -> Contents]] /\ disk \in [Volumes -> [Lbns -> Contents]]
    BY <1>1 DEF Init, InitShared
  <2>. QED BY <2>2, <2>3, <2>4, <2>5, <2>6, <2>7 DEF SharedTypeOK
<1>3. WriterTypeOK /\ WriterOK
  <2>1. Idle \in WriterRec /\ Idle.pc = "idle" /\ Idle.lbn = 0 /\ Idle.lbn_end = 0
    BY <1>1 DEF Idle, WriterRec, WriterSteps
  <2>2. w \in [Volumes -> WriterRec] /\ \A v \in Volumes : w[v] = Idle
    BY <2>1 DEF Init, InitWriter
  <2>3. /\ acked \in [Volumes -> [Lbns -> 0 .. MaxWrites]] /\ budget \in [Volumes -> 0 .. MaxWrites]
        /\ \A v \in Volumes : budget[v] = MaxWrites /\ \A l \in Lbns : acked[v][l] = 0
    BY DEF Init, InitWriter
  <2>4. WriterTypeOK
    BY <2>2, <2>3 DEF WriterTypeOK, WriterRec
  <2>. QED BY <2>1, <2>2, <2>3, <2>4 DEF WriterOK, ToWrite, HasInode
<1>4. FlushTypeOK /\ FlusherOK
  <2>1. FlusherIdle \in FlusherRec /\ FlusherIdle.pc = "idle"
    BY <1>1, EmptySeq DEF FlusherIdle, FlusherRec, FlusherSteps
  <2>. QED BY <2>1 DEF Init, InitFlush, FlushTypeOK, FlusherRec, FlusherOK
<1>5. SyncTypeOK /\ SyncerOK
  <2>1. SyncerIdle \in SyncerRec /\ SyncerIdle.pc = "idle"
    BY DEF SyncerIdle, SyncerRec, SyncerSteps
  <2>. QED BY <2>1 DEF Init, InitSync, SyncTypeOK, SyncerRec, SyncerOK
<1>6. BalloonTypeOK /\ BalloonOK
  <2>1. BalloonIdle \in BalloonRec /\ BalloonIdle.pc = "idle"
    BY <1>1 DEF BalloonIdle, BalloonRec, BalloonSteps
  <2>. QED BY <2>1 DEF Init, InitBalloon, BalloonTypeOK, BalloonRec, BalloonOK
<1>. QED BY <1>2, <1>3, <1>4, <1>5, <1>6 DEF TypeInv, TypeOK

LEMMA TypeStep == TypeInv /\ [Next]_vars => TypeInv'
<1>. SUFFICES ASSUME TypeInv, [Next]_vars PROVE TypeInv'
  OBVIOUS
<1>1. ASSUME NEW v \in Volumes, Writer(v) PROVE TypeInv'
  <2>1. UNCHANGED <<f, s, b>>
    BY <1>1 DEF Writer
  <2>2. FlushTypeOK' /\ FlusherOK' /\ SyncTypeOK' /\ SyncerOK' /\ BalloonTypeOK' /\ BalloonOK'
    BY <2>1 DEF TypeInv, TypeOK, FlushTypeOK, FlusherOK, SyncTypeOK, SyncerOK, BalloonTypeOK,
                BalloonOK
  <2>3. SharedTypeOK' /\ WriterTypeOK' /\ WriterOK'
    <3>1. CASE WriteStep(v)
      BY <3>1, WriteStepTypes
    <3>2. CASE Call(v)
      <4>1. PICK first, last \in Lbns : WriteStart(v, first, last)
        BY <3>2 DEF Call
      <4>2. WriterTypeOK' /\ WriterOK'
        BY <4>1, WriteStartTypes
      <4>3. UNCHANGED shared
        BY <4>1 DEF WriteStart
      <4>4. SharedTypeOK'
        BY <4>3 DEF TypeInv, TypeOK, SharedTypeOK, shared, inodeTable, queues, indices, counts,
                    storage
      <4>. QED BY <4>2, <4>4
    <3>. QED BY <1>1, <3>1, <3>2 DEF Writer
  <2>. QED BY <2>2, <2>3 DEF TypeInv, TypeOK
<1>2. ASSUME NEW t \in Flushers, Flusher(t) PROVE TypeInv'
  <2>1. UNCHANGED <<writerVars, s, b>>
    BY <1>2 DEF Flusher
  <2>2. WriterTypeOK' /\ WriterOK' /\ SyncTypeOK' /\ SyncerOK' /\ BalloonTypeOK' /\ BalloonOK'
    BY <2>1
       DEF TypeInv, TypeOK, writerVars, WriterTypeOK, WriterOK, ToWrite, SyncTypeOK, SyncerOK,

                BalloonTypeOK, BalloonOK
  <2>3. SharedTypeOK' /\ FlushTypeOK' /\ FlusherOK'
    BY <1>2, FlushStepTypes DEF Flusher
  <2>. QED BY <2>2, <2>3 DEF TypeInv, TypeOK
<1>3. ASSUME NEW k \in Syncers, Syncer(k) PROVE TypeInv'
  <2>1. UNCHANGED <<writerVars, f, b>>
    BY <1>3 DEF Syncer
  <2>2. WriterTypeOK' /\ WriterOK' /\ FlushTypeOK' /\ FlusherOK' /\ BalloonTypeOK' /\ BalloonOK'
    BY <2>1 DEF TypeInv, TypeOK, writerVars, WriterTypeOK, WriterOK, ToWrite, FlushTypeOK,
                FlusherOK, BalloonTypeOK, BalloonOK
  <2>3. SharedTypeOK' /\ SyncTypeOK' /\ SyncerOK'
    BY <1>3, SyncStepTypes DEF Syncer
  <2>. QED BY <2>2, <2>3 DEF TypeInv, TypeOK
<1>4. ASSUME NEW k \in Balloons, BalloonThread(k) PROVE TypeInv'
  <2>1. UNCHANGED <<writerVars, f, s>>
    BY <1>4 DEF BalloonThread
  <2>2. WriterTypeOK' /\ WriterOK' /\ FlushTypeOK' /\ FlusherOK' /\ SyncTypeOK' /\ SyncerOK'
    BY <2>1 DEF TypeInv, TypeOK, writerVars, WriterTypeOK, WriterOK, ToWrite, FlushTypeOK,
                FlusherOK, SyncTypeOK, SyncerOK
  <2>3. SharedTypeOK' /\ BalloonTypeOK' /\ BalloonOK'
    BY <1>4, BalloonStepTypes DEF BalloonThread
  <2>. QED BY <2>2, <2>3 DEF TypeInv, TypeOK
<1>5. CASE UNCHANGED vars
  BY <1>5 DEF vars, shared, inodeTable, queues, indices, counts, storage, writerVars, TypeInv,
              TypeOK, SharedTypeOK, WriterTypeOK, WriterOK, ToWrite, FlushTypeOK, FlusherOK,
              SyncTypeOK, SyncerOK, BalloonTypeOK, BalloonOK
<1>. QED BY <1>1, <1>2, <1>3, <1>4, <1>5 DEF Next

\* Every variable of the burst buffer keeps its type, for any number of
\* inodes, volumes, threads and queues: no thread uses the null inode index
\* where it needs an inode, no batch is empty when it is written
\* (nvm0flush.cc 75-130), and every index stays inside its table.
THEOREM TypesHold == Spec => []TypeOK
<1>1. Spec => []TypeInv
  BY TypeInit, TypeStep, PTL DEF Spec
<1>2. TypeInv => TypeOK
  BY DEF TypeInv
<1>. QED BY <1>1, <1>2, PTL

(***************************************************************************)
(* The counters.  The number of entries in a family of queues grows and    *)
(* shrinks by one with an enqueue or a dequeue, and so does the number of  *)
(* threads at a step when one comes or goes.                               *)
(***************************************************************************)
LEMMA Indices ==
    ASSUME NEW n \in Nat, NEW T \in SUBSET (0 .. n - 1)
    PROVE  IsFiniteSet(T) /\ Cardinality(T) \in Nat
<1>1. 0 \in Int /\ n - 1 \in Int
  OBVIOUS
<1>2. IsFiniteSet(0 .. n - 1)
  BY <1>1, FS_Interval, Zenon
<1>3. IsFiniteSet(T)
  BY <1>2, FS_Subset, Zenon
<1>. QED BY <1>3, FS_CardinalityType, Zenon

\* One more element.
LEMMA OneMore ==
    ASSUME NEW T, NEW T2, IsFiniteSet(T), NEW x, x \notin T, T2 = T \cup {x}
    PROVE  /\ Cardinality(T) \in Nat
           /\ Cardinality(T2) = Cardinality(T) + 1
<1>1. Cardinality(T) \in Nat
  BY FS_CardinalityType, Zenon
<1>2. Cardinality(T \cup {x}) = IF x \in T THEN Cardinality(T) ELSE Cardinality(T) + 1
  BY FS_AddElement, Zenon
<1>. QED BY <1>1, <1>2, Zenon

\* A family of n queues.
Family(q, n) == DOMAIN q = 0 .. n - 1 /\ \A k \in 0 .. n - 1 : Len(q[k]) \in Nat

\* The places of the queues q[0], ... , q[n - 1].
Places(q) == UNION {{k} \X (1 .. Len(q[k])) : k \in DOMAIN q}

LEMMA InPlaces ==
    \A q, p : p \in Places(q) <=> \E k \in DOMAIN q : \E m \in 1 .. Len(q[k]) : p = <<k, m>>
BY DEF Places

LEMMA PlacesFinite ==
    ASSUME NEW n \in Nat, NEW q, Family(q, n)
    PROVE  IsFiniteSet(Places(q)) /\ Total(q) = Cardinality(Places(q)) /\ Total(q) \in Nat
<1>. DEFINE D == 0 .. n - 1
            column == [k \in D |-> {k} \X (1 .. Len(q[k]))]
            Columns == {column[k] : k \in D}
<1>1. IsFiniteSet(D)
  BY Indices
<1>2. IsFiniteSet(Columns)
  <2>1. column \in Surjection(D, Columns)
    BY DEF Surjection
  <2>. HIDE DEF column, Columns, D
  <2>. QED BY <1>1, <2>1, FS_Surjection, Zenon
<1>3. ASSUME NEW T \in Columns PROVE IsFiniteSet(T)
  <2>1. PICK k \in D : T = {k} \X (1 .. Len(q[k]))
    OBVIOUS
  <2>2. Len(q[k]) \in Int /\ 1 \in Int
    BY DEF Family
  <2>3. IsFiniteSet(1 .. Len(q[k])) /\ IsFiniteSet({k})
    BY <2>2, FS_Interval, FS_Singleton, Zenon
  <2>. QED BY <2>1, <2>3, FS_Product, Zenon
<1>4. UNION Columns = Places(q)
  BY DEF Places, Family
<1>5. IsFiniteSet(Places(q))
  <2>1. IsFiniteSet(UNION Columns)
    <3>. HIDE DEF Columns
    <3>. QED BY <1>2, <1>3, FS_UNION, Zenon
  <2>. QED BY <1>4, <2>1, Zenon
<1>6. Total(q) = Cardinality(Places(q))
  BY DEF Total, Places
<1>. QED BY <1>5, <1>6, FS_CardinalityType, Zenon

LEMMA TotalGrows ==
    ASSUME NEW n \in Nat, NEW q, Family(q, n), NEW q2, Family(q2, n), NEW k \in 0 .. n - 1,
           Len(q2[k]) = Len(q[k]) + 1, \A j \in 0 .. n - 1 : j # k => q2[j] = q[j]
    PROVE  Total(q) \in Nat /\ Total(q2) = Total(q) + 1
<1>. DEFINE p == <<k, Len(q[k]) + 1>>
<1>1. Len(q[k]) \in Nat /\ DOMAIN q = 0 .. n - 1 /\ DOMAIN q2 = 0 .. n - 1
  BY DEF Family
<1>2. p \notin Places(q)
  <2>1. \A m \in 1 .. Len(q[k]) : m # Len(q[k]) + 1
    BY <1>1
  <2>. QED BY <2>1, InPlaces
<1>3. Places(q2) = Places(q) \cup {p}
  <2>1. Len(q[k]) + 1 \in 1 .. Len(q2[k])
    BY <1>1
  <2>2. 1 .. Len(q2[k]) = (1 .. Len(q[k])) \cup {Len(q[k]) + 1}
    BY <1>1
  <2>3. ASSUME NEW x \in Places(q2) PROVE x \in Places(q) \cup {p}
    <3>1. PICK j \in 0 .. n - 1 : \E m \in 1 .. Len(q2[j]) : x = <<j, m>>
      BY <1>1, <2>3, InPlaces
    <3>2. PICK m \in 1 .. Len(q2[j]) : x = <<j, m>>
      BY <3>1
    <3>3. CASE j = k
      BY <1>1, <2>2, <3>2, <3>3, InPlaces
    <3>4. CASE j # k
      BY <1>1, <3>2, <3>4, InPlaces
    <3>. QED BY <3>3, <3>4
  <2>4. ASSUME NEW x \in Places(q) PROVE x \in Places(q2)
    <3>1. PICK j \in 0 .. n - 1 : \E m \in 1 .. Len(q[j]) : x = <<j, m>>
      BY <1>1, <2>4, InPlaces
    <3>2. PICK m \in 1 .. Len(q[j]) : x = <<j, m>>
      BY <3>1
    <3>3. m \in 1 .. Len(q2[j])
      <4>1. CASE j = k
        BY <2>2, <4>1
      <4>2. CASE j # k
        BY <4>2
      <4>. QED BY <4>1, <4>2
    <3>. QED BY <1>1, <3>2, <3>3, InPlaces
  <2>5. p \in Places(q2)
    BY <1>1, <2>1, InPlaces
  <2>. HIDE DEF p
  <2>. QED BY <2>3, <2>4, <2>5
<1>. HIDE DEF p
<1>4. IsFiniteSet(Places(q))
  BY PlacesFinite
<1>5. Cardinality(Places(q)) \in Nat /\ Cardinality(Places(q2)) = Cardinality(Places(q)) + 1
  BY <1>2, <1>3, <1>4, OneMore, Zenon
<1>6. Total(q) = Cardinality(Places(q)) /\ Total(q2) = Cardinality(Places(q2))
  BY PlacesFinite
<1>. QED BY <1>5, <1>6

LEMMA FamilyType ==
    ASSUME NEW n \in Nat, NEW S, NEW q \in [0 .. n - 1 -> Seq(S)]
    PROVE  Family(q, n)
BY DEF Family

\* An enqueue adds one entry, a dequeue takes one away.
LEMMA EnqueueTotal ==
    ASSUME NEW n \in Nat, NEW S, NEW q \in [0 .. n - 1 -> Seq(S)], NEW k \in 0 .. n - 1,
           NEW x \in S
    PROVE  Total(Enqueue(q, k, x)) = Total(q) + 1
<1>. DEFINE q2 == Enqueue(q, k, x)
<1>1. q[k] \in Seq(S) /\ Family(q, n)
  BY FamilyType
<1>2. q2 \in [0 .. n - 1 -> Seq(S)]
  BY QueueTypes
<1>3. q2[k] = Append(q[k], x) /\ \A j \in 0 .. n - 1 : j # k => q2[j] = q[j]
  BY DEF Enqueue
<1>4. Len(q2[k]) = Len(q[k]) + 1
  BY <1>1, <1>3, AppendProperties
<1>. HIDE DEF q2
<1>5. Family(q2, n)
  BY <1>2, FamilyType
<1>6. Total(q2) = Total(q) + 1
  BY <1>1, <1>3, <1>4, <1>5, TotalGrows
<1>. QED BY <1>6 DEF q2

LEMMA DequeueTotal ==
    ASSUME NEW n \in Nat, NEW S, NEW q \in [0 .. n - 1 -> Seq(S)], NEW k \in 0 .. n - 1,
           q[k] # <<>>
    PROVE  Total(q) = Total(Dequeue(q, k)) + 1 /\ Total(Dequeue(q, k)) \in Nat
<1>. DEFINE q2 == Dequeue(q, k)
<1>1. q[k] \in Seq(S) /\ Family(q, n)
  BY FamilyType
<1>2. q2 \in [0 .. n - 1 -> Seq(S)]
  BY QueueTypes
<1>3. q2[k] = Tail(q[k]) /\ \A j \in 0 .. n - 1 : j # k => q[j] = q2[j]
  BY DEF Dequeue
<1>4. Len(q[k]) = Len(q2[k]) + 1
  <2>1. Len(q[k]) \in Nat /\ Len(Tail(q[k])) = Len(q[k]) - 1
    BY <1>1, HeadTailProperties
  <2>. QED BY <1>3, <2>1
<1>. HIDE DEF q2
<1>5. Family(q2, n)
  BY <1>2, FamilyType
<1>6. Total(q) = Total(q2) + 1 /\ Total(q2) \in Nat
  BY <1>1, <1>3, <1>4, <1>5, TotalGrows
<1>. QED BY <1>6 DEF q2

\* The threads that hold an inode the queues do not: writers that have taken a
\* free inode, balloons that are about to return one, writers that have
\* counted a dirty inode, flushers whose trylock failed.
Withdrawn == {v \in Volumes : At(v, "assign")}
Returning == {k \in Balloons : b[k].pc = "enqueue"}
Counted == {v \in Volumes : At(v, "enqueue_dirty")}
Failing == {t \in Flushers : f[t].failed # NoInode}

FreeCounted == inode_free_count = Total(freeq) + Cardinality(Returning) + Cardinality(Withdrawn)

DirtyCounted ==
    inode_dirty_count =
        Total(dirtyq) + Cardinality(Counted) + Total(Batches) + Cardinality(Failing)

\* A flusher has a failed inode only where it puts it back, and a batch only
\* from the loop that collects it to the loop that hands it off.
FlusherHolds ==
    \A t \in Flushers :
        /\ f[t].failed # NoInode <=> f[t].pc = "requeue"
        /\ f[t].pc \notin {"collect", "requeue", "write", "hand_off"} => f[t].batch = <<>>

CountersInv == FreeCounted /\ DirtyCounted /\ FlusherHolds

LEMMA CountersFollow == CountersInv => CountersMatchQueues
BY DEF CountersInv, FreeCounted, DirtyCounted, CountersMatchQueues, Returning, Withdrawn, Counted,
       Failing

LEMMA CountTypes ==
    ASSUME TypeInv
    PROVE  /\ Total(freeq) \in Nat /\ Total(dirtyq) \in Nat /\ Total(Batches) \in Nat
           /\ inode_free_count \in Int /\ inode_dirty_count \in Int
           /\ IsFiniteSet(Withdrawn) /\ Cardinality(Withdrawn) \in Nat
           /\ IsFiniteSet(Returning) /\ Cardinality(Returning) \in Nat
           /\ IsFiniteSet(Counted) /\ Cardinality(Counted) \in Nat
           /\ IsFiniteSet(Failing) /\ Cardinality(Failing) \in Nat
           /\ Batches \in [Flushers -> Seq(Inodes)]
<1>. USE Sizes
<1>1. /\ NumFlushers \in Nat /\ NumBalloons \in Nat /\ NumVolumes \in Nat /\ NumFree \in Nat
  BY SizeAssumption DEF SizeAssumption
<1>2. /\ freeq \in [0 .. NumFree - 1 -> Seq(Inodes)] /\ dirtyq \in [Volumes -> Seq(Inodes)]
      /\ inode_free_count \in Int /\ inode_dirty_count \in Int
  BY DEF TypeInv, TypeOK, SharedTypeOK
<1>3. Batches \in [Flushers -> Seq(Inodes)]
  BY DEF TypeInv, TypeOK, FlushTypeOK, Batches
<1>4. Total(freeq) \in Nat
  BY <1>1, <1>2, FamilyType, PlacesFinite
<1>5. Total(dirtyq) \in Nat
  BY <1>1, <1>2, FamilyType, PlacesFinite DEF Volumes
<1>6. Total(Batches) \in Nat
  BY <1>1, <1>3, FamilyType, PlacesFinite DEF Flushers
<1>7. Withdrawn \in SUBSET Volumes /\ Returning \in SUBSET Balloons /\ Counted \in SUBSET Volumes
      /\ Failing \in SUBSET Flushers
  BY DEF Withdrawn, Returning, Counted, Failing
<1>8. IsFiniteSet(Withdrawn) /\ Cardinality(Withdrawn) \in Nat
  BY <1>1, <1>7, Indices DEF Volumes
<1>9. IsFiniteSet(Returning) /\ Cardinality(Returning) \in Nat
  BY <1>1, <1>7, Indices DEF Balloons
<1>10. IsFiniteSet(Counted) /\ Cardinality(Counted) \in Nat
  BY <1>1, <1>7, Indices DEF Volumes
<1>11. IsFiniteSet(Failing) /\ Cardinality(Failing) \in Nat
  BY <1>1, <1>7, Indices DEF Flushers
<1>. QED BY <1>2, <1>3, <1>4, <1>5, <1>6, <1>8, <1>9, <1>10, <1>11

\* The dirty queue of one volume gains or loses an inode.
LEMMA DirtyTotal ==
    ASSUME TypeInv, NEW v \in Volumes
    PROVE  /\ \A i \in Inodes : Total(Enqueue(dirtyq, v, i)) = Total(dirtyq) + 1
           /\ dirtyq[v] # <<>> =>
                 Total(dirtyq) = Total(Dequeue(dirtyq, v)) + 1 /\ Total(Dequeue(dirtyq, v)) \in Nat
<1>1. NumVolumes \in Nat /\ Volumes = 0 .. NumVolumes - 1
  BY Sizes DEF Volumes
<1>2. dirtyq \in [0 .. NumVolumes - 1 -> Seq(Inodes)] /\ v \in 0 .. NumVolumes - 1
  BY <1>1 DEF TypeInv, TypeOK, SharedTypeOK
<1>3. ASSUME NEW i \in Inodes PROVE Total(Enqueue(dirtyq, v, i)) = Total(dirtyq) + 1
  BY <1>1, <1>2, <1>3, EnqueueTotal
<1>4. ASSUME dirtyq[v] # <<>>
      PROVE  Total(dirtyq) = Total(Dequeue(dirtyq, v)) + 1 /\ Total(Dequeue(dirtyq, v)) \in Nat
  BY <1>1, <1>2, <1>4, DequeueTotal
<1>. QED BY <1>3, <1>4

\* Where writer v goes, and nobody else.
LEMMA WithdrawnMoves ==
    ASSUME NEW v \in Volumes, \A u \in Volumes : u # v => w'[u] = w[u]
    PROVE  /\ Withdrawn' = IF w'[v].pc = "assign" THEN Withdrawn \cup {v} ELSE Withdrawn \ {v}
           /\ Counted' = IF w'[v].pc = "enqueue_dirty" THEN Counted \cup {v} ELSE Counted \ {v}
           /\ v \in Withdrawn <=> w[v].pc = "assign"
           /\ v \in Counted <=> w[v].pc = "enqueue_dirty"
BY DEF Withdrawn, Counted, At

\* A step that touches no queue, no counter and no inode in transit.
LEMMA NothingCounted ==
    ASSUME FreeCounted, DirtyCounted, UNCHANGED <<freeq, dirtyq, counts>>,
           Withdrawn' = Withdrawn, Returning' = Returning, Counted' = Counted, Failing' = Failing,
           Batches' = Batches
    PROVE  FreeCounted' /\ DirtyCounted'
BY DEF FreeCounted, DirtyCounted, counts

\* One writer moves at a time.
LEMMA OneWriterMoves ==
    ASSUME TypeInv, NEW v \in Volumes, WriteStep(v) \/ Call(v)
    PROVE  \A u \in Volumes : u # v => w'[u] = w[u]
<1>1. w \in [Volumes -> WriterRec]
  BY DEF TypeInv, TypeOK, WriterTypeOK, WriterRec
<1>2. CASE SearchNode(v) \/ FreeCheck(v) \/ TakeTicket(v) \/ DequeueFree(v) \/ AssignInode(v)
  BY <1>1, <1>2 DEF SearchNode, FreeCheck, TakeTicket, DequeueFree, AssignInode
<1>3. CASE InsertNode(v) \/ LockNewNode(v) \/ LockNode(v) \/ RecheckNode(v) \/ LockInode(v)
  BY <1>1, <1>3 DEF InsertNode, LockNewNode, LockNode, RecheckNode, LockInode
<1>4. CASE SetDirty(v) \/ CopyToOwnerless(v) \/ SwapVolumeBlock(v) \/ SwapInodeBlock(v)
  BY <1>1, <1>4 DEF SetDirty, CopyToOwnerless, SwapVolumeBlock, SwapInodeBlock
<1>5. CASE CountDirty(v) \/ EnqueueDirty(v) \/ UnlockInode(v) \/ UnlockNode(v)
  BY <1>1, <1>5 DEF CountDirty, EnqueueDirty, UnlockInode, UnlockNode
<1>6. CASE Call(v)
  BY <1>1, <1>6 DEF Call, WriteStart
<1>. QED BY <1>2, <1>3, <1>4, <1>5, <1>6 DEF WriteStep

LEMMA WriterCounts ==
    ASSUME TypeInv, CountersInv, NEW v \in Volumes, WriteStep(v) \/ Call(v), UNCHANGED <<f, s, b>>
    PROVE  CountersInv'
<1>. USE Sizes
<1>1. w \in [Volumes -> WriterRec] /\ (w[v].pc \in HasInode => w[v].idx \in Inodes)
  BY DEF TypeInv, TypeOK, WriterTypeOK, WriterRec, WriterOK
<1>2. Returning' = Returning /\ Failing' = Failing /\ Batches' = Batches /\ FlusherHolds'
  BY DEF Returning, Failing, Batches, CountersInv, FlusherHolds
<1>3. /\ Withdrawn' = IF w'[v].pc = "assign" THEN Withdrawn \cup {v} ELSE Withdrawn \ {v}
      /\ Counted' = IF w'[v].pc = "enqueue_dirty" THEN Counted \cup {v} ELSE Counted \ {v}
      /\ v \in Withdrawn <=> w[v].pc = "assign"
      /\ v \in Counted <=> w[v].pc = "enqueue_dirty"
  BY OneWriterMoves, WithdrawnMoves
<1>4. IsFiniteSet(Withdrawn) /\ IsFiniteSet(Counted) /\ FreeCounted /\ DirtyCounted
  BY CountTypes DEF CountersInv
<1>5. TypeInv /\ NumFree \in Nat /\ NumVolumes \in Nat
  OBVIOUS
<1>6. CASE DequeueFree(v)
  <2>. DEFINE k == w[v].free_idx
  <2>1. /\ k \in 0 .. NumFree - 1 /\ freeq[k] # <<>> /\ freeq' = Dequeue(freeq, k)
        /\ w[v].pc = "dequeue" /\ w'[v].pc = "assign" /\ UNCHANGED <<dirtyq, counts>>
    BY <1>1, <1>6 DEF DequeueFree, At, WriterRec
  <2>2. freeq \in [0 .. NumFree - 1 -> Seq(Inodes)]
    BY DEF TypeInv, TypeOK, SharedTypeOK
  <2>3. Total(freeq) = Total(freeq') + 1 /\ Total(freeq') \in Nat
    <3>1. Total(freeq) = Total(Dequeue(freeq, k)) + 1 /\ Total(Dequeue(freeq, k)) \in Nat
      <4>. HIDE DEF k
      <4>. QED BY <1>5, <2>1, <2>2, DequeueTotal, Zenon
    <3>. QED BY <2>1, <3>1
  <2>4. Withdrawn' = Withdrawn \cup {v} /\ v \notin Withdrawn /\ Counted' = Counted
    BY <1>3, <2>1
  <2>5. Cardinality(Withdrawn') = Cardinality(Withdrawn) + 1
    BY <1>4, <2>4, OneMore, Zenon
  <2>6. FreeCounted'
    <3>1. inode_free_count' = inode_free_count
      BY <2>1 DEF counts
    <3>2. inode_free_count = Total(freeq) + Cardinality(Returning) + Cardinality(Withdrawn)
      BY <1>4 DEF FreeCounted
    <3>3. Cardinality(Returning) \in Nat /\ Cardinality(Withdrawn) \in Nat
      BY CountTypes
    <3>4. inode_free_count' = Total(freeq') + Cardinality(Returning) + Cardinality(Withdrawn')
      BY <2>3, <2>5, <3>1, <3>2, <3>3
    <3>. QED BY <1>2, <3>4 DEF FreeCounted
  <2>7. DirtyCounted'
    BY <1>2, <1>4, <2>1, <2>4 DEF DirtyCounted, counts
  <2>. QED BY <1>2, <2>6, <2>7 DEF CountersInv
<1>7. CASE AssignInode(v)
  <2>1. /\ inode_free_count' = inode_free_count - 1 /\ w[v].pc = "assign" /\ w'[v].pc = "insert"
        /\ UNCHANGED <<freeq, dirtyq, inode_dirty_count>>
    BY <1>1, <1>7 DEF AssignInode, At, WriterRec, queues
  <2>2. Withdrawn' = Withdrawn \ {v} /\ v \in Withdrawn /\ Counted' = Counted
    BY <1>3, <2>1
  <2>3. Withdrawn = Withdrawn' \cup {v} /\ v \notin Withdrawn' /\ Withdrawn' \in SUBSET Withdrawn
    BY <2>2
  <2>4. IsFiniteSet(Withdrawn')
    BY <1>4, <2>3, FS_Subset, Zenon
  <2>5. Cardinality(Withdrawn) = Cardinality(Withdrawn') + 1 /\ Cardinality(Withdrawn') \in Nat
    BY <2>3, <2>4, OneMore, Zenon
  <2>6. FreeCounted'
    BY <1>2, <1>4, <2>1, <2>5, CountTypes DEF FreeCounted
  <2>7. DirtyCounted'
    BY <1>2, <1>4, <2>1, <2>2 DEF DirtyCounted
  <2>. QED BY <1>2, <2>6, <2>7 DEF CountersInv
<1>8. CASE CountDirty(v)
  <2>1. /\ inode_dirty_count' = inode_dirty_count + 1 /\ w[v].pc = "count_dirty"
        /\ w'[v].pc = "enqueue_dirty" /\ UNCHANGED <<freeq, dirtyq, inode_free_count>>
    BY <1>1, <1>8 DEF CountDirty, At, WriterRec, queues
  <2>2. Counted' = Counted \cup {v} /\ v \notin Counted /\ Withdrawn' = Withdrawn
    BY <1>3, <2>1
  <2>3. Cardinality(Counted') = Cardinality(Counted) + 1
    BY <1>4, <2>2, OneMore, Zenon
  <2>4. FreeCounted'
    BY <1>2, <1>4, <2>1, <2>2 DEF FreeCounted
  <2>5. DirtyCounted'
    BY <1>2, <1>4, <2>1, <2>3, CountTypes DEF DirtyCounted
  <2>. QED BY <1>2, <2>4, <2>5 DEF CountersInv
<1>9. CASE EnqueueDirty(v)
  <2>1. /\ dirtyq' = Enqueue(dirtyq, v, w[v].idx) /\ w[v].pc = "enqueue_dirty"
        /\ w'[v].pc = "unlock_inode" /\ UNCHANGED <<freeq, counts>>
    BY <1>1, <1>9 DEF EnqueueDirty, At, WriterRec
  <2>2. w[v].idx \in Inodes /\ dirtyq \in [Volumes -> Seq(Inodes)]
    BY <1>1, <2>1 DEF HasInode, TypeInv, TypeOK, SharedTypeOK
  <2>3. Total(dirtyq') = Total(dirtyq) + 1
    BY <2>1, <2>2, DirtyTotal
  <2>4. Counted' = Counted \ {v} /\ v \in Counted /\ Withdrawn' = Withdrawn
    BY <1>3, <2>1
  <2>5. Counted = Counted' \cup {v} /\ v \notin Counted' /\ Counted' \in SUBSET Counted
    BY <2>4
  <2>6. IsFiniteSet(Counted')
    BY <1>4, <2>5, FS_Subset, Zenon
  <2>7. Cardinality(Counted) = Cardinality(Counted') + 1 /\ Cardinality(Counted') \in Nat
    BY <2>5, <2>6, OneMore, Zenon
  <2>8. FreeCounted'
    BY <1>2, <1>4, <2>1, <2>4 DEF FreeCounted, counts
  <2>9. DirtyCounted'
    BY <1>2, <1>4, <2>1, <2>3, <2>7, CountTypes DEF DirtyCounted, counts
  <2>. QED BY <1>2, <2>8, <2>9 DEF CountersInv
<1>10. CASE /\ ~ DequeueFree(v) /\ ~ AssignInode(v) /\ ~ CountDirty(v) /\ ~ EnqueueDirty(v)
  <2>1. /\ UNCHANGED <<freeq, dirtyq, counts>>
        /\ w[v].pc \notin {"assign", "enqueue_dirty"} /\ w'[v].pc \notin {"assign", "enqueue_dirty"}
    <3>1. CASE SearchNode(v) \/ FreeCheck(v) \/ TakeTicket(v)
      BY <1>1, <3>1 DEF SearchNode, FreeCheck, TakeTicket, At, WriterRec, shared, queues
    <3>2. CASE InsertNode(v) \/ LockNewNode(v) \/ LockNode(v) \/ RecheckNode(v)
      BY <1>1, <3>2 DEF InsertNode, LockNewNode, LockNode, RecheckNode, At, WriterRec, queues
    <3>3. CASE LockInode(v) \/ SetDirty(v) \/ UnlockInode(v)
      BY <1>1, <3>3 DEF LockInode, SetDirty, UnlockInode, At, WriterRec, queues
    <3>4. CASE CopyToOwnerless(v) \/ SwapVolumeBlock(v) \/ SwapInodeBlock(v)
      BY <1>1, <3>4 DEF CopyToOwnerless, SwapVolumeBlock, SwapInodeBlock, At, WriterRec, queues
    <3>5. CASE UnlockNode(v)
      BY <1>1, <3>5 DEF UnlockNode, At, WriterRec, Idle, queues
    <3>6. CASE Call(v)
      <4>1. PICK first, last \in Lbns : WriteStart(v, first, last)
        BY <3>6 DEF Call
      <4>. QED BY <1>1, <4>1 DEF WriteStart, At, WriterRec, shared, queues
    <3>. QED BY <1>10, <3>1, <3>2, <3>3, <3>4, <3>5, <3>6 DEF WriteStep
  <2>2. Withdrawn' = Withdrawn /\ Counted' = Counted
    BY <1>3, <2>1
  <2>. QED BY <1>2, <1>4, <2>1, <2>2, NothingCounted DEF CountersInv
<1>. QED BY <1>6, <1>7, <1>8, <1>9, <1>10

LEMMA FailingMoves ==
    ASSUME NEW t \in Flushers, \A u \in Flushers : u # t => f'[u] = f[u]
    PROVE  /\ Failing' = IF f'[t].failed # NoInode THEN Failing \cup {t} ELSE Failing \ {t}
           /\ t \in Failing <=> f[t].failed # NoInode
BY DEF Failing

\* The batch of one flusher grows, shrinks or stays.
LEMMA BatchMoves ==
    ASSUME TypeInv, TypeInv', NEW t \in Flushers, \A u \in Flushers : u # t => f'[u] = f[u]
    PROVE  /\ Total(Batches') \in Nat
           /\ f'[t].batch = f[t].batch => Batches' = Batches
           /\ Len(f'[t].batch) = Len(f[t].batch) + 1 => Total(Batches') = Total(Batches) + 1
           /\ Len(f[t].batch) = Len(f'[t].batch) + 1 => Total(Batches) = Total(Batches') + 1
<1>. DEFINE B2 == Batches'
<1>1. NumFlushers \in Nat /\ Flushers = 0 .. NumFlushers - 1
  BY SizeAssumption DEF SizeAssumption, Flushers
<1>2. Batches \in [Flushers -> Seq(Inodes)]
  BY CountTypes
<1>3. B2 \in [Flushers -> Seq(Inodes)]
  BY DEF TypeInv, TypeOK, FlushTypeOK, Batches
<1>4. /\ \A u \in Flushers : Batches[u] = f[u].batch
      /\ \A u \in Flushers : B2[u] = f'[u].batch
  BY DEF Batches
<1>5. \A u \in Flushers : u # t => B2[u] = Batches[u]
  BY <1>4
<1>. HIDE DEF B2
<1>6. Family(Batches, NumFlushers) /\ Family(B2, NumFlushers)
  BY <1>1, <1>2, <1>3, FamilyType
<1>10. Total(B2) \in Nat
  BY <1>1, <1>6, PlacesFinite
<1>7. ASSUME f'[t].batch = f[t].batch PROVE B2 = Batches
  BY <1>2, <1>3, <1>4, <1>5, <1>7
<1>8. ASSUME Len(f'[t].batch) = Len(f[t].batch) + 1 PROVE Total(B2) = Total(Batches) + 1
  <2>1. Len(B2[t]) = Len(Batches[t]) + 1
    BY <1>4, <1>8
  <2>. QED BY <1>1, <1>5, <1>6, <2>1, TotalGrows
<1>9. ASSUME Len(f[t].batch) = Len(f'[t].batch) + 1 PROVE Total(Batches) = Total(B2) + 1
  <2>1. Len(Batches[t]) = Len(B2[t]) + 1
    BY <1>4, <1>9
  <2>. QED BY <1>1, <1>5, <1>6, <2>1, TotalGrows
<1>. QED BY <1>7, <1>8, <1>9, <1>10 DEF B2

LEMMA FlusherCounts ==
    ASSUME TypeInv, TypeInv', CountersInv, NEW t \in Flushers, FlushStep(t),
           UNCHANGED <<writerVars, s, b>>
    PROVE  CountersInv'
<1>. USE Sizes
<1>1. f \in [Flushers -> FlusherRec] /\ dirtyq \in [Volumes -> Seq(Inodes)]
  BY DEF TypeInv, TypeOK, FlushTypeOK, FlusherRec, SharedTypeOK
<1>2. /\ NumVolumes \in Nat /\ Volumes = 0 .. NumVolumes - 1
      /\ NoInode \notin Inodes /\ f[t].v_idx \in Volumes /\ f[t].batch \in Seq(Inodes)
      /\ (f[t].pc = "requeue" => f[t].failed \in Inodes)
      /\ (f[t].pc = "hand_off" => f[t].batch # <<>>)
  <2>1. NumVolumes \in Nat /\ Volumes = 0 .. NumVolumes - 1
    BY DEF Volumes
  <2>2. NoInode \notin Inodes
    BY DEF NoInode, Inodes
  <2>3. f[t].v_idx \in Volumes /\ f[t].batch \in Seq(Inodes)
    BY <1>1 DEF FlusherRec
  <2>. QED BY <2>1, <2>2, <2>3 DEF TypeInv, FlusherOK
<1>3. Withdrawn' = Withdrawn /\ Counted' = Counted /\ Returning' = Returning
  BY DEF Withdrawn, Counted, Returning, At, writerVars
<1>4. \A u \in Flushers : u # t => f'[u] = f[u]
  BY <1>1 DEF FlushStep, FlushCheck, FlushTake, FlushSize, FlushCollect, FlushRequeue,
              FlushCollected, FlushWrite, FlushHandOff, FlushGiveBack
<1>5. /\ Failing' = IF f'[t].failed # NoInode THEN Failing \cup {t} ELSE Failing \ {t}
      /\ t \in Failing <=> f[t].failed # NoInode
  BY <1>4, FailingMoves
<1>6. /\ Total(Batches') \in Nat
      /\ f'[t].batch = f[t].batch => Batches' = Batches
      /\ Len(f'[t].batch) = Len(f[t].batch) + 1 => Total(Batches') = Total(Batches) + 1
      /\ Len(f[t].batch) = Len(f'[t].batch) + 1 => Total(Batches) = Total(Batches') + 1
  BY <1>4, BatchMoves
<1>7. /\ FreeCounted /\ DirtyCounted /\ FlusherHolds /\ IsFiniteSet(Failing)
      /\ f[t].failed # NoInode <=> f[t].pc = "requeue"
      /\ (f[t].pc \notin {"collect", "requeue", "write", "hand_off"} => f[t].batch = <<>>)
  BY CountTypes DEF CountersInv, FlusherHolds
<1>8. ASSUME f'[t].failed # NoInode <=> f'[t].pc = "requeue",
             f'[t].pc \notin {"collect", "requeue", "write", "hand_off"} => f'[t].batch = <<>>
      PROVE  FlusherHolds'
  BY <1>4, <1>7, <1>8 DEF FlusherHolds
<1>9. ASSUME UNCHANGED <<freeq, inode_free_count>> PROVE FreeCounted'
  BY <1>3, <1>7, <1>9 DEF FreeCounted
<1>10. /\ Total(dirtyq) \in Nat /\ Total(Batches) \in Nat /\ inode_dirty_count \in Int
       /\ Cardinality(Counted) \in Nat /\ Cardinality(Failing) \in Nat
       /\ inode_dirty_count =
             Total(dirtyq) + Cardinality(Counted) + Total(Batches) + Cardinality(Failing)
  BY <1>7, CountTypes DEF DirtyCounted
<1>12. CASE FlushCollect(t) /\ ~ ilock[Head(dirtyq[f[t].v_idx])]
  <2>. DEFINE i == Head(dirtyq[f[t].v_idx])
  <2>1. /\ f[t].pc = "collect" /\ dirtyq[f[t].v_idx] # <<>>
        /\ dirtyq' = Dequeue(dirtyq, f[t].v_idx) /\ f'[t].batch = Append(f[t].batch, i)
        /\ f'[t].pc = "collect" /\ f'[t].failed = f[t].failed
        /\ UNCHANGED <<freeq, counts>>
    BY <1>1, <1>12 DEF FlushCollect, FlusherRec
  <2>2. i \in Inodes
    BY <1>1, <1>2, <2>1, QueueTypes
  <2>3. Len(f'[t].batch) = Len(f[t].batch) + 1
    BY <1>2, <2>1, <2>2, AppendProperties
  <2>4. Failing' = Failing
    BY <1>5, <2>1
  <2>5. Total(Batches') = Total(Batches) + 1
    BY <1>6, <2>3
  <2>6. Total(dirtyq) = Total(dirtyq') + 1 /\ Total(dirtyq') \in Nat
    BY <1>2, <2>1, DirtyTotal
  <2>7. DirtyCounted'
    BY <1>3, <1>10, <2>1, <2>4, <2>5, <2>6 DEF DirtyCounted, counts
  <2>8. FlusherHolds'
    BY <1>7, <1>8, <2>1
  <2>. QED BY <1>9, <2>1, <2>7, <2>8 DEF CountersInv, counts
<1>13. CASE FlushCollect(t) /\ ilock[Head(dirtyq[f[t].v_idx])]
  <2>. DEFINE i == Head(dirtyq[f[t].v_idx])
  <2>1. /\ f[t].pc = "collect" /\ dirtyq[f[t].v_idx] # <<>>
        /\ dirtyq' = Dequeue(dirtyq, f[t].v_idx) /\ f'[t].batch = f[t].batch
        /\ f'[t].pc = "requeue" /\ f'[t].failed = i
        /\ UNCHANGED <<freeq, counts>>
    BY <1>1, <1>13 DEF FlushCollect, FlusherRec
  <2>2. i \in Inodes
    BY <1>1, <1>2, <2>1, QueueTypes
  <2>3. Failing' = Failing \cup {t} /\ t \notin Failing
    BY <1>2, <1>5, <1>7, <2>1, <2>2
  <2>4. Cardinality(Failing') = Cardinality(Failing) + 1
    BY <1>7, <2>3, OneMore, Zenon
  <2>5. Batches' = Batches
    BY <1>6, <2>1
  <2>6. Total(dirtyq) = Total(dirtyq') + 1 /\ Total(dirtyq') \in Nat
    BY <1>2, <2>1, DirtyTotal
  <2>7. DirtyCounted'
    BY <1>3, <1>10, <2>1, <2>4, <2>5, <2>6 DEF DirtyCounted, counts
  <2>8. FlusherHolds'
    BY <1>2, <1>7, <1>8, <2>1, <2>2
  <2>. QED BY <1>9, <2>1, <2>7, <2>8 DEF CountersInv, counts
<1>14. CASE FlushRequeue(t)
  <2>1. /\ f[t].pc = "requeue" /\ f[t].failed \in Inodes
        /\ dirtyq' = Enqueue(dirtyq, f[t].v_idx, f[t].failed) /\ f'[t].batch = f[t].batch
        /\ f'[t].pc = "collect" /\ f'[t].failed = NoInode
        /\ UNCHANGED <<freeq, counts>>
    BY <1>1, <1>2, <1>14 DEF FlushRequeue, FlusherRec
  <2>2. Failing' = Failing \ {t} /\ t \in Failing
    BY <1>5, <1>7, <2>1
  <2>3. Failing = Failing' \cup {t} /\ t \notin Failing' /\ Failing' \in SUBSET Failing
    BY <2>2
  <2>4. IsFiniteSet(Failing')
    BY <1>7, <2>3, FS_Subset, Zenon
  <2>5. Cardinality(Failing) = Cardinality(Failing') + 1 /\ Cardinality(Failing') \in Nat
    BY <2>3, <2>4, OneMore, Zenon
  <2>6. Batches' = Batches
    BY <1>6, <2>1
  <2>7. Total(dirtyq') = Total(dirtyq) + 1
    BY <1>2, <2>1, DirtyTotal
  <2>8. DirtyCounted'
    BY <1>3, <1>10, <2>1, <2>5, <2>6, <2>7 DEF DirtyCounted, counts
  <2>9. FlusherHolds'
    BY <1>7, <1>8, <2>1
  <2>. QED BY <1>9, <2>1, <2>8, <2>9 DEF CountersInv, counts
<1>15. CASE FlushHandOff(t)
  <2>1. /\ f[t].pc = "hand_off" /\ f'[t].batch = Tail(f[t].batch) /\ f[t].batch # <<>>
        /\ inode_dirty_count' = inode_dirty_count - 1 /\ f'[t].failed = f[t].failed
        /\ f'[t].pc \in {"hand_off", "write", "give_back"}
        /\ (f'[t].pc = "give_back" => f'[t].batch = <<>>)
        /\ UNCHANGED <<freeq, dirtyq, inode_free_count>>
    BY <1>1, <1>2, <1>15 DEF FlushHandOff, FlusherRec
  <2>2. Len(f[t].batch) = Len(f'[t].batch) + 1
    <3>1. Len(f[t].batch) \in Nat /\ Len(Tail(f[t].batch)) = Len(f[t].batch) - 1
      BY <1>2, <2>1, HeadTailProperties
    <3>. QED BY <2>1, <3>1
  <2>3. Total(Batches) = Total(Batches') + 1
    BY <1>6, <2>2
  <2>4. Failing' = Failing
    BY <1>5, <2>1
  <2>6. DirtyCounted'
    BY <1>3, <1>6, <1>10, <2>1, <2>3, <2>4 DEF DirtyCounted
  <2>7. FlusherHolds'
    BY <1>7, <1>8, <2>1
  <2>. QED BY <1>9, <2>1, <2>6, <2>7 DEF CountersInv
<1>16. CASE /\ ~ FlushCollect(t) /\ ~ FlushRequeue(t) /\ ~ FlushHandOff(t)
  <2>1. /\ UNCHANGED <<freeq, dirtyq, counts>> /\ f'[t].batch = f[t].batch
        /\ f[t].failed = NoInode /\ f'[t].failed = NoInode /\ f'[t].pc # "requeue"
        /\ f'[t].pc \notin {"collect", "requeue", "write", "hand_off"} => f'[t].batch = <<>>
    <3>1. CASE FlushCheck(t) \/ FlushTake(t)
      BY <1>1, <1>7, <3>1 DEF FlushCheck, FlushTake, FlusherRec, shared, queues
    <3>2. CASE FlushSize(t)
      <4>1. /\ f[t].pc = "size" /\ f'[t].batch = f[t].batch /\ f'[t].failed = f[t].failed
            /\ f'[t].pc \in {"collect", "give_back"}
        BY <1>1, <3>2 DEF FlushSize, FlusherRec
      <4>2. UNCHANGED <<freeq, dirtyq, counts>>
        BY <3>2 DEF FlushSize, shared, queues
      <4>. QED BY <1>7, <4>1, <4>2
    <3>4. CASE FlushCollected(t)
      <4>1. /\ f[t].pc = "collect" /\ f'[t].batch = f[t].batch /\ f'[t].failed = f[t].failed
            /\ f'[t].pc = IF f[t].batch = <<>> THEN "give_back" ELSE "write"
        BY <1>1, <3>4 DEF FlushCollected, FlusherRec
      <4>2. UNCHANGED <<freeq, dirtyq, counts>>
        BY <3>4 DEF FlushCollected, shared, queues
      <4>. QED BY <1>7, <4>1, <4>2
    <3>5. CASE FlushWrite(t)
      <4>1. /\ f[t].pc = "write" /\ f'[t].batch = f[t].batch /\ f'[t].failed = f[t].failed
            /\ f'[t].pc = "hand_off"
        BY <1>1, <3>5 DEF FlushWrite, FlusherRec
      <4>2. UNCHANGED <<freeq, dirtyq, counts>>
        BY <3>5 DEF FlushWrite, queues
      <4>. QED BY <1>7, <4>1, <4>2
    <3>3. CASE FlushGiveBack(t)
      BY <1>1, <1>7, <3>3 DEF FlushGiveBack, FlusherIdle, FlusherRec
    <3>. QED BY <1>16, <3>1, <3>2, <3>3, <3>4, <3>5 DEF FlushStep
  <2>2. Failing' = Failing /\ Batches' = Batches
    BY <1>5, <1>6, <2>1
  <2>3. FlusherHolds'
    BY <1>8, <2>1
  <2>. QED BY <1>3, <1>7, <2>1, <2>2, <2>3, NothingCounted DEF CountersInv
<1>. QED BY <1>12, <1>13, <1>14, <1>15, <1>16

LEMMA ReturningMoves ==
    ASSUME NEW k \in Balloons, \A j \in Balloons : j # k => b'[j] = b[j]
    PROVE  /\ Returning' = IF b'[k].pc = "enqueue" THEN Returning \cup {k} ELSE Returning \ {k}
           /\ k \in Returning <=> b[k].pc = "enqueue"
BY DEF Returning

LEMMA BalloonCounts ==
    ASSUME TypeInv, CountersInv, NEW k \in Balloons, BalloonStep(k), UNCHANGED <<writerVars, f, s>>
    PROVE  CountersInv'
<1>. USE Sizes
<1>1. b \in [Balloons -> BalloonRec] /\ (b[k].pc # "idle" => b[k].idx \in Inodes)
  BY DEF TypeInv, TypeOK, BalloonTypeOK, BalloonRec, BalloonOK
<1>2. /\ Withdrawn' = Withdrawn /\ Counted' = Counted /\ Failing' = Failing /\ Batches' = Batches
      /\ FlusherHolds'
  BY DEF Withdrawn, Counted, Failing, Batches, At, writerVars, CountersInv, FlusherHolds
<1>3. /\ Returning' = IF b'[k].pc = "enqueue" THEN Returning \cup {k} ELSE Returning \ {k}
      /\ k \in Returning <=> b[k].pc = "enqueue"
  <2>1. \A j \in Balloons : j # k => b'[j] = b[j]
    BY <1>1 DEF BalloonStep, BalloonDequeue, BalloonState, BalloonSearch, BalloonTryLock,
                BalloonCheck, BalloonDelete, BalloonFree, BalloonEnqueue, BalloonUnlock
  <2>. QED BY <2>1, ReturningMoves
<1>4. /\ FreeCounted /\ DirtyCounted /\ IsFiniteSet(Returning)
      /\ Total(freeq) \in Nat /\ inode_free_count \in Int
      /\ Cardinality(Returning) \in Nat /\ Cardinality(Withdrawn) \in Nat
      /\ inode_free_count = Total(freeq) + Cardinality(Returning) + Cardinality(Withdrawn)
  BY CountTypes DEF CountersInv, FreeCounted
<1>5. CASE BalloonFree(k)
  <2>1. /\ inode_free_count' = inode_free_count + 1 /\ b[k].pc = "free" /\ b'[k].pc = "enqueue"
        /\ UNCHANGED <<freeq, dirtyq, inode_dirty_count>>
    BY <1>1, <1>5 DEF BalloonFree, BalloonRec, queues
  <2>2. Returning' = Returning \cup {k} /\ k \notin Returning
    BY <1>3, <2>1
  <2>3. Cardinality(Returning') = Cardinality(Returning) + 1
    BY <1>4, <2>2, OneMore, Zenon
  <2>4. FreeCounted'
    BY <1>2, <1>4, <2>1, <2>3 DEF FreeCounted
  <2>5. DirtyCounted'
    BY <1>2, <1>4, <2>1 DEF DirtyCounted
  <2>. QED BY <1>2, <2>4, <2>5 DEF CountersInv
<1>6. CASE BalloonEnqueue(k)
  <2>1. /\ freeq' = Enqueue(freeq, free_enqueue_idx, b[k].idx)
        /\ b[k].pc = "enqueue" /\ b'[k].pc = "unlock" /\ UNCHANGED <<dirtyq, counts>>
    BY <1>1, <1>6 DEF BalloonEnqueue, BalloonRec
  <2>2. b[k].idx \in Inodes /\ NumFree \in Nat /\ free_enqueue_idx \in 0 .. NumFree - 1
        /\ freeq \in [0 .. NumFree - 1 -> Seq(Inodes)]
    BY <1>1, <2>1 DEF TypeInv, TypeOK, SharedTypeOK
  <2>3. Total(freeq') = Total(freeq) + 1
    BY <2>1, <2>2, EnqueueTotal
  <2>4. Returning' = Returning \ {k} /\ k \in Returning
    BY <1>3, <2>1
  <2>5. Returning = Returning' \cup {k} /\ k \notin Returning' /\ Returning' \in SUBSET Returning
    BY <2>4
  <2>6. IsFiniteSet(Returning')
    BY <1>4, <2>5, FS_Subset, Zenon
  <2>7. Cardinality(Returning) = Cardinality(Returning') + 1 /\ Cardinality(Returning') \in Nat
    BY <2>5, <2>6, OneMore, Zenon
  <2>8. FreeCounted'
    BY <1>2, <1>4, <2>1, <2>3, <2>7 DEF FreeCounted, counts
  <2>9. DirtyCounted'
    BY <1>2, <1>4, <2>1 DEF DirtyCounted, counts
  <2>. QED BY <1>2, <2>8, <2>9 DEF CountersInv
<1>7. CASE ~ BalloonFree(k) /\ ~ BalloonEnqueue(k)
  <2>1. /\ UNCHANGED <<freeq, dirtyq, counts>> /\ b[k].pc # "enqueue" /\ b'[k].pc # "enqueue"
    <3>1. CASE BalloonDequeue(k)
      BY <1>1, <3>1 DEF BalloonDequeue, BalloonRec
    <3>4. CASE BalloonState(k)
      BY <1>1, <3>4 DEF BalloonState, BalloonRec, BalloonIdle, shared, queues
    <3>5. CASE BalloonSearch(k)
      BY <1>1, <3>5 DEF BalloonSearch, BalloonRec, shared, queues
    <3>2. CASE BalloonTryLock(k) \/ BalloonCheck(k)
      BY <1>1, <3>2 DEF BalloonTryLock, BalloonCheck, BalloonRec, BalloonIdle, queues
    <3>3. CASE BalloonDelete(k) \/ BalloonUnlock(k)
      BY <1>1, <3>3 DEF BalloonDelete, BalloonUnlock, BalloonRec, BalloonIdle, queues
    <3>. QED BY <1>7, <3>1, <3>2, <3>3, <3>4, <3>5 DEF BalloonStep
  <2>2. Returning' = Returning
    BY <1>3, <2>1
  <2>. QED BY <1>2, <1>4, <2>1, <2>2, NothingCounted DEF CountersInv
<1>. QED BY <1>5, <1>6, <1>7

LEMMA CountersStep == TypeInv /\ TypeInv' /\ CountersInv /\ [Next]_vars => CountersInv'
<1>. SUFFICES ASSUME TypeInv, TypeInv', CountersInv, [Next]_vars PROVE CountersInv'
  OBVIOUS
<1>1. ASSUME NEW v \in Volumes, Writer(v) PROVE CountersInv'
  BY <1>1, WriterCounts DEF Writer
<1>2. ASSUME NEW t \in Flushers, Flusher(t) PROVE CountersInv'
  BY <1>2, FlusherCounts DEF Flusher
<1>3. ASSUME UNCHANGED <<writerVars, f, b>>, UNCHANGED <<freeq, dirtyq, counts>>
      PROVE  CountersInv'
  <2>1. /\ Withdrawn' = Withdrawn /\ Counted' = Counted /\ Failing' = Failing /\ Batches' = Batches
        /\ Returning' = Returning /\ FlusherHolds'
    BY <1>3 DEF Withdrawn, Counted, Failing, Batches, Returning, At, writerVars, CountersInv,
                FlusherHolds
  <2>. QED BY <1>3, <2>1, NothingCounted DEF CountersInv
<1>4. ASSUME NEW k \in Syncers, Syncer(k) PROVE CountersInv'
  <2>1. UNCHANGED <<freeq, dirtyq, counts>>
    BY <1>4 DEF Syncer, SyncStep, SyncCount, SyncFiles, SyncClean, SyncEnqueue, SyncUnlock,
                shared, queues
  <2>. QED BY <1>3, <1>4, <2>1 DEF Syncer
<1>5. ASSUME NEW k \in Balloons, BalloonThread(k) PROVE CountersInv'
  BY <1>5, BalloonCounts DEF BalloonThread
<1>6. CASE UNCHANGED vars
  BY <1>3, <1>6 DEF vars, shared, queues
<1>. QED BY <1>1, <1>2, <1>4, <1>5, <1>6 DEF Next

\* Every inode has its place when the free inodes have just been dealt.
LEMMA DealTotal ==
    ASSUME NEW q, q = [k \in 0 .. NumFree - 1 |-> InitialFree(k)]
    PROVE  Total(q) = NumInodes
<1>. USE Sizes
<1>. DEFINE h == [p \in Places(q) |-> q[p[1]][p[2]]]
<1>1. /\ FreeQueues = 0 .. NumFree - 1 /\ NumFree \in Nat /\ NumInodes \in Nat
      /\ q \in [0 .. NumFree - 1 -> Seq(Inodes)] /\ DOMAIN q = FreeQueues
      /\ \A k \in FreeQueues : q[k] = InitialFree(k)
  BY InitialFreeType DEF FreeQueues
<1>2. IsFiniteSet(Places(q)) /\ Total(q) = Cardinality(Places(q))
  BY <1>1, FamilyType, PlacesFinite
<1>3. ASSUME NEW p \in Places(q)
      PROVE  /\ p[1] \in FreeQueues /\ p[2] \in 1 .. Len(q[p[1]]) /\ p = <<p[1], p[2]>>
             /\ h[p] \in Inodes /\ h[p] % NumFree = p[1] /\ h[p] = q[p[1]][p[2]]
  <2>1. PICK k \in FreeQueues : \E m \in 1 .. Len(q[k]) : p = <<k, m>>
    BY <1>1, <1>3, InPlaces
  <2>2. PICK m \in 1 .. Len(q[k]) : p = <<k, m>>
    BY <2>1
  <2>3. q[k][m] \in In(InitialFree(k))
    BY <1>1 DEF In
  <2>4. q[k][m] \in Inodes /\ q[k][m] % NumFree = k
    BY <2>3, InitialDeal
  <2>. QED BY <2>2, <2>4
<1>4. h \in Injection(Places(q), Inodes)
  <2>1. ASSUME NEW x \in Places(q), NEW y \in Places(q), h[x] = h[y] PROVE x = y
    <3>1. x[1] = y[1]
      BY <1>3, <2>1
    <3>2. Once(q[x[1]])
      BY <1>1, <1>3, InitialDeal
    <3>3. q[x[1]][x[2]] = q[x[1]][y[2]]
      BY <1>3, <2>1, <3>1
    <3>4. x[2] \in 1 .. Len(q[x[1]]) /\ y[2] \in 1 .. Len(q[x[1]])
      BY <1>3, <3>1
    <3>5. x[2] = y[2]
      BY <3>2, <3>3, <3>4 DEF Once
    <3>6. x = <<x[1], x[2]>> /\ y = <<y[1], y[2]>>
      BY <1>3
    <3>. QED BY <3>1, <3>5, <3>6
  <2>2. h \in [Places(q) -> Inodes]
    BY <1>3
  <2>. HIDE DEF h
  <2>. QED BY <2>1, <2>2 DEF Injection, IsInjective
<1>5. h \in Surjection(Places(q), Inodes)
  <2>1. ASSUME NEW i \in Inodes PROVE \E p \in Places(q) : h[p] = i
    <3>1. i % NumFree \in FreeQueues
      BY <1>1 DEF Inodes
    <3>2. i \in In(q[i % NumFree])
      BY <1>1, <3>1, InitialDeal
    <3>3. PICK m \in 1 .. Len(q[i % NumFree]) : q[i % NumFree][m] = i
      BY <3>2 DEF In
    <3>4. <<i % NumFree, m>> \in Places(q)
      BY <1>1, <3>1, InPlaces
    <3>. QED BY <3>3, <3>4
  <2>2. h \in [Places(q) -> Inodes]
    BY <1>3
  <2>. HIDE DEF h
  <2>. QED BY <2>1, <2>2 DEF Surjection
<1>6. ExistsBijection(Places(q), Inodes)
  <2>. HIDE DEF h
  <2>. QED BY <1>4, <1>5 DEF ExistsBijection, Bijection
<1>7. Cardinality(Inodes) = Cardinality(Places(q))
  BY <1>2, <1>6, FS_Bijection, Zenon
<1>8. Cardinality(Inodes) = NumInodes
  <2>1. 0 \in Int /\ NumInodes - 1 \in Int
    BY <1>1
  <2>2. Cardinality(0 .. NumInodes - 1) =
           IF 0 > NumInodes - 1 THEN 0 ELSE (NumInodes - 1) - 0 + 1
    BY <2>1, FS_Interval, Zenon
  <2>. QED BY <1>1, <2>2 DEF Inodes
<1>. QED BY <1>2, <1>7, <1>8

LEMMA EmptyTotal ==
    ASSUME NEW q, \A k \in DOMAIN q : q[k] = <<>>
    PROVE  Total(q) = 0
<1>1. \A k \in DOMAIN q : {k} \X (1 .. Len(q[k])) = {}
  OBVIOUS
<1>2. UNION {{k} \X (1 .. Len(q[k])) : k \in DOMAIN q} = {}
  BY <1>1
<1>. QED BY <1>2, FS_EmptySet, Zenon DEF Total

\* The free inodes dealt, nothing dirty and no thread anywhere.
JustDealt ==
    /\ freeq = [k \in 0 .. NumFree - 1 |-> InitialFree(k)]
    /\ \A v \in DOMAIN dirtyq : dirtyq[v] = <<>>
    /\ inode_free_count = NumInodes /\ inode_dirty_count = 0
    /\ \A v \in Volumes : w[v] = Idle
    /\ \A t \in Flushers : f[t] = FlusherIdle
    /\ \A k \in Balloons : b[k] = BalloonIdle

LEMMA CountersStart == JustDealt => CountersInv
<1>. SUFFICES ASSUME JustDealt PROVE CountersInv
  OBVIOUS
<1>0. /\ freeq = [k \in 0 .. NumFree - 1 |-> InitialFree(k)]
      /\ \A v \in DOMAIN dirtyq : dirtyq[v] = <<>>
      /\ inode_free_count = NumInodes /\ inode_dirty_count = 0
      /\ \A v \in Volumes : w[v] = Idle
      /\ \A t \in Flushers : f[t] = FlusherIdle
      /\ \A k \in Balloons : b[k] = BalloonIdle
  BY DEF JustDealt
<1>1. Withdrawn = {} /\ Counted = {}
  BY <1>0 DEF Withdrawn, Counted, At, Idle
<1>2. Returning = {}
  BY <1>0 DEF Returning, BalloonIdle
<1>3. Failing = {}
  BY <1>0 DEF Failing, FlusherIdle
<1>4. \A t \in DOMAIN Batches : Batches[t] = <<>>
  BY <1>0 DEF Batches, FlusherIdle
<1>5. Total(Batches) = 0 /\ Total(dirtyq) = 0 /\ Total(freeq) = NumInodes
  BY <1>0, <1>4, EmptyTotal, DealTotal
<1>6. Cardinality({}) = 0
  BY FS_EmptySet
<1>7. FlusherHolds
  BY <1>0 DEF FlusherHolds, FlusherIdle
<1>8. NumInodes \in Nat
  BY Sizes
<1>. QED BY <1>0, <1>1, <1>2, <1>3, <1>5, <1>6, <1>7, <1>8 DEF CountersInv, FreeCounted, DirtyCounted

LEMMA CountersInit == Init => CountersInv
BY CountersStart DEF JustDealt, Init, InitShared, InitQueues, InitWriter, InitFlush, InitBalloon

\* The counters that the writers (nvm0write.cc 25) and the flush threads
\* (nvm0flush.cc 29) steer by never lose or invent an inode, although they
\* change apart from the queues (nvm0write.cc 88 and 190, nvm0flush.cc 160,
\* nvm0balloon.cc 87): for any number of threads each differs from its queues
\* by exactly the inodes in transit.
THEOREM CountersAreRight == Spec => []CountersMatchQueues
<1>1. TypeInv /\ CountersInv /\ [Next]_vars => TypeInv' /\ CountersInv'
  BY TypeStep, CountersStep
<1>2. Init => TypeInv /\ CountersInv
  BY TypeInit, CountersInit
<1>. QED BY <1>1, <1>2, CountersFollow, PTL DEF Spec

(***************************************************************************)
(* The blocks of a single volume.  What the inodes hold, and the ownerless *)
(* block of the volume, is always a permutation of the blocks, whatever    *)
(* becomes of the inodes themselves.                                       *)
(***************************************************************************)

\* Inode i holds block f[i], and the volume block o.
Permuted(blk, o) ==
    /\ blk \in [Inodes -> Blocks] /\ o \in Blocks
    /\ \A i, j \in Inodes : blk[i] = blk[j] => i = j
    /\ \A i \in Inodes : blk[i] # o
    /\ \A c \in Blocks : c = o \/ \E i \in Inodes : blk[i] = c

\* An inode exchanges its block with the volume.
LEMMA ExchangePermutes ==
    ASSUME NEW blk, NEW o, Permuted(blk, o), NEW i \in Inodes
    PROVE  Permuted([blk EXCEPT ![i] = o], blk[i])
<1>. DEFINE g == [blk EXCEPT ![i] = o]
<1>1. g \in [Inodes -> Blocks] /\ g[i] = o /\ \A j \in Inodes : j # i => g[j] = blk[j]
  BY DEF Permuted
<1>2. blk[i] \in Blocks
  BY DEF Permuted
<1>. HIDE DEF g
<1>3. \A x, y \in Inodes : g[x] = g[y] => x = y
  BY <1>1 DEF Permuted
<1>4. \A x \in Inodes : g[x] # blk[i]
  BY <1>1 DEF Permuted
<1>5. ASSUME NEW c \in Blocks PROVE c = blk[i] \/ \E x \in Inodes : g[x] = c
  <2>1. CASE c = o
    BY <1>1, <2>1
  <2>2. CASE c # o
    <3>1. PICK x \in Inodes : blk[x] = c
      BY <2>2 DEF Permuted
    <3>. QED BY <1>1, <3>1
  <2>. QED BY <2>1, <2>2
<1>. QED BY <1>1, <1>2, <1>3, <1>4, <1>5 DEF Permuted, g

\* What each inode holds once the exchange of volume 0 is complete.
Held ==
    IF w[0].pc = "swap_inode" THEN [iblock EXCEPT ![w[0].idx] = w[0].ownerless] ELSE iblock

BlocksInv ==
    /\ Permuted(Held, vblock[0])
    /\ w[0].pc = "swap_volume" => w[0].ownerless = vblock[0]

LEMMA HeldIsBlockOf ==
    ASSUME NumVolumes = 1, TypeInv, NEW i \in Inodes
    PROVE  BlockOf(i) = Held[i]
<1>1. Volumes = {0} /\ iblock \in [Inodes -> Blocks]
  BY DEF Volumes, TypeInv, TypeOK, SharedTypeOK
<1>2. CASE At(0, "swap_inode") /\ w[0].idx = i
  <2>1. (CHOOSE v \in Volumes : At(v, "swap_inode") /\ w[v].idx = i) = 0
    BY <1>1, <1>2
  <2>. QED BY <1>1, <1>2, <2>1 DEF BlockOf, Held, At
<1>3. CASE ~ (At(0, "swap_inode") /\ w[0].idx = i)
  BY <1>1, <1>3 DEF BlockOf, Held, At
<1>. QED BY <1>2, <1>3

\* A step that leaves the tables and the exchange alone.
LEMMA NoExchange ==
    ASSUME BlocksInv, UNCHANGED <<iblock, vblock>>,
           \/ w'[0] = w[0]
           \/ w[0].pc \notin {"swap_volume", "swap_inode"} /\
              w'[0].pc \notin {"swap_volume", "swap_inode"}
    PROVE  BlocksInv'
BY DEF BlocksInv, Held, Permuted

LEMMA BlocksStep ==
    ASSUME NumVolumes = 1, TypeInv, BlocksInv, [Next]_vars
    PROVE  BlocksInv'
<1>. USE DEF inodeTable, shared
<1>1. Volumes = {0} /\ w \in [Volumes -> WriterRec] /\ vblock \in [Volumes -> Blocks]
      /\ ivol \in [Inodes -> Volumes] /\ iblock \in [Inodes -> Blocks]
      /\ (w[0].pc \in HasInode => w[0].idx \in Inodes)
  <2>1. Volumes = {0}
    BY DEF Volumes
  <2>2. w \in [Volumes -> WriterRec]
    BY DEF TypeInv, TypeOK, WriterTypeOK, WriterRec
  <2>3. /\ vblock \in [Volumes -> Blocks] /\ ivol \in [Inodes -> Volumes]
        /\ iblock \in [Inodes -> Blocks]
    BY DEF TypeInv, TypeOK, SharedTypeOK
  <2>4. w[0].pc \in HasInode => w[0].idx \in Inodes
    BY <2>1 DEF TypeInv, WriterOK
  <2>. QED BY <2>1, <2>2, <2>3, <2>4
<1>2. CASE Writer(0)
  <2>1. CASE Call(0)
    <3>1. /\ UNCHANGED <<iblock, vblock>> /\ w[0].pc = "idle" /\ w'[0].pc = "search"
      BY <1>1, <2>1 DEF Call, WriteStart, At, WriterRec
    <3>. QED BY <3>1, NoExchange
  <2>2. CASE CopyToOwnerless(0)
    <3>1. w[0].idx \in Inodes /\ w[0].pc = "copy"
      BY <1>1, <2>2 DEF CopyToOwnerless, At, HasInode
    <3>2. ivol[w[0].idx] = 0
      BY <1>1, <3>1
    <3>3. /\ UNCHANGED <<iblock, vblock>> /\ w'[0].pc = "swap_volume"
          /\ w'[0].ownerless = vblock[0]
      BY <1>1, <2>2, <3>2 DEF CopyToOwnerless, WriterRec
    <3>. QED BY <3>1, <3>3 DEF BlocksInv, Held
  <2>3. CASE SwapVolumeBlock(0)
    <3>. DEFINE i == w[0].idx
    <3>1. i \in Inodes /\ w[0].pc = "swap_volume"
      BY <1>1, <2>3 DEF SwapVolumeBlock, At, HasInode
    <3>2. ivol[i] = 0
      BY <1>1, <3>1
    <3>3. /\ iblock' = iblock /\ vblock'[0] = iblock[i] /\ w'[0].pc = "swap_inode"
          /\ w'[0].idx = i /\ w'[0].ownerless = w[0].ownerless
      BY <1>1, <2>3, <3>2 DEF SwapVolumeBlock, WriterRec
    <3>4. Permuted(iblock, vblock[0]) /\ w[0].ownerless = vblock[0]
      BY <3>1 DEF BlocksInv, Held
    <3>5. Held' = [iblock EXCEPT ![i] = vblock[0]]
      BY <3>3, <3>4 DEF Held
    <3>6. Permuted([iblock EXCEPT ![i] = vblock[0]], iblock[i])
      BY <3>1, <3>4, ExchangePermutes
    <3>. QED BY <3>3, <3>5, <3>6 DEF BlocksInv, Permuted
  <2>4. CASE SwapInodeBlock(0)
    <3>. DEFINE i == w[0].idx
    <3>1. i \in Inodes /\ w[0].pc = "swap_inode"
      BY <1>1, <2>4 DEF SwapInodeBlock, At, HasInode
    <3>2. /\ iblock' = [iblock EXCEPT ![i] = w[0].ownerless] /\ vblock' = vblock
          /\ w'[0].pc \in {"count_dirty", "unlock_inode"}
      BY <1>1, <2>4 DEF SwapInodeBlock, WriterRec
    <3>3. Held' = Held
      BY <3>1, <3>2 DEF Held
    <3>. QED BY <3>2, <3>3 DEF BlocksInv, Permuted
  <2>5. CASE WriteStep(0) /\ ~ CopyToOwnerless(0) /\ ~ SwapVolumeBlock(0) /\ ~ SwapInodeBlock(0)
    <3>1. UNCHANGED <<iblock, vblock>>
      BY <2>5 DEF WriteStep, SearchNode, FreeCheck, TakeTicket, DequeueFree, AssignInode,
                  InsertNode, LockNewNode, LockNode, RecheckNode, LockInode, SetDirty,
                  CountDirty, EnqueueDirty, UnlockInode, UnlockNode
    <3>2. /\ w[0].pc \notin {"swap_volume", "swap_inode"}
          /\ w'[0].pc \notin {"swap_volume", "swap_inode"}
      <4>1. CASE UnlockNode(0)
        <5>1. w[0].pc = "unlock_node" /\ w'[0].pc \in {"search", "idle"}
          BY <1>1, <4>1 DEF UnlockNode, At, Idle
        <5>. QED BY <5>1
      <4>2. CASE SearchNode(0) \/ FreeCheck(0) \/ TakeTicket(0) \/ DequeueFree(0) \/ AssignInode(0)
        BY <1>1, <4>2
           DEF WriterRec, SearchNode, FreeCheck, TakeTicket, DequeueFree, AssignInode, At
      <4>3. CASE InsertNode(0) \/ LockNewNode(0) \/ LockNode(0) \/ RecheckNode(0) \/ LockInode(0)
        BY <1>1, <4>3
           DEF WriterRec, InsertNode, LockNewNode, LockNode, RecheckNode, LockInode, At
      <4>4. CASE SetDirty(0) \/ CountDirty(0) \/ EnqueueDirty(0) \/ UnlockInode(0)
        BY <1>1, <4>4 DEF WriterRec, SetDirty, CountDirty, EnqueueDirty, UnlockInode, At
      <4>. QED BY <2>5, <4>1, <4>2, <4>3, <4>4 DEF WriteStep
    <3>. QED BY <3>1, <3>2, NoExchange
  <2>. QED BY <1>2, <2>1, <2>2, <2>3, <2>4, <2>5 DEF Writer
<1>3. ASSUME NEW t \in Flushers, Flusher(t) PROVE BlocksInv'
  <2>1. UNCHANGED <<iblock, vblock, w>>
    BY <1>3 DEF Flusher, writerVars, FlushStep, FlushCheck, FlushTake, FlushSize, FlushCollect,
                FlushRequeue, FlushCollected, FlushWrite, FlushHandOff, FlushGiveBack
  <2>. QED BY <2>1, NoExchange
<1>4. ASSUME NEW k \in Syncers, Syncer(k) PROVE BlocksInv'
  <2>1. UNCHANGED <<iblock, vblock, w>>
    BY <1>4 DEF Syncer, writerVars, SyncStep, SyncCount, SyncFiles, SyncClean, SyncEnqueue,
                SyncUnlock
  <2>. QED BY <2>1, NoExchange
<1>5. ASSUME NEW k \in Balloons, BalloonThread(k) PROVE BlocksInv'
  <2>1. UNCHANGED <<iblock, vblock, w>>
    BY <1>5 DEF BalloonThread, writerVars, BalloonStep, BalloonDequeue, BalloonState,
                BalloonSearch, BalloonTryLock, BalloonCheck, BalloonDelete, BalloonFree,
                BalloonEnqueue, BalloonUnlock
  <2>. QED BY <2>1, NoExchange
<1>6. CASE UNCHANGED vars
  BY <1>6, NoExchange DEF vars, writerVars
<1>. QED BY <1>1, <1>2, <1>3, <1>4, <1>5, <1>6 DEF Next

LEMMA BlocksInit ==
    ASSUME NumVolumes = 1, Init
    PROVE  BlocksInv
<1>. USE Sizes
<1>1. /\ iblock = [i \in Inodes |-> i] /\ vblock[0] = NumInodes /\ w[0].pc = "idle"
  BY DEF Init, InitShared, InitTables, InitWriter, Idle, Volumes
<1>2. Blocks = Inodes \cup {NumInodes} /\ NumInodes \notin Inodes
  BY DEF Blocks, Inodes
<1>. QED BY <1>1, <1>2 DEF BlocksInv, Held, Permuted

LEMMA BlocksInvImplies ==
    ASSUME NumVolumes = 1, TypeInv, BlocksInv
    PROVE  BlocksArePermuted
<1>1. \A i \in Inodes : BlockOf(i) = Held[i]
  BY HeldIsBlockOf
<1>2. {vblock[v] : v \in Volumes} = {vblock[0]}
  BY DEF Volumes
<1>3. Permuted(Held, vblock[0])
  BY DEF BlocksInv
<1>. QED BY <1>1, <1>2, <1>3 DEF BlocksArePermuted, Permuted

\* With one volume, no block of NVM is ever lost or held twice, whatever the
\* interleaving of the two halves of writeDataToNvmBlock's exchange
\* (nvm0write.cc 50-51) with the other threads, and whichever inode is freed
\* by whom.
THEOREM OneVolumePermutesBlocks == NumVolumes = 1 => (Spec => []BlocksArePermuted)
<1>. SUFFICES ASSUME NumVolumes = 1 PROVE Spec => []BlocksArePermuted
  OBVIOUS
<1>1. Init => BlocksInv
  BY BlocksInit
<1>2. TypeInv /\ BlocksInv /\ [Next]_vars => BlocksInv'
  BY BlocksStep
<1>3. TypeInv /\ BlocksInv => BlocksArePermuted
  BY BlocksInvImplies
<1>. QED BY <1>1, <1>2, <1>3, TypeInit, TypeStep, PTL DEF Spec
=============================================================================
