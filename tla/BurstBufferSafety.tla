-------------------------- MODULE BurstBufferSafety --------------------------
(***************************************************************************)
(* What the burst buffer promises, for every number of volumes, blocks,    *)
(* inodes, queues and threads.                                             *)
(*                                                                         *)
(* One race breaks the promises.  A balloon that was overtaken by another  *)
(* one invalidates the node of one inode and frees another; the code has   *)
(* several balloons (nvm0nvm.h 20), and MCDoubleFree.cfg finds the race    *)
(* with two.  The theorems therefore say that the promises are kept as     *)
(* long as FreesWhatItInvalidates is, whatever the number of balloons; and *)
(* that a single balloon always keeps it.                                  *)
(*                                                                         *)
(* The proof is one inductive invariant, SafetyInv.  Its parts say who     *)
(* holds which lock, which hash node leads to which inode, in which queue  *)
(* or whose hands each inode is, which blocks are whose, and what the      *)
(* blocks and the files contain at every step of every thread.             *)
(***************************************************************************)
EXTENDS BurstBufferProofs

(***************************************************************************)
(* The invariant                                                           *)
(***************************************************************************)

\* The steps at which a writer holds the mutex of its node, the lock of its
\* inode, or has made the inode dirty under that lock.
Holding == {"recheck", "lock_inode", "set_dirty", "copy", "swap_volume", "swap_inode",
            "count_dirty", "enqueue_dirty", "unlock_inode", "unlock_node"}
Locking == {"set_dirty", "copy", "swap_volume", "swap_inode", "count_dirty",
            "enqueue_dirty", "unlock_inode"}
Storing == {"copy", "swap_volume", "swap_inode", "count_dirty", "enqueue_dirty",
            "unlock_inode"}

\* The writer needs a node for its block; it has a FREE inode that no node has
\* yet; its node may have a FREE inode; it has made its inode dirty and not
\* queued it yet.
Missing(v) == w[v].pc \in {"free_check", "take_ticket", "dequeue", "assign", "insert"}
Taken(v) == w[v].pc \in {"assign", "insert"}
Fresh(v) == w[v].pc \in {"lock_new", "lock_inode", "set_dirty"}
Redirtied(v) ==
    /\ w[v].pc \in {"copy", "swap_volume", "swap_inode", "count_dirty", "enqueue_dirty"}
    /\ w[v].old_state # "DIRTY"

\* The balloon looks at the node of its inode, or holds the node's mutex.
Looking == {"trylock", "check", "delete"}
Invalidating == {"check", "delete", "free", "enqueue", "unlock"}

\* The flusher has a volume; the syncer has an inode that is still locked.
Flushing(t) == f[t].pc \notin {"idle", "take"}
Unlocking(k) == s[k].pc \in {"enqueue", "unlock"}

\* A node leads to an inode of its own block, which is FREE only while the
\* writer that inserted it is about to lock it.
NodeOK(v, l) ==
    LET n == node[v][l] IN
    /\ n.valid <=> n.inode # NoInode
    /\ n.valid => n.exists
    /\ n.inode # NoInode => ivol[n.inode] = v /\ ilbn[n.inode] = l
    /\ n.inode # NoInode /\ istate[n.inode] = "FREE" => w[v].lbn = l /\ Fresh(v)

NodesOK == \A v \in Volumes, l \in Lbns : NodeOK(v, l)

InUseOK ==
    \A i \in Inodes :
        istate[i] # "FREE" /\ ~ Unhooking(i) => node[ivol[i]][ilbn[i]].inode = i

WriterSafe(v) ==
    /\ w[v].pc \in Holding \cup {"lock_node", "lock_new"} => Node(v).exists
    /\ w[v].pc \in Holding => Node(v).mutex
    /\ Missing(v) => Node(v).inode = NoInode
    /\ w[v].pc = "lock_inode" => Node(v).inode # NoInode
    /\ w[v].pc \in Locking \cup {"lock_new", "unlock_node"} =>
          w[v].idx \in Inodes /\ Node(v).inode = w[v].idx
    /\ w[v].pc = "insert" => ivol[w[v].idx] = v /\ ilbn[w[v].idx] = w[v].lbn
    /\ w[v].pc \in {"assign", "insert", "lock_new"} => istate[w[v].idx] = "FREE"
    /\ w[v].pc \in Storing => istate[w[v].idx] = "DIRTY"
    /\ w[v].pc \in Locking => ilock[w[v].idx] /\ istate[w[v].idx] # "SYNC"
    /\ w[v].pc \in {"count_dirty", "enqueue_dirty"} => w[v].old_state # "DIRTY"

WritersOK == \A v \in Volumes : WriterSafe(v)

\* A balloon that is alone looks at an inode that stays in use until the
\* balloon itself has invalidated its node.
AloneSafe(k) ==
    /\ b[k].pc # "fault"
    /\ b[k].pc \in Looking \cup {"search"} => istate[b[k].idx] # "FREE"
    /\ b[k].pc \in Looking => HashNode(k).inode = b[k].idx

\* Nobody else holds the node that a balloon invalidates, or frees its inode.
BalloonSafe(k) ==
    /\ NumBalloons = 1 => AloneSafe(k)
    /\ b[k].pc \in Looking \cup Invalidating => HashNode(k).exists
    /\ b[k].pc \in Invalidating => HashNode(k).mutex
    /\ b[k].pc \in Invalidating =>
          \A v \in Volumes : w[v].pc \in Holding => ~ (b[k].vol = v /\ b[k].lbn = w[v].lbn)
    /\ b[k].pc \in Invalidating =>
          \A j \in Balloons :
              b[j].pc \in Invalidating /\ b[j].vol = b[k].vol /\ b[j].lbn = b[k].lbn => j = k
    /\ b[k].pc = "delete" =>
          HashNode(k).inode # NoInode /\ istate[HashNode(k).inode] = "CLEAN"
    /\ b[k].pc = "free" =>
          /\ istate[b[k].idx] = "CLEAN"
          /\ b[k].vol = ivol[b[k].idx] /\ b[k].lbn = ilbn[b[k].idx]
          /\ HashNode(k).inode # NoInode => istate[HashNode(k).inode] = "FREE"
    /\ b[k].pc = "enqueue" => istate[b[k].idx] = "FREE"
    /\ b[k].pc \in {"free", "enqueue"} =>
          /\ \A v \in Volumes, l \in Lbns : node[v][l].inode # b[k].idx
          /\ \A j \in Balloons : b[j].pc \in {"free", "enqueue"} /\ b[j].idx = b[k].idx => j = k

BalloonsOK == \A k \in Balloons : BalloonSafe(k)

\* A FREE inode is in one place: a free queue, the hands of a writer, a node,
\* or the hands of a balloon.
FreeQueueOK(j) ==
    /\ Once(freeq[j])
    /\ \A i \in In(freeq[j]) :
          /\ istate[i] = "FREE"
          /\ \A j2 \in FreeQueues : i \in In(freeq[j2]) => j2 = j
          /\ \A v \in Volumes, l \in Lbns : node[v][l].inode # i
          /\ \A v \in Volumes : Taken(v) => w[v].idx # i
          /\ \A k \in Balloons : b[k].pc = "enqueue" => b[k].idx # i

TakenOK(v) ==
    Taken(v) =>
        /\ \A u \in Volumes, l \in Lbns : node[u][l].inode # w[v].idx
        /\ \A u \in Volumes : Taken(u) /\ w[u].idx = w[v].idx => u = v
        /\ \A k \in Balloons : b[k].pc = "enqueue" => b[k].idx # w[v].idx

FreeFound(i) ==
    istate[i] = "FREE" =>
        \/ \E j \in FreeQueues : i \in In(freeq[j])
        \/ \E v \in Volumes : Taken(v) /\ w[v].idx = i
        \/ \E v \in Volumes, l \in Lbns : node[v][l].inode = i
        \/ \E k \in Balloons : b[k].pc = "enqueue" /\ b[k].idx = i

FreeOK ==
    /\ \A j \in FreeQueues : FreeQueueOK(j)
    /\ \A v \in Volumes : TakenOK(v)
    /\ \A i \in Inodes : FreeFound(i)

\* So is a DIRTY one: the dirty queue of its volume, the hands of a flusher,
\* or those of the writer that made it dirty.
DirtyQueueOK(v) ==
    /\ Once(dirtyq[v])
    /\ \A i \in In(dirtyq[v]) : istate[i] = "DIRTY" /\ ivol[i] = v
    /\ Redirtied(v) => w[v].idx \notin In(dirtyq[v])

DirtyFound(i) ==
    istate[i] = "DIRTY" =>
        \/ i \in In(dirtyq[ivol[i]])
        \/ \E t \in Flushers : i \in In(f[t].batch) \/ f[t].failed = i
        \/ \E v \in Volumes : Redirtied(v) /\ w[v].idx = i

DirtyOK ==
    /\ \A v \in Volumes : DirtyQueueOK(v)
    /\ \A i \in Inodes : DirtyFound(i)

\* A volume is in the queue or with one flusher.
VolumesOK ==
    /\ Once(inuseq)
    /\ \A t \in Flushers : Flushing(t) =>
          /\ f[t].v_idx \notin In(inuseq)
          /\ \A t2 \in Flushers : Flushing(t2) /\ f[t2].v_idx = f[t].v_idx => t2 = t
    /\ \A v \in Volumes :
          v \in In(inuseq) \/ \E t \in Flushers : Flushing(t) /\ f[t].v_idx = v

FlusherSafe(t) ==
    /\ f[t].pc \notin {"collect", "requeue", "write", "hand_off"} => f[t].batch = <<>>
    /\ f[t].failed # NoInode <=> f[t].pc = "requeue"
    /\ f[t].failed # NoInode =>
          /\ istate[f[t].failed] = "DIRTY" /\ ivol[f[t].failed] = f[t].v_idx
          /\ f[t].failed \notin In(dirtyq[f[t].v_idx])
          /\ f[t].failed \notin In(f[t].batch)
          /\ \A v \in Volumes : Redirtied(v) => w[v].idx # f[t].failed
    /\ Once(f[t].batch)
    /\ \A i \in In(f[t].batch) :
          /\ istate[i] = "DIRTY" /\ ivol[i] = f[t].v_idx /\ ilock[i]
          /\ i \notin In(dirtyq[f[t].v_idx])
          /\ \A v \in Volumes : w[v].pc \in Locking => w[v].idx # i
          /\ \A k \in Syncers : Unlocking(k) => s[k].idx # i

FlushersOK == \A t \in Flushers : FlusherSafe(t)

\* A SYNC inode is in one sync queue, and locked.
SyncQueueOK(k) ==
    /\ Once(syncq[k])
    /\ \A i \in In(syncq[k]) :
          istate[i] = "SYNC" /\ \A k2 \in Syncers : i \in In(syncq[k2]) => k2 = k

SyncFound(i) == istate[i] = "SYNC" => ilock[i] /\ \E k \in Syncers : i \in In(syncq[k])

SyncerSafe(k) ==
    /\ s[k].pc \in {"sync", "clean"} => s[k].n \in 1 .. Len(syncq[k])
    /\ Unlocking(k) =>
          /\ s[k].n - 1 \in 0 .. Len(syncq[k])
          /\ ilock[s[k].idx] /\ istate[s[k].idx] # "SYNC"
          /\ \A v \in Volumes : w[v].pc \in Locking => w[v].idx # s[k].idx
          /\ \A k2 \in Syncers : Unlocking(k2) /\ s[k2].idx = s[k].idx => k2 = k

SyncersOK ==
    /\ \A k \in Syncers : SyncQueueOK(k) /\ SyncerSafe(k)
    /\ \A i \in Inodes : SyncFound(i)

\* Every block belongs to one inode, once the exchanges in progress are
\* complete, or to one volume.
Swapping(i) == w[ivol[i]].pc = "swap_inode" /\ w[ivol[i]].idx = i
HeldBy(i) == IF Swapping(i) THEN w[ivol[i]].ownerless ELSE iblock[i]

ExchangeOK(v) ==
    /\ w[v].pc = "swap_volume" => w[v].ownerless = vblock[v]
    /\ w[v].pc = "swap_inode" => iblock[w[v].idx] = vblock[v]

BlocksOK ==
    /\ \A i, j \in Inodes : HeldBy(i) = HeldBy(j) => i = j
    /\ \A u, v \in Volumes : vblock[u] = vblock[v] => u = v
    /\ \A i \in Inodes, v \in Volumes : HeldBy(i) # vblock[v]
    /\ \A x \in Blocks : (\E i \in Inodes : HeldBy(i) = x) \/ (\E v \in Volumes : vblock[v] = x)
    /\ \A v \in Volumes : ExchangeOK(v)

\* The block of an inode in use has the latest content of its logical block;
\* when none is pending, the file has it, on disk.
Latest(v, l) == Content(v, l, acked[v][l] + IF Stored(v, l) THEN 1 ELSE 0)

InodeHolds(i) ==
    istate[i] # "FREE" /\ ~ Exchanging(ivol[i], ilbn[i]) =>
        data[iblock[i]] = Latest(ivol[i], ilbn[i])

FileHolds(v, l) ==
    Pending(v, l) = {} => file[v][l] = Latest(v, l) /\ disk[v][l] = Latest(v, l)

CopyHolds(v) ==
    w[v].pc \in {"swap_volume", "swap_inode"} => data[w[v].ownerless] = NewContent(v)

ContentsOK ==
    /\ \A i \in Inodes : InodeHolds(i)
    /\ \A v \in Volumes : CopyHolds(v)

FilesOK == \A v \in Volumes, l \in Lbns : FileHolds(v, l)

\* The file, or the disk, has what the block of the inode has.
Filed(i) == file[ivol[i]][ilbn[i]] = data[iblock[i]]
Synced(i) == disk[ivol[i]][ilbn[i]] = data[iblock[i]]

FiledOK(t) == f[t].pc = "hand_off" => \A m \in 1 .. f[t].run : Filed(f[t].batch[m])

SyncedOK(k) ==
    /\ s[k].pc = "clean" => \A m \in 1 .. s[k].n : Synced(syncq[k][m])
    /\ Unlocking(k) => \A m \in 1 .. s[k].n - 1 : Synced(syncq[k][m])

FreshOK ==
    /\ \A i \in Inodes : istate[i] = "SYNC" => Filed(i)
    /\ \A t \in Flushers : FiledOK(t)
    /\ \A k \in Syncers : SyncedOK(k)

\* All that the threads rely on.  What the files hold, FilesOK, is what they
\* achieve, and no part of it: a restart may find the files empty.
SafetyInv ==
    /\ NodesOK /\ InUseOK /\ WritersOK /\ BalloonsOK /\ FreeOK /\ DirtyOK /\ VolumesOK
    /\ FlushersOK /\ SyncersOK /\ BlocksOK /\ ContentsOK /\ FreshOK

\* The step takes from no file what it should hold.
FilesKept == \A v \in Volumes, l \in Lbns : FileHolds(v, l) => FileHolds(v, l)'

\* The types, in the form the steps below need them.
LEMMA Types ==
    ASSUME TypeInv
    PROVE  /\ istate \in [Inodes -> States] /\ ilbn \in [Inodes -> Lbns]
           /\ ivol \in [Inodes -> Volumes] /\ iblock \in [Inodes -> Blocks]
           /\ ilock \in [Inodes -> BOOLEAN] /\ vblock \in [Volumes -> Blocks]
           /\ data \in [Blocks -> Contents] /\ node \in [Volumes -> [Lbns -> Nodes]]
           /\ w \in [Volumes -> WriterRec] /\ f \in [Flushers -> FlusherRec]
           /\ s \in [Syncers -> SyncerRec] /\ b \in [Balloons -> BalloonRec]
           /\ NoInode \notin Inodes
<1>1. NoInode \notin Inodes
  BY Sizes DEF NoInode, Inodes
<1>. QED BY <1>1
     DEF TypeInv, TypeOK, SharedTypeOK, WriterTypeOK, FlushTypeOK, SyncTypeOK, BalloonTypeOK,
         WriterRec, FlusherRec, SyncerRec, BalloonRec

(***************************************************************************)
(* What most steps leave alone, and the parts of the invariant they keep.  *)
(***************************************************************************)

\* At most the mutexes of the nodes change.
NodesSame ==
    \A v \in Volumes, l \in Lbns :
        /\ node'[v][l].inode = node[v][l].inode /\ node'[v][l].valid = node[v][l].valid
        /\ node[v][l].exists => node'[v][l].exists

\* At most the block of a FREE inode that no node has changes.
InodesSame ==
    /\ istate' = istate
    /\ \A i \in Inodes :
          istate[i] # "FREE" \/ (\E v \in Volumes, l \in Lbns : node[v][l].inode = i) =>
             ivol'[i] = ivol[i] /\ ilbn'[i] = ilbn[i]

FreshSame == \A v \in Volumes : Fresh(v) => Fresh(v)' /\ w'[v].lbn = w[v].lbn

TakenSame ==
    \A v \in Volumes : (Taken(v)' <=> Taken(v)) /\ (Taken(v) => w'[v].idx = w[v].idx)

HoldingSame ==
    \A v \in Volumes : w'[v].pc \in Holding => w[v].pc \in Holding /\ w'[v].lbn = w[v].lbn

\* A writer locks an inode that is not locked.
LockingSame ==
    \A v \in Volumes :
        w'[v].pc \in Locking =>
            (w[v].pc \in Locking /\ w'[v].idx = w[v].idx) \/ ~ ilock[w'[v].idx]

\* A lock of an inode is released by the writer that holds it.
LocksSame ==
    \A i \in Inodes :
        ilock[i] => ilock'[i] \/ \E v \in Volumes : w[v].pc \in Storing /\ w[v].idx = i

RedirtiedSame ==
    \A v \in Volumes :
        (Redirtied(v)' <=> Redirtied(v)) /\ (Redirtied(v) => w'[v].idx = w[v].idx)

SwapSame ==
    \A v \in Volumes :
        /\ w'[v].pc = "swap_volume" <=> w[v].pc = "swap_volume"
        /\ w'[v].pc = "swap_inode" <=> w[v].pc = "swap_inode"
        /\ w[v].pc \in {"swap_volume", "swap_inode"} =>
              w'[v].idx = w[v].idx /\ w'[v].ownerless = w[v].ownerless

LatestSame ==
    /\ \A v \in Volumes, l \in Lbns :
          (Exchanging(v, l)' <=> Exchanging(v, l)) /\ Latest(v, l)' = Latest(v, l)
    /\ \A v \in Volumes : w'[v].pc \in {"swap_volume", "swap_inode"} =>
          NewContent(v)' = NewContent(v)

WritersSame ==
    /\ FreshSame /\ TakenSame /\ HoldingSame /\ LockingSame /\ RedirtiedSame /\ SwapSame
    /\ LatestSame

LEMMA WritersStay ==
    ASSUME w' = w, acked' = acked
    PROVE  WritersSame
BY DEF WritersSame, FreshSame, TakenSame, HoldingSame, LockingSame, RedirtiedSame, SwapSame,
       LatestSame, Fresh, Taken, Redirtied, Exchanging, Latest, Stored, NewContent, At

LEMMA NodesKept ==
    ASSUME TypeInv, NodesOK, NodesSame, InodesSame, FreshSame
    PROVE  NodesOK'
<1>. SUFFICES ASSUME NEW v \in Volumes, NEW l \in Lbns PROVE NodeOK(v, l)'
  BY DEF NodesOK
<1>1. NodeOK(v, l)
  BY DEF NodesOK
<1>2. node[v][l].inode \in Inodes \cup {NoInode}
  BY Types DEF Nodes
<1>. QED BY <1>1, <1>2 DEF NodeOK, NodesSame, InodesSame, FreshSame

LEMMA InUseKept ==
    ASSUME TypeInv, InUseOK, NodesSame, InodesSame, b' = b
    PROVE  InUseOK'
<1>. SUFFICES ASSUME NEW i \in Inodes, istate[i] # "FREE", ~ Unhooking(i)
              PROVE  node'[ivol'[i]][ilbn'[i]].inode = i
  BY DEF InUseOK, Unhooking, InodesSame
<1>1. ivol[i] \in Volumes /\ ilbn[i] \in Lbns
  BY Types
<1>. QED BY <1>1 DEF InUseOK, NodesSame, InodesSame

\* A writer that does not move.
LEMMA WriterKept ==
    ASSUME TypeInv, NodesOK, NEW v \in Volumes, WriterSafe(v), NodesSame, InodesSame, w'[v] = w[v],
           w[v].pc \in Holding => Node(v)'.mutex,
           w[v].pc \in Locking => ilock'[w[v].idx],
           w[v].pc = "insert" => ivol'[w[v].idx] = v /\ ilbn'[w[v].idx] = w[v].lbn
    PROVE  WriterSafe(v)'
<1>1. w[v].lbn \in Lbns
  BY Types DEF WriterRec
<1>2. /\ Node(v)'.inode = Node(v).inode
      /\ Node(v).exists => Node(v)'.exists
  BY <1>1 DEF NodesSame, Node
<1>3. istate' = istate
  BY DEF InodesSame
<1>. QED BY <1>2, <1>3 DEF WriterSafe, Missing

LEMMA BalloonsStay ==
    ASSUME TypeInv, BalloonsOK, NodesSame, InodesSame, b' = b,
           \A k \in Balloons : b[k].pc \in Invalidating =>
              /\ HashNode(k)'.mutex
              /\ \A v \in Volumes :
                    w'[v].pc \in Holding => ~ (b[k].vol = v /\ b[k].lbn = w'[v].lbn)
    PROVE  BalloonsOK'
<1>. SUFFICES ASSUME NEW k \in Balloons PROVE BalloonSafe(k)'
  BY DEF BalloonsOK
<1>1. BalloonSafe(k) /\ b'[k] = b[k] /\ istate' = istate
  BY DEF BalloonsOK, InodesSame
<1>2. b[k].vol \in Volumes /\ b[k].lbn \in Lbns /\ (b[k].pc # "idle" => b[k].idx \in Inodes)
  BY Types DEF BalloonRec, TypeInv, BalloonOK
<1>3. /\ HashNode(k)'.inode = HashNode(k).inode
      /\ HashNode(k).exists => HashNode(k)'.exists
  BY <1>1, <1>2 DEF NodesSame, HashNode
<1>4. b[k].pc = "free" => ivol'[b[k].idx] = ivol[b[k].idx] /\ ilbn'[b[k].idx] = ilbn[b[k].idx]
  BY <1>1, <1>2 DEF BalloonSafe, InodesSame
<1>5. \A v \in Volumes, l \in Lbns : node'[v][l].inode = node[v][l].inode
  BY DEF NodesSame
<1>6. b[k].pc \in Invalidating =>
          \A v \in Volumes : w'[v].pc \in Holding => ~ (b[k].vol = v /\ b[k].lbn = w'[v].lbn)
  OBVIOUS
<1>7. NumBalloons = 1 => AloneSafe(k)'
  BY <1>1, <1>3 DEF BalloonSafe, AloneSafe
<1>. QED BY <1>1, <1>3, <1>4, <1>5, <1>6, <1>7 DEF BalloonSafe

LEMMA BalloonsKept ==
    ASSUME TypeInv, BalloonsOK, NodesSame, InodesSame, HoldingSame, b' = b,
           \A k \in Balloons : b[k].pc \in Invalidating => HashNode(k)'.mutex
    PROVE  BalloonsOK'
<1>1. ASSUME NEW k \in Balloons, b[k].pc \in Invalidating, NEW v \in Volumes, w'[v].pc \in Holding
      PROVE  ~ (b[k].vol = v /\ b[k].lbn = w'[v].lbn)
  BY <1>1 DEF BalloonsOK, BalloonSafe, HoldingSame
<1>. QED BY <1>1, BalloonsStay

LEMMA FreeKept ==
    ASSUME TypeInv, FreeOK, NodesSame, InodesSame, TakenSame, freeq' = freeq, b' = b
    PROVE  FreeOK'
<1>1. ASSUME NEW j \in FreeQueues PROVE FreeQueueOK(j)'
  BY DEF FreeOK, FreeQueueOK, NodesSame, InodesSame, TakenSame
<1>2. ASSUME NEW v \in Volumes PROVE TakenOK(v)'
  BY DEF FreeOK, TakenOK, NodesSame, InodesSame, TakenSame
<1>3. ASSUME NEW i \in Inodes PROVE FreeFound(i)'
  BY DEF FreeOK, FreeFound, NodesSame, InodesSame, TakenSame
<1>. QED BY <1>1, <1>2, <1>3 DEF FreeOK

LEMMA DirtyKept ==
    ASSUME TypeInv, DirtyOK, InodesSame, RedirtiedSame, dirtyq' = dirtyq,
           \A t \in Flushers : f'[t].batch = f[t].batch /\ f'[t].failed = f[t].failed
    PROVE  DirtyOK'
<1>1. ASSUME NEW v \in Volumes PROVE DirtyQueueOK(v)'
  <2>1. DirtyQueueOK(v) /\ In(dirtyq[v]) \subseteq Inodes
    BY InType DEF DirtyOK, TypeInv, TypeOK, SharedTypeOK
  <2>. QED BY <2>1 DEF DirtyQueueOK, InodesSame, RedirtiedSame
<1>2. ASSUME NEW i \in Inodes PROVE DirtyFound(i)'
  BY DEF DirtyOK, DirtyFound, InodesSame, RedirtiedSame
<1>. QED BY <1>1, <1>2 DEF DirtyOK

LEMMA VolumesKept ==
    ASSUME VolumesOK, inuseq' = inuseq,
           \A t \in Flushers : (Flushing(t)' <=> Flushing(t)) /\ f'[t].v_idx = f[t].v_idx
    PROVE  VolumesOK'
BY DEF VolumesOK

LEMMA FlusherKept ==
    ASSUME TypeInv, NEW t \in Flushers, FlusherSafe(t), InodesSame, RedirtiedSame, LockingSame,
           f'[t] = f[t], dirtyq'[f[t].v_idx] = dirtyq[f[t].v_idx],
           \A i \in In(f[t].batch) : ilock'[i],
           \A k \in Syncers : Unlocking(k)' => Unlocking(k) /\ s'[k].idx = s[k].idx
    PROVE  FlusherSafe(t)'
<1>1. /\ In(f[t].batch) \subseteq Inodes
      /\ f[t].failed \in Inodes \cup {NoInode}
  BY Types, InType DEF FlusherRec
<1>. QED BY <1>1 DEF FlusherSafe, InodesSame, RedirtiedSame, LockingSame

LEMMA SyncersKept ==
    ASSUME SyncersOK, istate' = istate, LockingSame, syncq' = syncq, s' = s,
           \A i \in Inodes : istate[i] = "SYNC" => ilock'[i],
           \A k \in Syncers : Unlocking(k) => ilock'[s[k].idx]
    PROVE  SyncersOK'
BY DEF SyncersOK, SyncQueueOK, SyncerSafe, SyncFound, LockingSame, Unlocking

\* Only an inode that is being written again is DIRTY and swapping.
LEMMA SwappingDirty ==
    ASSUME TypeInv, WritersOK, NEW i \in Inodes, Swapping(i)
    PROVE  istate[i] = "DIRTY"
BY Types DEF Swapping, WritersOK, WriterSafe, Storing

LEMMA BlocksKept ==
    ASSUME TypeInv, TypeInv', WritersOK, BlocksOK, UNCHANGED <<iblock, vblock>>, SwapSame,
           \A i \in Inodes : istate[i] = "DIRTY" => ivol'[i] = ivol[i]
    PROVE  BlocksOK'
<1>1. ASSUME NEW i \in Inodes PROVE HeldBy(i)' = HeldBy(i)
  <2>1. ivol[i] \in Volumes /\ ivol'[i] \in Volumes
    <3>1. ivol' \in [Inodes -> Volumes]
      BY DEF TypeInv, TypeOK, SharedTypeOK
    <3>. QED BY <3>1, Types
  <2>2. Swapping(i) => ivol'[i] = ivol[i]
    BY SwappingDirty
  <2>3. Swapping(i)' => ivol'[i] = ivol[i]
    <3>1. Swapping(i)' => /\ w[ivol'[i]].pc = "swap_inode" /\ w[ivol'[i]].idx = i
      BY <2>1 DEF Swapping, SwapSame
    <3>. QED BY <2>1, <3>1 DEF WritersOK, WriterSafe, Storing
  <2>4. Swapping(i)' <=> Swapping(i)
    BY <2>1, <2>2, <2>3 DEF Swapping, SwapSame
  <2>. QED BY <2>1, <2>2, <2>4 DEF HeldBy, Swapping, SwapSame
<1>2. ASSUME NEW v \in Volumes PROVE ExchangeOK(v)'
  BY DEF BlocksOK, ExchangeOK, SwapSame
<1>. QED BY <1>1, <1>2 DEF BlocksOK

LEMMA ContentsKept ==
    ASSUME TypeInv, ContentsOK, InodesSame, LatestSame,
           \A v \in Volumes : w'[v].pc \in {"swap_volume", "swap_inode"} =>
              w[v].pc \in {"swap_volume", "swap_inode"} /\ w'[v].ownerless = w[v].ownerless,
           UNCHANGED <<iblock, data, file, disk>>
    PROVE  ContentsOK' /\ FilesKept
<1>1. ASSUME NEW i \in Inodes PROVE InodeHolds(i)'
  <2>1. ivol[i] \in Volumes /\ ilbn[i] \in Lbns
    BY Types
  <2>. QED BY <2>1 DEF ContentsOK, InodeHolds, InodesSame, LatestSame
<1>2. ASSUME NEW v \in Volumes, NEW l \in Lbns, FileHolds(v, l)
      PROVE  FileHolds(v, l)'
  <2>1. Pending(v, l)' = Pending(v, l)
    BY DEF Pending, InodesSame
  <2>. QED BY <1>2, <2>1 DEF FileHolds, LatestSame
<1>3. ASSUME NEW v \in Volumes PROVE CopyHolds(v)'
  BY DEF ContentsOK, CopyHolds, LatestSame
<1>. QED BY <1>1, <1>2, <1>3 DEF ContentsOK, FilesKept

LEMMA FreshKept ==
    ASSUME TypeInv, FreshOK, FlushersOK, SyncersOK, InodesSame, UNCHANGED <<iblock, data, file, disk>>,
           f' = f, s' = s, syncq' = syncq
    PROVE  FreshOK'
<1>1. ASSUME NEW i \in Inodes, istate[i] # "FREE"
      PROVE  (Filed(i)' <=> Filed(i)) /\ (Synced(i)' <=> Synced(i))
  BY <1>1 DEF Filed, Synced, InodesSame
<1>2. ASSUME NEW t \in Flushers PROVE FiledOK(t)'
  <2>1. f[t].pc = "hand_off" => \A m \in 1 .. f[t].run : f[t].batch[m] \in In(f[t].batch)
    BY Types DEF In, TypeInv, FlusherOK, FlusherRec
  <2>2. \A i \in In(f[t].batch) : i \in Inodes /\ istate[i] = "DIRTY"
    BY Types, InType DEF FlusherRec, FlushersOK, FlusherSafe
  <2>. QED BY <1>1, <2>1, <2>2 DEF FreshOK, FiledOK
<1>3. ASSUME NEW k \in Syncers PROVE SyncedOK(k)'
  <2>0. /\ Len(syncq[k]) \in Nat /\ s[k].n \in Nat
        /\ s[k].pc = "clean" => s[k].n <= Len(syncq[k])
        /\ Unlocking(k) => s[k].n - 1 <= Len(syncq[k])
    BY Types DEF SyncersOK, SyncerSafe, SyncerRec, TypeInv, TypeOK, SharedTypeOK
  <2>1. /\ s[k].pc = "clean" => \A m \in 1 .. s[k].n : syncq[k][m] \in In(syncq[k])
        /\ Unlocking(k) => \A m \in 1 .. s[k].n - 1 : syncq[k][m] \in In(syncq[k])
    BY <2>0 DEF In
  <2>2. \A i \in In(syncq[k]) : i \in Inodes /\ istate[i] = "SYNC"
    BY InType DEF SyncersOK, SyncQueueOK, TypeInv, TypeOK, SharedTypeOK
  <2>. QED BY <1>1, <2>1, <2>2 DEF FreshOK, SyncedOK, Unlocking
<1>. QED BY <1>1, <1>2, <1>3 DEF FreshOK, InodesSame

LEMMA TablesStay ==
    /\ node' = node => NodesSame
    /\ UNCHANGED <<istate, ivol, ilbn>> => InodesSame
BY DEF NodesSame, InodesSame

\* A step of a writer that touches no block and no file.
LEMMA StorageKept ==
    ASSUME TypeInv, TypeInv', SafetyInv, InodesSame, SwapSame, LatestSame,
           UNCHANGED <<iblock, vblock, data, syncq, inuseq, file, disk, f, s>>
    PROVE  VolumesOK' /\ BlocksOK' /\ ContentsOK' /\ FilesKept /\ FreshOK'
<1>. USE DEF SafetyInv
<1>1. VolumesOK'
  BY VolumesKept DEF Flushing
<1>2. BlocksOK'
  <2>1. \A i \in Inodes : istate[i] = "DIRTY" => ivol'[i] = ivol[i]
    BY DEF InodesSame
  <2>. QED BY <2>1, BlocksKept
<1>3. ContentsOK' /\ FilesKept
  BY ContentsKept DEF SwapSame
<1>4. FreshOK'
  BY FreshKept
<1>. QED BY <1>1, <1>2, <1>3, <1>4

\* Nor a node.
LEMMA CoreKept ==
    ASSUME TypeInv, TypeInv', SafetyInv, NodesSame, InodesSame, FreshSame, SwapSame, LatestSame,
           UNCHANGED <<iblock, vblock, data, syncq, inuseq, file, disk, f, s, b>>
    PROVE  NodesOK' /\ InUseOK' /\ VolumesOK' /\ BlocksOK' /\ ContentsOK' /\ FilesKept /\ FreshOK'
<1>1. NodesOK'
  BY NodesKept DEF SafetyInv
<1>2. InUseOK'
  BY InUseKept DEF SafetyInv
<1>. QED BY <1>1, <1>2, StorageKept

\* No lock of an inode that a flusher or a syncer holds is released.
LEMMA LocksStay ==
    ASSUME TypeInv, SafetyInv, LocksSame
    PROVE  /\ \A t \in Flushers : \A i \in In(f[t].batch) : ilock'[i]
           /\ \A i \in Inodes : istate[i] = "SYNC" => ilock'[i]
           /\ \A k \in Syncers : Unlocking(k) => ilock'[s[k].idx]
<1>. USE DEF SafetyInv
<1>1. ASSUME NEW t \in Flushers, NEW i \in In(f[t].batch) PROVE ilock'[i]
  <2>1. i \in Inodes
    BY Types, InType DEF FlusherRec
  <2>2. ilock[i] /\ \A v \in Volumes : w[v].pc \in Storing => w[v].idx # i
    BY DEF FlushersOK, FlusherSafe, Storing, Locking
  <2>. QED BY <2>1, <2>2 DEF LocksSame
<1>2. ASSUME NEW i \in Inodes, istate[i] = "SYNC" PROVE ilock'[i]
  <2>1. ilock[i] /\ \A v \in Volumes : w[v].pc \in Storing => w[v].idx # i
    BY <1>2 DEF SyncersOK, SyncFound, WritersOK, WriterSafe
  <2>. QED BY <2>1 DEF LocksSame
<1>3. ASSUME NEW k \in Syncers, Unlocking(k) PROVE ilock'[s[k].idx]
  <2>1. s[k].idx \in Inodes
    BY <1>3 DEF TypeInv, SyncerOK, Unlocking
  <2>2. ilock[s[k].idx] /\ \A v \in Volumes : w[v].pc \in Storing => w[v].idx # s[k].idx
    BY <1>3 DEF SyncersOK, SyncerSafe, Storing, Locking
  <2>. QED BY <2>1, <2>2 DEF LocksSame
<1>. QED BY <1>1, <1>2, <1>3

LEMMA HoldersKept ==
    ASSUME TypeInv, SafetyInv, InodesSame, RedirtiedSame, LockingSame, LocksSame,
           UNCHANGED <<dirtyq, syncq, f, s>>
    PROVE  FlushersOK' /\ SyncersOK'
<1>. USE DEF SafetyInv
<1>1. FlushersOK'
  <2>1. ASSUME NEW t \in Flushers PROVE FlusherSafe(t)'
    BY LocksStay, FlusherKept DEF FlushersOK, Unlocking
  <2>. QED BY <2>1 DEF FlushersOK
<1>2. SyncersOK'
  BY LocksStay, SyncersKept DEF InodesSame
<1>. QED BY <1>1, <1>2

LEMMA LockersKept ==
    ASSUME TypeInv, SafetyInv, InodesSame, RedirtiedSame, LockingSame, LocksSame,
           UNCHANGED <<dirtyq, syncq, f, s>>
    PROVE  DirtyOK' /\ FlushersOK' /\ SyncersOK'
BY HoldersKept, DirtyKept DEF SafetyInv

\* The mutex of a node that a balloon holds stays when no node's is released.
LEMMA MutexStays ==
    ASSUME SafetyInv, node' = node, b' = b
    PROVE  /\ \A k \in Balloons : b[k].pc \in Invalidating => HashNode(k)'.mutex
           /\ \A u \in Volumes : w[u].pc \in Holding => node'[u][w[u].lbn].mutex
BY DEF SafetyInv, BalloonsOK, BalloonSafe, HashNode, WritersOK, WriterSafe, Node

\* The other writers stay as they are.
LEMMA OthersKept ==
    ASSUME TypeInv, SafetyInv, NEW v \in Volumes, NodesSame, InodesSame,
           \A u \in Volumes : u # v => w'[u] = w[u],
           \A u \in Volumes : u # v /\ w[u].pc \in Holding => Node(u)'.mutex,
           \A u \in Volumes : u # v /\ w[u].pc \in Locking => ilock'[w[u].idx],
           \A u \in Volumes : u # v /\ w[u].pc = "insert" =>
              ivol'[w[u].idx] = ivol[w[u].idx] /\ ilbn'[w[u].idx] = ilbn[w[u].idx],
           WriterSafe(v)'
    PROVE  WritersOK'
<1>1. ASSUME NEW u \in Volumes, u # v PROVE WriterSafe(u)'
  <2>1. WriterSafe(u) /\ NodesOK /\ w'[u] = w[u]
    BY <1>1 DEF SafetyInv, WritersOK
  <2>2. w[u].pc = "insert" => ivol'[w[u].idx] = u /\ ilbn'[w[u].idx] = w[u].lbn
    BY <1>1, <2>1 DEF WriterSafe
  <2>3. /\ w[u].pc \in Holding => Node(u)'.mutex
        /\ w[u].pc \in Locking => ilock'[w[u].idx]
    BY <1>1
  <2>. QED BY <2>1, <2>2, <2>3, WriterKept
<1>. QED BY <1>1 DEF WritersOK

(***************************************************************************)
(* The steps of a writer                                                   *)
(***************************************************************************)

\* Steps at which only the writer itself moves.
LEMMA QuietSafe ==
    ASSUME TypeInv, TypeInv', SafetyInv, NEW v \in Volumes, UNCHANGED <<f, s, b>>,
           Call(v) \/ SearchNode(v) \/ FreeCheck(v) \/ TakeTicket(v) \/ CountDirty(v)
    PROVE  SafetyInv' /\ FilesKept
<1>. USE DEF shared, inodeTable, queues, storage
<1>1. /\ UNCHANGED <<istate, ilbn, ivol, iblock, ilock, vblock, data, node, freeq, dirtyq, syncq,
                     inuseq, file, disk, acked>>
      /\ \A u \in Volumes : u # v => w'[u] = w[u]
      /\ w[v].pc # "idle" => w'[v].lbn = w[v].lbn
      /\ w'[v].idx = w[v].idx /\ w'[v].old_state = w[v].old_state
      /\ \/ w[v].pc \in {"idle", "free_check"} /\ w'[v].pc = "search"
         \/ w[v].pc = "search" /\ w'[v].pc = "lock_node" /\ Node(v).exists
         \/ w[v].pc = "search" /\ w'[v].pc = "free_check" /\ ~ (Node(v).exists /\ Node(v).valid)
         \/ w[v].pc = "free_check" /\ w'[v].pc = "take_ticket"
         \/ w[v].pc = "take_ticket" /\ w'[v].pc = "dequeue"
         \/ w[v].pc = "count_dirty" /\ w'[v].pc = "enqueue_dirty"
  <2>0. w \in [Volumes -> WriterRec]
    BY Types
  <2>1. CASE Call(v)
    <3>1. PICK first \in Lbns, last \in Lbns : WriteStart(v, first, last)
      BY <2>1 DEF Call
    <3>. QED BY <2>0, <3>1 DEF WriteStart, At, WriterRec
  <2>2. CASE SearchNode(v)
    BY <2>0, <2>2 DEF SearchNode, At, WriterRec, isValidNode
  <2>3. CASE FreeCheck(v) \/ TakeTicket(v) \/ CountDirty(v)
    BY <2>0, <2>3 DEF FreeCheck, TakeTicket, CountDirty, At, WriterRec
  <2>. QED BY <2>1, <2>2, <2>3
<1>2. WritersSame
  <2>1. FreshSame /\ TakenSame /\ HoldingSame /\ LockingSame /\ RedirtiedSame /\ SwapSame
    BY <1>1 DEF FreshSame, TakenSame, HoldingSame, LockingSame, RedirtiedSame, SwapSame,
                Fresh, Taken, Redirtied, Holding, Locking
  <2>2. LatestSame
    BY <1>1 DEF LatestSame, Exchanging, Latest, Stored, NewContent
  <2>. QED BY <2>1, <2>2 DEF WritersSame
<1>3. NodesSame /\ InodesSame
  BY <1>1, TablesStay
<1>4. WriterSafe(v)'
  <2>1. WriterSafe(v) /\ NodeOK(v, w[v].lbn)
    <3>1. w[v].lbn \in Lbns
      BY Types DEF WriterRec
    <3>. QED BY <3>1 DEF SafetyInv, WritersOK, NodesOK
  <2>2. Node(v)' = node[v][w'[v].lbn]
    BY <1>1 DEF Node
  <2>. QED BY <1>1, <2>1, <2>2 DEF WriterSafe, NodeOK, Missing, Node, Holding, Locking, Storing
<1>5. WritersOK'
  <2>1. \A u \in Volumes : u # v /\ w[u].pc \in Holding => Node(u)'.mutex
    BY <1>1, MutexStays DEF Node
  <2>2. \A u \in Volumes : u # v /\ w[u].pc \in Locking => ilock'[w[u].idx]
    BY <1>1 DEF SafetyInv, WritersOK, WriterSafe
  <2>. QED BY <1>1, <1>3, <1>4, <2>1, <2>2, OthersKept
<1>6. BalloonsOK'
  BY <1>1, <1>2, <1>3, MutexStays, BalloonsKept DEF SafetyInv, WritersSame
<1>7. FreeOK'
  BY <1>1, <1>2, <1>3, FreeKept DEF SafetyInv, WritersSame
<1>8. DirtyOK' /\ FlushersOK' /\ SyncersOK'
  BY <1>1, <1>2, <1>3, LockersKept DEF WritersSame, LocksSame
<1>9. NodesOK' /\ InUseOK' /\ VolumesOK' /\ BlocksOK' /\ ContentsOK' /\ FilesKept /\ FreshOK'
  BY <1>1, <1>2, <1>3, CoreKept DEF WritersSame
<1>. QED BY <1>5, <1>6, <1>7, <1>8, <1>9 DEF SafetyInv

\* getFreeInodeFromFreeLFQueue takes an inode that is nowhere else.
LEMMA DequeueFreeSafe ==
    ASSUME TypeInv, TypeInv', SafetyInv, NEW v \in Volumes, UNCHANGED <<f, s, b>>, DequeueFree(v)
    PROVE  SafetyInv' /\ FilesKept
<1>. USE DEF inodeTable, storage
<1>. DEFINE k == w[v].free_idx
            i == Head(freeq[k])
<1>1. /\ UNCHANGED <<istate, ilbn, ivol, iblock, ilock, vblock, data, node, dirtyq, syncq,
                     inuseq, file, disk, acked>>
      /\ \A u \in Volumes : u # v => w'[u] = w[u]
      /\ w'[v].lbn = w[v].lbn /\ w'[v].idx = i
      /\ w[v].pc = "dequeue" /\ w'[v].pc = "assign"
      /\ k \in FreeQueues /\ freeq[k] # <<>> /\ freeq' = Dequeue(freeq, k)
  <2>0. w \in [Volumes -> WriterRec]
    BY Types
  <2>. QED BY <2>0 DEF DequeueFree, At, WriterRec, FreeQueues
<1>2. /\ freeq \in [FreeQueues -> Seq(Inodes)]
      /\ i \in In(freeq[k]) /\ i \in Inodes
      /\ In(freeq[k]) = In(freeq'[k]) \cup {i}
      /\ Once(freeq[k]) => Once(freeq'[k]) /\ i \notin In(freeq'[k])
      /\ \A j \in FreeQueues : j # k => freeq'[j] = freeq[j]
  <2>1. freeq \in [FreeQueues -> Seq(Inodes)]
    BY DEF TypeInv, TypeOK, SharedTypeOK, FreeQueues
  <2>2. k \in DOMAIN freeq /\ freeq[k] \in Seq(Inodes) /\ freeq[k] # <<>>
    BY <1>1, <2>1
  <2>. HIDE DEF k
  <2>. QED BY <1>1, <2>1, <2>2, DequeueIn
<1>. HIDE DEF i, k
<1>3. FreeQueueOK(k) /\ \A j \in FreeQueues : FreeQueueOK(j)
  BY <1>1 DEF SafetyInv, FreeOK
<1>4. FreshSame /\ HoldingSame /\ LockingSame /\ RedirtiedSame /\ SwapSame /\ LatestSame
  BY <1>1 DEF FreshSame, HoldingSame, LockingSame, RedirtiedSame, SwapSame, Fresh, Redirtied,
              Holding, Locking, LatestSame, Exchanging, Latest, Stored, NewContent
<1>5. NodesSame /\ InodesSame
  BY <1>1, TablesStay
<1>6. WritersOK'
  <2>1. WriterSafe(v)'
    BY <1>1, <1>2, <1>3 DEF SafetyInv, WritersOK, WriterSafe, FreeQueueOK, Missing, Node,
                            Holding, Locking, Storing
  <2>2. \A u \in Volumes : u # v /\ w[u].pc \in Holding => Node(u)'.mutex
    BY <1>1, MutexStays DEF Node
  <2>3. \A u \in Volumes : u # v /\ w[u].pc \in Locking => ilock'[w[u].idx]
    BY <1>1 DEF SafetyInv, WritersOK, WriterSafe
  <2>. QED BY <1>1, <1>5, <2>1, <2>2, <2>3, OthersKept
<1>7. BalloonsOK'
  BY <1>1, <1>4, <1>5, MutexStays, BalloonsKept DEF SafetyInv
<1>8. FreeOK'
  <2>1. ASSUME NEW j \in FreeQueues PROVE FreeQueueOK(j)'
    <3>1. /\ Once(freeq'[j]) /\ i \notin In(freeq'[j]) /\ In(freeq'[j]) \subseteq In(freeq[j])
          /\ \A j2 \in FreeQueues : In(freeq'[j2]) \subseteq In(freeq[j2])
      BY <1>1, <1>2, <1>3 DEF FreeQueueOK
    <3>2. FreeQueueOK(j)
      BY <1>3
    <3>3. ASSUME NEW x \in In(freeq'[j]), NEW u \in Volumes, Taken(u)' PROVE w'[u].idx # x
      <4>1. CASE u = v
        BY <1>1, <3>1, <3>3, <4>1
      <4>2. CASE u # v
        BY <1>1, <3>1, <3>2, <3>3, <4>2 DEF FreeQueueOK, Taken
      <4>. QED BY <4>1, <4>2
    <3>. QED BY <1>1, <3>1, <3>2, <3>3, SMTT(90) DEF FreeQueueOK
  <2>2. ASSUME NEW u \in Volumes PROVE TakenOK(u)'
    <3>1. TakenOK(u)
      BY DEF SafetyInv, FreeOK
    <3>2. CASE u = v
      BY <1>1, <1>2, <1>3, <3>2 DEF FreeQueueOK, TakenOK, Taken
    <3>3. CASE u # v
      BY <1>1, <1>2, <1>3, <3>1, <3>3, SMTT(90) DEF FreeQueueOK, TakenOK, Taken
    <3>. QED BY <3>2, <3>3
  <2>3. ASSUME NEW x \in Inodes PROVE FreeFound(x)'
    <3>1. FreeFound(x)
      BY DEF SafetyInv, FreeOK
    <3>2. CASE x = i
      BY <1>1, <3>2 DEF FreeFound, Taken
    <3>3. CASE x # i
      BY <1>1, <1>2, <3>1, <3>3 DEF FreeFound, Taken
    <3>. QED BY <3>2, <3>3
  <2>. QED BY <2>1, <2>2, <2>3 DEF FreeOK
<1>9. DirtyOK' /\ FlushersOK' /\ SyncersOK'
  BY <1>1, <1>4, <1>5, LockersKept DEF LocksSame
<1>10. NodesOK' /\ InUseOK' /\ VolumesOK' /\ BlocksOK' /\ ContentsOK' /\ FilesKept /\ FreshOK'
  BY <1>1, <1>4, <1>5, CoreKept
<1>. QED BY <1>6, <1>7, <1>8, <1>9, <1>10 DEF SafetyInv

\* The inode that gets a block is not in use, nor in a node.
LEMMA AssignInodeSafe ==
    ASSUME TypeInv, TypeInv', SafetyInv, NEW v \in Volumes, UNCHANGED <<f, s, b>>, AssignInode(v)
    PROVE  SafetyInv' /\ FilesKept
<1>. USE DEF queues, storage
<1>. DEFINE i == w[v].idx
<1>1. /\ UNCHANGED <<istate, iblock, ilock, vblock, data, node, freeq, dirtyq, syncq,
                     inuseq, file, disk, acked>>
      /\ \A u \in Volumes : u # v => w'[u] = w[u]
      /\ w'[v].lbn = w[v].lbn /\ w'[v].idx = i
      /\ w[v].pc = "assign" /\ w'[v].pc = "insert" /\ i \in Inodes
      /\ ivol' = [ivol EXCEPT ![i] = v] /\ ilbn' = [ilbn EXCEPT ![i] = w[v].lbn]
  <2>0. w \in [Volumes -> WriterRec]
    BY Types
  <2>1. w[v].pc = "assign" /\ i \in Inodes
    BY DEF AssignInode, At, TypeInv, WriterOK, HasInode
  <2>. QED BY <2>0, <2>1 DEF AssignInode, WriterRec
<1>. HIDE DEF i
<1>2. /\ istate[i] = "FREE" /\ \A u \in Volumes, l \in Lbns : node[u][l].inode # i
      /\ \A u \in Volumes : u # v /\ w[u].pc = "insert" => w[u].idx # i
  BY <1>1 DEF SafetyInv, WritersOK, WriterSafe, FreeOK, TakenOK, Taken, i
<1>3. NodesSame /\ InodesSame
  BY <1>1, <1>2, Types DEF NodesSame, InodesSame
<1>4. FreshSame /\ TakenSame /\ HoldingSame /\ LockingSame /\ RedirtiedSame /\ SwapSame /\ LatestSame
  BY <1>1 DEF FreshSame, TakenSame, HoldingSame, LockingSame, RedirtiedSame, SwapSame, Fresh,
              Taken, Redirtied, Holding, Locking, LatestSame, Exchanging, Latest, Stored,
              NewContent, i
<1>5. WritersOK'
  <2>1. WriterSafe(v)'
    <3>1. ivol'[i] = v /\ ilbn'[i] = w[v].lbn
      BY <1>1, Types
    <3>2. Node(v)' = Node(v) /\ Node(v).inode = NoInode
      BY <1>1 DEF SafetyInv, WritersOK, WriterSafe, Node, Missing
    <3>. QED BY <1>1, <1>2, <3>1, <3>2 DEF WriterSafe, Missing, Holding, Locking, Storing
  <2>2. \A u \in Volumes : u # v /\ w[u].pc \in Holding => Node(u)'.mutex
    BY <1>1, MutexStays DEF Node
  <2>3. \A u \in Volumes : u # v /\ w[u].pc \in Locking => ilock'[w[u].idx]
    BY <1>1 DEF SafetyInv, WritersOK, WriterSafe
  <2>4. ASSUME NEW u \in Volumes, u # v, w[u].pc = "insert"
        PROVE  ivol'[w[u].idx] = ivol[w[u].idx] /\ ilbn'[w[u].idx] = ilbn[w[u].idx]
    <3>1. w[u].idx \in Inodes /\ w[u].idx # i
      BY <1>2, <2>4 DEF TypeInv, WriterOK, HasInode
    <3>. QED BY <1>1, <3>1, Types
  <2>. QED BY <1>1, <1>3, <2>1, <2>2, <2>3, <2>4, OthersKept
<1>6. BalloonsOK'
  BY <1>1, <1>3, <1>4, MutexStays, BalloonsKept DEF SafetyInv
<1>7. FreeOK'
  BY <1>1, <1>3, <1>4, FreeKept DEF SafetyInv
<1>8. DirtyOK' /\ FlushersOK' /\ SyncersOK'
  BY <1>1, <1>3, <1>4, LockersKept DEF LocksSame
<1>9. NodesOK' /\ InUseOK' /\ VolumesOK' /\ BlocksOK' /\ ContentsOK' /\ FilesKept /\ FreshOK'
  BY <1>1, <1>3, <1>4, CoreKept
<1>. QED BY <1>5, <1>6, <1>7, <1>8, <1>9 DEF SafetyInv

\* The new node leads to an inode that no other node, queue or thread has.
LEMMA InsertNodeSafe ==
    ASSUME TypeInv, TypeInv', SafetyInv, NEW v \in Volumes, UNCHANGED <<f, s, b>>, InsertNode(v)
    PROVE  SafetyInv' /\ FilesKept
<1>. USE DEF inodeTable, queues, storage
<1>. DEFINE i == w[v].idx
            l == w[v].lbn
<1>1. /\ UNCHANGED <<istate, ilbn, ivol, iblock, ilock, vblock, data, freeq, dirtyq, syncq,
                     inuseq, file, disk, acked>>
      /\ \A u \in Volumes : u # v => w'[u] = w[u]
      /\ w'[v].lbn = l /\ w'[v].idx = i
      /\ w[v].pc = "insert" /\ w'[v].pc = "lock_new" /\ i \in Inodes /\ l \in Lbns
  <2>0. w \in [Volumes -> WriterRec]
    BY Types
  <2>1. w[v].pc = "insert" /\ i \in Inodes
    BY DEF InsertNode, At, TypeInv, WriterOK, HasInode
  <2>. QED BY <2>0, <2>1 DEF InsertNode, WriterRec
<1>2. /\ node'[v][l].inode = i /\ node'[v][l].valid /\ node'[v][l].exists
      /\ node[v][l].exists => node'[v][l].mutex = node[v][l].mutex
      /\ \A u \in Volumes, m \in Lbns : u # v \/ m # l => node'[u][m] = node[u][m]
  <2>1. node[v][l] \in Nodes /\ node \in [Volumes -> [Lbns -> Nodes]]
    BY <1>1, Types
  <2>2. node'[v][l] = IF node[v][l].exists THEN validate_hash_node(node[v][l], i)
                                           ELSE new_hash_node(i)
    BY <1>1, <2>1 DEF InsertNode
  <2>3. \A u \in Volumes, m \in Lbns : u # v \/ m # l => node'[u][m] = node[u][m]
    BY <1>1, <2>1 DEF InsertNode
  <2>4. CASE node[v][l].exists
    BY <2>1, <2>2, <2>3, <2>4 DEF Nodes, validate_hash_node
  <2>5. CASE ~ node[v][l].exists
    <3>1. /\ node'[v][l].inode = i /\ node'[v][l].valid = TRUE
          /\ node'[v][l].exists = TRUE
      BY <2>2, <2>5 DEF new_hash_node
    <3>. QED BY <2>3, <2>5, <3>1
  <2>. QED BY <2>4, <2>5
<1>. HIDE DEF i, l
<1>3. /\ istate[i] = "FREE" /\ ivol[i] = v /\ ilbn[i] = l
      /\ node[v][l].inode = NoInode /\ NoInode \notin Inodes
      /\ \A u \in Volumes, m \in Lbns : node[u][m].inode # i
      /\ \A u \in Volumes : Taken(u) /\ w[u].idx = i => u = v
      /\ \A k \in Balloons : b[k].pc = "enqueue" => b[k].idx # i
  <2>1. WriterSafe(v) /\ TakenOK(v) /\ Taken(v)
    BY <1>1 DEF SafetyInv, WritersOK, FreeOK, Taken
  <2>. QED BY <1>1, <2>1, Types DEF WriterSafe, TakenOK, Missing, Node, i, l
<1>4. HoldingSame /\ LockingSame /\ RedirtiedSame /\ SwapSame /\ LatestSame
  BY <1>1 DEF HoldingSame, LockingSame, RedirtiedSame, SwapSame, Redirtied, Holding, Locking,
              LatestSame, Exchanging, Latest, Stored, NewContent
<1>5. InodesSame /\ LocksSame
  BY <1>1, TablesStay DEF LocksSame
<1>6. NodesOK'
  <2>1. ASSUME NEW u \in Volumes, NEW m \in Lbns PROVE NodeOK(u, m)'
    <3>1. NodeOK(u, m)
      BY DEF SafetyInv, NodesOK
    <3>2. CASE u = v /\ m = l
      BY <1>1, <1>2, <1>3, <3>2 DEF NodeOK, Fresh, i, l
    <3>3. CASE u # v
      BY <1>1, <1>2, <3>1, <3>3 DEF NodeOK, Fresh
    <3>4. CASE u = v /\ m # l
      BY <1>1, <1>2, <3>1, <3>4 DEF NodeOK, Fresh
    <3>. QED BY <3>2, <3>3, <3>4
  <2>. QED BY <2>1 DEF NodesOK
<1>7. InUseOK'
  <2>1. ASSUME NEW x \in Inodes, istate[x] # "FREE", ~ Unhooking(x)
        PROVE  node'[ivol[x]][ilbn[x]].inode = x
    <3>1. node[ivol[x]][ilbn[x]].inode = x /\ ivol[x] \in Volumes /\ ilbn[x] \in Lbns
      BY <2>1, Types DEF SafetyInv, InUseOK
    <3>2. ivol[x] # v \/ ilbn[x] # l
      BY <1>3, <3>1
    <3>. QED BY <1>2, <3>1, <3>2
  <2>. QED BY <1>1, <2>1 DEF InUseOK, Unhooking
<1>8. WritersOK'
  <2>1. WriterSafe(v)'
    BY <1>1, <1>2, <1>3 DEF WriterSafe, Missing, Node, Holding, Locking, Storing, i, l
  <2>2. ASSUME NEW u \in Volumes, u # v PROVE WriterSafe(u)'
    <3>1. WriterSafe(u) /\ w[u].lbn \in Lbns
      BY Types DEF SafetyInv, WritersOK, WriterRec
    <3>2. Node(u)' = Node(u)
      BY <1>1, <1>2, <2>2, <3>1 DEF Node
    <3>. QED BY <1>1, <2>2, <3>1, <3>2 DEF WriterSafe, Missing
  <2>. QED BY <2>1, <2>2 DEF WritersOK
<1>9. BalloonsOK'
  <2>1. ASSUME NEW k \in Balloons PROVE BalloonSafe(k)'
    <3>1. BalloonSafe(k) /\ b'[k] = b[k] /\ b[k].vol \in Volumes /\ b[k].lbn \in Lbns
      BY Types DEF SafetyInv, BalloonsOK, BalloonRec
    <3>2. b[k].pc # "idle" => b[k].idx \in Inodes
      BY DEF TypeInv, BalloonOK
    <3>3. CASE b[k].vol = v /\ b[k].lbn = l
      <4>1. HashNode(k).inode = NoInode /\ HashNode(k)'.inode = i
        BY <1>1, <1>2, <1>3, <3>1, <3>3 DEF HashNode
      <4>2. /\ NumBalloons = 1 => b[k].pc \notin Looking
            /\ b[k].pc # "delete"
        BY <1>3, <3>1, <3>2, <4>1 DEF BalloonSafe, AloneSafe, Looking
      <4>3. HashNode(k).exists => HashNode(k)'.exists /\ HashNode(k)'.mutex = HashNode(k).mutex
        BY <1>1, <1>2, <3>1, <3>3 DEF HashNode
      <4>4. \A u \in Volumes, m \in Lbns :
                b[k].pc \in {"free", "enqueue"} => node'[u][m].inode # b[k].idx
        BY <1>2, <1>3, <3>1 DEF BalloonSafe
      <4>. QED BY <1>1, <1>3, <1>4, <3>1, <4>1, <4>2, <4>3, <4>4
           DEF BalloonSafe, AloneSafe, Looking, Invalidating, HoldingSame
    <3>4. CASE ~ (b[k].vol = v /\ b[k].lbn = l)
      <4>1. HashNode(k)' = HashNode(k)
        BY <1>1, <1>2, <3>1, <3>4 DEF HashNode
      <4>2. \A u \in Volumes, m \in Lbns :
                b[k].pc \in {"free", "enqueue"} => node'[u][m].inode # b[k].idx
        BY <1>2, <1>3, <3>1 DEF BalloonSafe
      <4>. QED BY <1>1, <1>4, <3>1, <4>1, <4>2
           DEF BalloonSafe, AloneSafe, Looking, Invalidating, HoldingSame
    <3>. QED BY <3>3, <3>4
  <2>. QED BY <2>1 DEF BalloonsOK
<1>10. FreeOK'
  <2>0. \A u \in Volumes : (Taken(u)' <=> Taken(u) /\ u # v) /\ (u # v => w'[u] = w[u])
    BY <1>1 DEF Taken
  <2>1. ASSUME NEW j \in FreeQueues PROVE FreeQueueOK(j)'
    <3>1. FreeQueueOK(j) /\ Taken(v)
      BY <1>1 DEF SafetyInv, FreeOK, Taken
    <3>2. \A x \in In(freeq[j]) : \A u \in Volumes, m \in Lbns : node'[u][m].inode # x
      BY <1>2, <3>1 DEF FreeQueueOK, i
    <3>. QED BY <1>1, <2>0, <3>1, <3>2 DEF FreeQueueOK
  <2>2. ASSUME NEW u \in Volumes PROVE TakenOK(u)'
    <3>1. TakenOK(u)
      BY DEF SafetyInv, FreeOK
    <3>. QED BY <1>1, <1>2, <1>3, <2>0, <3>1 DEF TakenOK
  <2>3. ASSUME NEW x \in Inodes PROVE FreeFound(x)'
    <3>1. FreeFound(x)
      BY DEF SafetyInv, FreeOK
    <3>2. CASE x = i
      BY <1>1, <1>2, <3>2 DEF FreeFound
    <3>3. ASSUME x # i, NEW u \in Volumes, NEW m \in Lbns, node[u][m].inode = x
          PROVE  node'[u][m].inode = x
      BY <1>2, <1>3, <3>3
    <3>4. CASE x # i
      BY <1>1, <2>0, <3>1, <3>3, <3>4 DEF FreeFound, i
    <3>. QED BY <3>2, <3>4
  <2>. QED BY <2>1, <2>2, <2>3 DEF FreeOK
<1>11. DirtyOK' /\ FlushersOK' /\ SyncersOK'
  BY <1>1, <1>4, <1>5, LockersKept
<1>12. VolumesOK' /\ BlocksOK' /\ ContentsOK' /\ FilesKept /\ FreshOK'
  BY <1>1, <1>4, <1>5, StorageKept
<1>. QED BY <1>6, <1>7, <1>8, <1>9, <1>10, <1>11, <1>12 DEF SafetyInv

\* The mutex of a node is taken when nobody holds it and released by the
\* writer that holds it.
LEMMA MutexSafe ==
    ASSUME TypeInv, TypeInv', SafetyInv, NEW v \in Volumes, UNCHANGED <<f, s, b>>,
           LockNewNode(v) \/ LockNode(v) \/ RecheckNode(v) \/ UnlockNode(v)
    PROVE  SafetyInv' /\ FilesKept
<1>. USE DEF inodeTable, queues, storage
<1>. DEFINE l == w[v].lbn
<1>0. /\ w \in [Volumes -> WriterRec] /\ node \in [Volumes -> [Lbns -> Nodes]]
      /\ acked \in [Volumes -> [Lbns -> 0 .. MaxWrites]]
      /\ l \in Lbns /\ node[v][l] \in Nodes
  BY Types DEF WriterRec, TypeInv, TypeOK, WriterTypeOK
<1>1. /\ UNCHANGED <<istate, ilbn, ivol, iblock, ilock, vblock, data, freeq, dirtyq, syncq,
                     inuseq, file, disk>>
      /\ \A u \in Volumes : u # v => w'[u] = w[u]
  BY <1>0 DEF LockNewNode, LockNode, RecheckNode, UnlockNode
<1>2. \E m \in BOOLEAN :
         /\ node' = node \/ node' = [node EXCEPT ![v][l].mutex = m]
         /\ \/ /\ w[v].pc = "lock_new" /\ w'[v].pc = "lock_inode" /\ w'[v].lbn = l
               /\ w'[v].idx = w[v].idx
               /\ ~ node[v][l].mutex /\ node'[v][l].mutex /\ acked' = acked
            \/ /\ w[v].pc = "lock_node" /\ w'[v].pc = "recheck" /\ w'[v].lbn = l
               /\ ~ node[v][l].mutex /\ node'[v][l].mutex /\ acked' = acked
            \/ /\ w[v].pc = "recheck" /\ w'[v].pc = "lock_inode" /\ w'[v].lbn = l
               /\ node[v][l].valid /\ node' = node /\ acked' = acked
            \/ /\ w[v].pc = "recheck" /\ w'[v].pc = "search" /\ acked' = acked
            \/ /\ w[v].pc = "unlock_node" /\ w'[v].pc \in {"idle", "search"}
               /\ acked' = [acked EXCEPT ![v][l] = @ + 1]
  <2>1. CASE LockNewNode(v)
    BY <1>0, <2>1, ZenonT(90) DEF LockNewNode, At, Node, WriterRec, Nodes
  <2>2. CASE LockNode(v)
    BY <1>0, <2>2 DEF LockNode, At, Node, WriterRec, Nodes
  <2>3. CASE RecheckNode(v)
    <3>1. w[v].pc = "recheck" /\ acked' = acked /\ w'[v].lbn = l
      BY <1>0, <2>3 DEF RecheckNode, At, WriterRec
    <3>2. CASE node[v][l].valid
      BY <1>0, <2>3, <3>1, <3>2, ZenonT(90) DEF RecheckNode, Node, WriterRec
    <3>3. CASE ~ node[v][l].valid
      <4>1. w'[v].pc = "search"
        BY <1>0, <2>3, <3>3 DEF RecheckNode, Node, WriterRec
      <4>2. node' = [node EXCEPT ![v][l].mutex = FALSE]
        BY <2>3, <3>3 DEF RecheckNode, Node
      <4>. QED BY <3>1, <4>1, <4>2
    <3>. QED BY <3>2, <3>3
  <2>4. CASE UnlockNode(v)
    BY <1>0, <2>4 DEF UnlockNode, At, Node, WriterRec, Idle
  <2>. QED BY <2>1, <2>2, <2>3, <2>4
<1>3. /\ \A u \in Volumes, m \in Lbns :
            /\ node'[u][m].inode = node[u][m].inode /\ node'[u][m].valid = node[u][m].valid
            /\ node'[u][m].exists = node[u][m].exists
            /\ u # v \/ m # l => node'[u][m] = node[u][m]
  BY <1>0, <1>2, SMTT(90) DEF Nodes
<1>. HIDE DEF l
<1>4. NodesSame /\ InodesSame /\ LocksSame
  BY <1>1, <1>3, TablesStay DEF NodesSame, LocksSame
<1>5. FreshSame /\ TakenSame /\ LockingSame /\ RedirtiedSame /\ SwapSame
  BY <1>1, <1>2 DEF FreshSame, TakenSame, LockingSame, RedirtiedSame, SwapSame, Fresh, Taken,
                    Redirtied, Locking, l
<1>6. LatestSame
  <2>1. ASSUME NEW u \in Volumes, NEW m \in Lbns
        PROVE  (Exchanging(u, m)' <=> Exchanging(u, m)) /\ Latest(u, m)' = Latest(u, m)
    <3>1. CASE u = v
      <4>1. acked[v][m] \in Int /\ (m # l => acked'[v][m] = acked[v][m])
        BY <1>0, <1>2
      <4>2. CASE w[v].pc = "unlock_node"
        <5>1. acked'[v][l] = acked[v][l] + 1 /\ w'[v].pc \in {"idle", "search"}
          BY <1>0, <1>2, <4>2
        <5>. QED BY <3>1, <4>1, <4>2, <5>1 DEF Exchanging, Latest, Stored, l
      <4>3. CASE w[v].pc # "unlock_node"
        BY <1>2, <3>1, <4>3 DEF Exchanging, Latest, Stored
      <4>. QED BY <4>2, <4>3
    <3>2. CASE u # v
      <4>1. acked'[u] = acked[u]
        BY <1>0, <1>2, <3>2
      <4>. QED BY <1>1, <3>2, <4>1 DEF Exchanging, Latest, Stored
    <3>. QED BY <3>1, <3>2
  <2>2. ASSUME NEW u \in Volumes, w'[u].pc \in {"swap_volume", "swap_inode"}
        PROVE  NewContent(u)' = NewContent(u)
    <3>1. u # v
      BY <1>2, <2>2
    <3>2. acked'[u] = acked[u] /\ w'[u] = w[u]
      BY <1>0, <1>1, <1>2, <3>1
    <3>. QED BY <3>2 DEF NewContent
  <2>. QED BY <2>1, <2>2 DEF LatestSame
<1>7. NodeOK(v, l) /\ WriterSafe(v)
  BY <1>0 DEF SafetyInv, NodesOK, WritersOK
<1>8. WritersOK'
  <2>1. WriterSafe(v)'
    <3>1. w'[v].pc \in {"recheck", "lock_inode"} =>
             /\ Node(v)'.inode = Node(v).inode /\ Node(v)'.exists = Node(v).exists
             /\ Node(v)'.valid = Node(v).valid
      BY <1>0, <1>2, <1>3 DEF Node, l
    <3>2. w'[v].pc \in {"recheck", "lock_inode"} => Node(v)'.mutex
      BY <1>0, <1>2, <1>7 DEF Node, WriterSafe, Holding, l
    <3>3. w'[v].pc = "lock_inode" => Node(v)'.inode # NoInode
      BY <1>2, <1>7, <3>1, Types DEF WriterSafe, NodeOK, Node, l, Locking
    <3>4. w'[v].pc \in {"recheck", "lock_inode"} => Node(v)'.exists
      BY <1>2, <1>7, <3>1 DEF WriterSafe, Holding
    <3>5. w'[v].pc \in {"idle", "search", "recheck", "lock_inode"}
      BY <1>2
    <3>. QED BY <3>2, <3>3, <3>4, <3>5 DEF WriterSafe, Missing, Holding, Locking, Storing
  <2>2. \A u \in Volumes : u # v /\ w[u].pc \in Holding => Node(u)'.mutex
    <3>1. \A u \in Volumes : w[u].lbn \in Lbns
      BY <1>0 DEF WriterRec
    <3>. QED BY <1>1, <1>3, <3>1 DEF SafetyInv, WritersOK, WriterSafe, Node
  <2>3. \A u \in Volumes : u # v /\ w[u].pc \in Locking => ilock'[w[u].idx]
    BY <1>1 DEF SafetyInv, WritersOK, WriterSafe
  <2>. QED BY <1>1, <1>4, <2>1, <2>2, <2>3, OthersKept
<1>9. BalloonsOK'
  <2>1. ASSUME NEW k \in Balloons, b[k].pc \in Invalidating
        PROVE  /\ HashNode(k)'.mutex
               /\ \A u \in Volumes :
                     w'[u].pc \in Holding => ~ (b[k].vol = u /\ b[k].lbn = w'[u].lbn)
    <3>1. BalloonSafe(k) /\ b[k].vol \in Volumes /\ b[k].lbn \in Lbns /\ b'[k] = b[k]
      BY Types DEF SafetyInv, BalloonsOK, BalloonRec
    <3>2. ~ (b[k].vol = v /\ b[k].lbn = l)
      BY <1>2, <2>1, <3>1 DEF BalloonSafe, HashNode, Holding, l
    <3>3. HashNode(k)'.mutex
      BY <1>3, <2>1, <3>1, <3>2 DEF BalloonSafe, HashNode
    <3>4. ASSUME NEW u \in Volumes, w'[u].pc \in Holding
          PROVE  ~ (b[k].vol = u /\ b[k].lbn = w'[u].lbn)
      <4>1. CASE u = v
        BY <1>2, <3>2, <3>4, <4>1 DEF Holding
      <4>2. CASE u # v
        BY <1>1, <2>1, <3>1, <3>4, <4>2 DEF BalloonSafe
      <4>. QED BY <4>1, <4>2
    <3>. QED BY <3>3, <3>4
  <2>. QED BY <1>1, <1>4, <2>1, BalloonsStay DEF SafetyInv
<1>10. FreeOK'
  BY <1>1, <1>4, <1>5, FreeKept DEF SafetyInv
<1>11. DirtyOK' /\ FlushersOK' /\ SyncersOK'
  BY <1>1, <1>4, <1>5, LockersKept
<1>12. NodesOK' /\ InUseOK' /\ VolumesOK' /\ BlocksOK' /\ ContentsOK' /\ FilesKept /\ FreshOK'
  BY <1>1, <1>4, <1>5, <1>6, CoreKept
<1>. QED BY <1>8, <1>9, <1>10, <1>11, <1>12 DEF SafetyInv

\* What a writer knows of the inode that it has locked.
LEMMA LockedInode ==
    ASSUME TypeInv, SafetyInv, NEW v \in Volumes, w[v].pc \in Locking
    PROVE  /\ w[v].idx \in Inodes /\ w[v].lbn \in Lbns
           /\ node[v][w[v].lbn].inode = w[v].idx
           /\ ivol[w[v].idx] = v /\ ilbn[w[v].idx] = w[v].lbn
           /\ \A u \in Volumes : w[u].pc \in Locking /\ w[u].idx = w[v].idx => u = v
           /\ \A u \in Volumes, m \in Lbns :
                 node[u][m].inode = w[v].idx => u = v /\ m = w[v].lbn
           /\ \A t \in Flushers : w[v].idx \notin In(f[t].batch)
           /\ \A k \in Syncers : Unlocking(k) => s[k].idx # w[v].idx
<1>1. ASSUME NEW u \in Volumes, w[u].pc \in Locking
      PROVE  /\ w[u].idx \in Inodes /\ w[u].lbn \in Lbns
             /\ node[u][w[u].lbn].inode = w[u].idx
             /\ ivol[w[u].idx] = u /\ ilbn[w[u].idx] = w[u].lbn
  <2>1. WriterSafe(u) /\ w[u].lbn \in Lbns
    BY Types DEF SafetyInv, WritersOK, WriterRec
  <2>2. w[u].idx \in Inodes /\ node[u][w[u].lbn].inode = w[u].idx
    BY <1>1, <2>1 DEF WriterSafe, Node
  <2>3. NodeOK(u, w[u].lbn) /\ w[u].idx # NoInode
    BY <2>1, <2>2, Types DEF SafetyInv, NodesOK
  <2>. QED BY <2>1, <2>2, <2>3 DEF NodeOK
<1>2. ASSUME NEW u \in Volumes, NEW m \in Lbns, node[u][m].inode = w[v].idx
      PROVE  u = v /\ m = w[v].lbn
  <2>1. NodeOK(u, m) /\ w[v].idx # NoInode
    BY <1>1, Types DEF SafetyInv, NodesOK
  <2>. QED BY <1>1, <1>2, <2>1 DEF NodeOK
<1>3. \A u \in Volumes : w[u].pc \in Locking /\ w[u].idx = w[v].idx => u = v
  BY <1>1
<1>4. /\ \A t \in Flushers : w[v].idx \notin In(f[t].batch)
      /\ \A k \in Syncers : Unlocking(k) => s[k].idx # w[v].idx
  BY DEF SafetyInv, FlushersOK, FlusherSafe, SyncersOK, SyncerSafe
<1>. QED BY <1>1, <1>2, <1>3, <1>4

\* The lock of an inode is taken when nobody holds it.
LEMMA LockInodeSafe ==
    ASSUME TypeInv, TypeInv', SafetyInv, NEW v \in Volumes, UNCHANGED <<f, s, b>>, LockInode(v)
    PROVE  SafetyInv' /\ FilesKept
<1>. USE DEF queues, storage
<1>. DEFINE i == Node(v).inode
<1>1. /\ UNCHANGED <<istate, ilbn, ivol, iblock, vblock, data, node, freeq, dirtyq, syncq,
                     inuseq, file, disk, acked>>
      /\ \A u \in Volumes : u # v => w'[u] = w[u]
      /\ w'[v].lbn = w[v].lbn /\ w'[v].idx = i
      /\ w[v].pc = "lock_inode" /\ w'[v].pc = "set_dirty"
      /\ i # NoInode /\ ~ ilock[i] /\ ilock' = [ilock EXCEPT ![i] = TRUE]
  <2>0. w \in [Volumes -> WriterRec]
    BY Types
  <2>. QED BY <2>0 DEF LockInode, At, WriterRec
<1>2. /\ i \in Inodes /\ istate[i] # "SYNC" /\ WriterSafe(v)
      /\ ilock'[i] /\ \A j \in Inodes : ilock[j] => ilock'[j]
  <2>1. node[v][w[v].lbn] \in Nodes
    BY Types DEF WriterRec
  <2>2. i \in Inodes
    BY <1>1, <2>1 DEF Node, Nodes
  <2>3. istate[i] # "SYNC"
    BY <1>1, <2>2 DEF SafetyInv, SyncersOK, SyncFound
  <2>4. WriterSafe(v)
    BY DEF SafetyInv, WritersOK
  <2>. QED BY <1>1, <2>2, <2>3, <2>4, Types
<1>3. FreshSame /\ TakenSame /\ HoldingSame /\ LockingSame /\ RedirtiedSame /\ SwapSame /\ LatestSame
  BY <1>1 DEF FreshSame, TakenSame, HoldingSame, LockingSame, RedirtiedSame, SwapSame, Fresh,
              Taken, Redirtied, Holding, Locking, LatestSame, Exchanging, Latest, Stored,
              NewContent
<1>4. NodesSame /\ InodesSame /\ LocksSame
  BY <1>1, <1>2, TablesStay DEF LocksSame
<1>5. WritersOK'
  <2>1. WriterSafe(v)'
    <3>1. Node(v)' = Node(v)
      BY <1>1 DEF Node
    <3>. QED BY <1>1, <1>2, <3>1 DEF WriterSafe, Missing, Holding, Locking, Storing
  <2>2. \A u \in Volumes : u # v /\ w[u].pc \in Holding => Node(u)'.mutex
    BY <1>1, MutexStays DEF Node
  <2>3. \A u \in Volumes : u # v /\ w[u].pc \in Locking => ilock'[w[u].idx]
    BY <1>2 DEF SafetyInv, WritersOK, WriterSafe
  <2>. QED BY <1>1, <1>4, <2>1, <2>2, <2>3, OthersKept
<1>6. BalloonsOK'
  BY <1>1, <1>3, <1>4, MutexStays, BalloonsKept DEF SafetyInv
<1>7. FreeOK'
  BY <1>1, <1>3, <1>4, FreeKept DEF SafetyInv
<1>8. DirtyOK' /\ FlushersOK' /\ SyncersOK'
  BY <1>1, <1>3, <1>4, LockersKept
<1>9. NodesOK' /\ InUseOK' /\ VolumesOK' /\ BlocksOK' /\ ContentsOK' /\ FilesKept /\ FreshOK'
  BY <1>1, <1>3, <1>4, CoreKept
<1>. QED BY <1>5, <1>6, <1>7, <1>8, <1>9 DEF SafetyInv

\* It is released by the writer that took it.
LEMMA UnlockInodeSafe ==
    ASSUME TypeInv, TypeInv', SafetyInv, NEW v \in Volumes, UNCHANGED <<f, s, b>>, UnlockInode(v)
    PROVE  SafetyInv' /\ FilesKept
<1>. USE DEF queues, storage
<1>. DEFINE i == w[v].idx
<1>1. /\ UNCHANGED <<istate, ilbn, ivol, iblock, vblock, data, node, freeq, dirtyq, syncq,
                     inuseq, file, disk, acked>>
      /\ \A u \in Volumes : u # v => w'[u] = w[u]
      /\ w'[v].lbn = w[v].lbn /\ w'[v].idx = i
      /\ w[v].pc = "unlock_inode" /\ w'[v].pc = "unlock_node"
      /\ ilock' = [ilock EXCEPT ![i] = FALSE]
  <2>0. w \in [Volumes -> WriterRec]
    BY Types
  <2>. QED BY <2>0 DEF UnlockInode, At, WriterRec
<1>2. /\ i \in Inodes /\ WriterSafe(v)
      /\ \A u \in Volumes : w[u].pc \in Locking /\ w[u].idx = i => u = v
      /\ \A j \in Inodes : j # i => ilock'[j] = ilock[j]
  <2>1. w[v].pc \in Locking
    BY <1>1 DEF Locking
  <2>2. WriterSafe(v)
    BY DEF SafetyInv, WritersOK
  <2>. QED BY <1>1, <2>1, <2>2, LockedInode, Types
<1>3. FreshSame /\ TakenSame /\ HoldingSame /\ LockingSame /\ RedirtiedSame /\ SwapSame /\ LatestSame
  BY <1>1 DEF FreshSame, TakenSame, HoldingSame, LockingSame, RedirtiedSame, SwapSame, Fresh,
              Taken, Redirtied, Holding, Locking, LatestSame, Exchanging, Latest, Stored,
              NewContent
<1>4. NodesSame /\ InodesSame /\ LocksSame
  BY <1>1, <1>2, TablesStay DEF LocksSame, Storing
<1>5. WritersOK'
  <2>1. WriterSafe(v)'
    <3>1. Node(v)' = Node(v)
      BY <1>1 DEF Node
    <3>. QED BY <1>1, <1>2, <3>1 DEF WriterSafe, Missing, Holding, Locking, Storing
  <2>2. \A u \in Volumes : u # v /\ w[u].pc \in Holding => Node(u)'.mutex
    BY <1>1, MutexStays DEF Node
  <2>3. ASSUME NEW u \in Volumes, u # v, w[u].pc \in Locking PROVE ilock'[w[u].idx]
    <3>1. ilock[w[u].idx] /\ w[u].idx \in Inodes
      BY <2>3 DEF SafetyInv, WritersOK, WriterSafe
    <3>. QED BY <1>2, <2>3, <3>1
  <2>. QED BY <1>1, <1>4, <2>1, <2>2, <2>3, OthersKept
<1>6. BalloonsOK'
  BY <1>1, <1>3, <1>4, MutexStays, BalloonsKept DEF SafetyInv
<1>7. FreeOK'
  BY <1>1, <1>3, <1>4, FreeKept DEF SafetyInv
<1>8. DirtyOK' /\ FlushersOK' /\ SyncersOK'
  BY <1>1, <1>3, <1>4, LockersKept
<1>9. NodesOK' /\ InUseOK' /\ VolumesOK' /\ BlocksOK' /\ ContentsOK' /\ FilesKept /\ FreshOK'
  BY <1>1, <1>3, <1>4, CoreKept
<1>. QED BY <1>5, <1>6, <1>7, <1>8, <1>9 DEF SafetyInv

\* The inode that the writer made dirty is queued once.
LEMMA EnqueueDirtySafe ==
    ASSUME TypeInv, TypeInv', SafetyInv, NEW v \in Volumes, UNCHANGED <<f, s, b>>, EnqueueDirty(v)
    PROVE  SafetyInv' /\ FilesKept
<1>. USE DEF inodeTable, storage
<1>. DEFINE i == w[v].idx
<1>1. /\ UNCHANGED <<istate, ilbn, ivol, iblock, ilock, vblock, data, node, freeq, syncq,
                     inuseq, file, disk, acked>>
      /\ \A u \in Volumes : u # v => w'[u] = w[u]
      /\ w'[v].lbn = w[v].lbn /\ w'[v].idx = i
      /\ w[v].pc = "enqueue_dirty" /\ w'[v].pc = "unlock_inode"
      /\ dirtyq' = Enqueue(dirtyq, v, i)
  <2>0. w \in [Volumes -> WriterRec]
    BY Types
  <2>. QED BY <2>0 DEF EnqueueDirty, At, WriterRec
<1>2. /\ i \in Inodes /\ ivol[i] = v /\ istate[i] = "DIRTY" /\ WriterSafe(v)
      /\ \A u \in Volumes : Redirtied(u) /\ w[u].idx = i => u = v
      /\ \A t \in Flushers : i \notin In(f[t].batch)
      /\ Redirtied(v)
  <2>1. w[v].pc \in Locking /\ w[v].pc \in Storing
    BY <1>1 DEF Locking, Storing
  <2>2. WriterSafe(v)
    BY DEF SafetyInv, WritersOK
  <2>3. Redirtied(v) /\ \A u \in Volumes : Redirtied(u) => w[u].pc \in Locking
    BY <1>1, <2>2 DEF Redirtied, Locking, WriterSafe
  <2>4. istate[i] = "DIRTY"
    BY <2>1, <2>2 DEF WriterSafe
  <2>. QED BY <2>1, <2>2, <2>3, <2>4, LockedInode
<1>3. /\ In(dirtyq'[v]) = In(dirtyq[v]) \cup {i}
      /\ Once(dirtyq'[v])
      /\ \A u \in Volumes : u # v => dirtyq'[u] = dirtyq[u]
  <2>1. dirtyq \in [Volumes -> Seq(Inodes)]
    BY DEF TypeInv, TypeOK, SharedTypeOK
  <2>2. v \in DOMAIN dirtyq /\ dirtyq[v] \in Seq(Inodes) /\ DOMAIN dirtyq = Volumes
    BY <2>1
  <2>3. Once(dirtyq[v]) /\ i \notin In(dirtyq[v])
    BY <1>2 DEF SafetyInv, DirtyOK, DirtyQueueOK
  <2>. QED BY <1>1, <1>2, <2>2, <2>3, EnqueueIn
<1>. HIDE DEF i
<1>4. FreshSame /\ TakenSame /\ HoldingSame /\ LockingSame /\ SwapSame /\ LatestSame
  BY <1>1 DEF FreshSame, TakenSame, HoldingSame, LockingSame, SwapSame, Fresh, i,
              Taken, Holding, Locking, LatestSame, Exchanging, Latest, Stored, NewContent
<1>5. NodesSame /\ InodesSame /\ LocksSame
  BY <1>1, TablesStay DEF LocksSame
<1>6. WritersOK'
  <2>1. WriterSafe(v)'
    <3>1. Node(v)' = Node(v)
      BY <1>1 DEF Node
    <3>. QED BY <1>1, <1>2, <3>1 DEF WriterSafe, Missing, Holding, Locking, Storing, i
  <2>2. \A u \in Volumes : u # v /\ w[u].pc \in Holding => Node(u)'.mutex
    BY <1>1, MutexStays DEF Node
  <2>3. \A u \in Volumes : u # v /\ w[u].pc \in Locking => ilock'[w[u].idx]
    BY <1>1 DEF SafetyInv, WritersOK, WriterSafe
  <2>. QED BY <1>1, <1>5, <2>1, <2>2, <2>3, OthersKept
<1>7. BalloonsOK'
  BY <1>1, <1>4, <1>5, MutexStays, BalloonsKept DEF SafetyInv
<1>8. FreeOK'
  BY <1>1, <1>4, <1>5, FreeKept DEF SafetyInv
<1>9. /\ ~ Redirtied(v)'
      /\ \A u \in Volumes : u # v => (Redirtied(u)' <=> Redirtied(u)) /\ w'[u].idx = w[u].idx
  BY <1>1 DEF Redirtied
<1>10. DirtyOK'
  <2>1. ASSUME NEW u \in Volumes PROVE DirtyQueueOK(u)'
    <3>1. DirtyQueueOK(u) /\ DirtyQueueOK(v)
      BY DEF SafetyInv, DirtyOK
    <3>2. CASE u = v
      BY <1>1, <1>2, <1>3, <1>9, <3>1, <3>2 DEF DirtyQueueOK
    <3>3. CASE u # v
      BY <1>1, <1>3, <1>9, <3>1, <3>3 DEF DirtyQueueOK
    <3>. QED BY <3>2, <3>3
  <2>2. ASSUME NEW x \in Inodes PROVE DirtyFound(x)'
    <3>1. DirtyFound(x) /\ ivol[x] \in Volumes
      BY Types DEF SafetyInv, DirtyOK
    <3>2. CASE x = i
      BY <1>1, <1>2, <1>3, <3>2 DEF DirtyFound
    <3>3. CASE x # i
      BY <1>1, <1>3, <1>9, <3>1, <3>3 DEF DirtyFound, i
    <3>. QED BY <3>2, <3>3
  <2>. QED BY <2>1, <2>2 DEF DirtyOK
<1>11. FlushersOK'
  <2>1. ASSUME NEW t \in Flushers PROVE FlusherSafe(t)'
    <3>1. FlusherSafe(t) /\ f'[t] = f[t] /\ f[t].v_idx \in Volumes
      BY Types DEF SafetyInv, FlushersOK, FlusherRec
    <3>2. /\ i \notin In(f[t].batch) /\ (f[t].failed # NoInode => f[t].failed # i)
      BY <1>2, <3>1 DEF FlusherSafe, i
    <3>3. \A x : x # i /\ x \notin In(dirtyq[f[t].v_idx]) => x \notin In(dirtyq'[f[t].v_idx])
      BY <1>3, <3>1
    <3>4. \A u \in Volumes : Redirtied(u)' => Redirtied(u) /\ w'[u].idx = w[u].idx
      BY <1>9
    <3>5. \A u \in Volumes : w'[u].pc \in Locking => w[u].pc \in Locking /\ w'[u].idx = w[u].idx
      BY <1>1 DEF Locking, i
    <3>. QED BY <1>1, <3>1, <3>2, <3>3, <3>4, <3>5 DEF FlusherSafe, Unlocking
  <2>. QED BY <2>1 DEF FlushersOK
<1>12. SyncersOK'
  BY <1>1, <1>4, <1>5, LocksStay, SyncersKept DEF SafetyInv
<1>13. NodesOK' /\ InUseOK' /\ VolumesOK' /\ BlocksOK' /\ ContentsOK' /\ FilesKept /\ FreshOK'
  BY <1>1, <1>4, <1>5, CoreKept
<1>. QED BY <1>6, <1>7, <1>8, <1>10, <1>11, <1>12, <1>13 DEF SafetyInv

\* A block that is being exchanged is not the block of an inode that a
\* flusher or a syncer has.
LEMMA NotSwapping ==
    ASSUME TypeInv, SafetyInv, NEW i \in Inodes
    PROVE  /\ istate[i] = "SYNC" => HeldBy(i) = iblock[i]
           /\ \A t \in Flushers : i \in In(f[t].batch) => HeldBy(i) = iblock[i]
           /\ istate[i] # "FREE" /\ ~ Exchanging(ivol[i], ilbn[i]) => HeldBy(i) = iblock[i]
<1>1. Swapping(i) => /\ istate[i] = "DIRTY"
                     /\ \A t \in Flushers : i \notin In(f[t].batch)
                     /\ Exchanging(ivol[i], ilbn[i])
  <2>. SUFFICES ASSUME Swapping(i) PROVE /\ istate[i] = "DIRTY"
                                         /\ \A t \in Flushers : i \notin In(f[t].batch)
                                         /\ Exchanging(ivol[i], ilbn[i])
    OBVIOUS
  <2>1. ivol[i] \in Volumes /\ w[ivol[i]].pc = "swap_inode" /\ w[ivol[i]].idx = i
    BY Types DEF Swapping
  <2>2. w[ivol[i]].pc \in Locking
    BY <2>1 DEF Locking
  <2>3. ilbn[i] = w[ivol[i]].lbn /\ \A t \in Flushers : i \notin In(f[t].batch)
    BY <2>1, <2>2, LockedInode
  <2>. QED BY <2>1, <2>3, SwappingDirty DEF SafetyInv, Exchanging
<1>. QED BY <1>1 DEF HeldBy

\* What the files and the disk hold matters only for the inodes with a flusher
\* or a syncer.
LEMMA FreshStays ==
    ASSUME TypeInv, SafetyInv, UNCHANGED <<istate, syncq, s>>,
           \A t \in Flushers : f'[t].pc = "hand_off" => f'[t] = f[t],
           \A j \in Inodes :
              istate[j] = "SYNC" \/ (\E t \in Flushers : j \in In(f[t].batch)) =>
                 (Filed(j)' <=> Filed(j)) /\ (Synced(j)' <=> Synced(j))
    PROVE  FreshOK'
<1>. USE DEF SafetyInv
<1>1. ASSUME NEW t \in Flushers PROVE FiledOK(t)'
  <2>1. f[t].pc = "hand_off" => \A m \in 1 .. f[t].run : f[t].batch[m] \in In(f[t].batch)
    BY Types DEF In, TypeInv, FlusherOK, FlusherRec
  <2>2. \A i \in In(f[t].batch) : i \in Inodes
    BY Types, InType DEF FlusherRec
  <2>. QED BY <2>1, <2>2 DEF FreshOK, FiledOK
<1>2. ASSUME NEW k \in Syncers PROVE SyncedOK(k)'
  <2>0. /\ Len(syncq[k]) \in Nat /\ s[k].n \in Nat
        /\ s[k].pc = "clean" => s[k].n <= Len(syncq[k])
        /\ Unlocking(k) => s[k].n - 1 <= Len(syncq[k])
    BY Types DEF SyncersOK, SyncerSafe, SyncerRec, TypeInv, TypeOK, SharedTypeOK
  <2>1. /\ s[k].pc = "clean" => \A m \in 1 .. s[k].n : syncq[k][m] \in In(syncq[k])
        /\ Unlocking(k) => \A m \in 1 .. s[k].n - 1 : syncq[k][m] \in In(syncq[k])
    BY <2>0 DEF In
  <2>2. \A i \in In(syncq[k]) : i \in Inodes /\ istate[i] = "SYNC"
    BY InType DEF SyncersOK, SyncQueueOK, TypeInv, TypeOK, SharedTypeOK
  <2>. QED BY <2>1, <2>2 DEF FreshOK, SyncedOK, Unlocking
<1>. QED BY <1>1, <1>2 DEF FreshOK

\* The inode that a writer has locked is its own, and not with a flusher.
LEMMA SetDirtySafe ==
    ASSUME TypeInv, TypeInv', SafetyInv, NEW v \in Volumes, UNCHANGED <<f, s, b>>, SetDirty(v)
    PROVE  SafetyInv' /\ FilesKept
<1>. USE DEF queues, storage
<1>. DEFINE i == w[v].idx
            l == w[v].lbn
<1>1. /\ UNCHANGED <<ilbn, ivol, iblock, ilock, vblock, data, node, freeq, dirtyq, syncq,
                     inuseq, file, disk, acked>>
      /\ \A u \in Volumes : u # v => w'[u] = w[u]
      /\ w'[v].lbn = l /\ w'[v].idx = i /\ w'[v].old_state = istate[i]
      /\ w[v].pc = "set_dirty" /\ w'[v].pc = "copy"
      /\ istate' = [istate EXCEPT ![i] = "DIRTY"]
  <2>0. w \in [Volumes -> WriterRec]
    BY Types
  <2>. QED BY <2>0 DEF SetDirty, At, WriterRec
<1>2. /\ i \in Inodes /\ l \in Lbns /\ node[v][l].inode = i /\ ivol[i] = v /\ ilbn[i] = l
      /\ WriterSafe(v) /\ istate[i] # "SYNC"
      /\ \A u \in Volumes : w[u].pc \in Locking /\ w[u].idx = i => u = v
      /\ \A u \in Volumes, m \in Lbns : node[u][m].inode = i => u = v /\ m = l
      /\ \A t \in Flushers : i \notin In(f[t].batch)
      /\ \A k \in Syncers : Unlocking(k) => s[k].idx # i
  <2>1. w[v].pc \in Locking
    BY <1>1 DEF Locking
  <2>2. WriterSafe(v) /\ istate[i] # "SYNC"
    BY <2>1 DEF SafetyInv, WritersOK, WriterSafe
  <2>. QED BY <2>1, <2>2, LockedInode
<1>. HIDE DEF i, l
<1>3. istate'[i] = "DIRTY" /\ \A j \in Inodes : j # i => istate'[j] = istate[j]
  BY <1>1, <1>2, Types
<1>4. TakenSame /\ HoldingSame /\ LockingSame /\ SwapSame
  <2>1. i = w[v].idx /\ l = w[v].lbn
    BY DEF i, l
  <2>. QED BY <1>1, <2>1 DEF TakenSame, HoldingSame, LockingSame, SwapSame, Taken, Holding, Locking
<1>5. NodesSame /\ LocksSame
  BY <1>1, TablesStay DEF LocksSame
<1>6. NodesOK'
  <2>1. ASSUME NEW u \in Volumes, NEW m \in Lbns PROVE NodeOK(u, m)'
    <3>1. NodeOK(u, m) /\ node[u][m].inode \in Inodes \cup {NoInode}
      BY Types DEF SafetyInv, NodesOK, Nodes
    <3>2. CASE node[u][m].inode = i
      BY <1>1, <1>2, <1>3, <3>1, <3>2 DEF NodeOK
    <3>3. CASE node[u][m].inode # i
      <4>1. node[u][m].inode # NoInode => istate'[node[u][m].inode] = istate[node[u][m].inode]
        BY <1>3, <3>1, <3>3
      <4>2. u = v /\ w[u].lbn = m => FALSE
        BY <1>2, <3>3 DEF l
      <4>3. u # v => w'[u] = w[u]
        BY <1>1
      <4>. QED BY <1>1, <3>1, <4>1, <4>2, <4>3 DEF NodeOK, Fresh
    <3>. QED BY <3>2, <3>3
  <2>. QED BY <2>1 DEF NodesOK
<1>7. InUseOK'
  BY <1>1, <1>2, <1>3 DEF SafetyInv, InUseOK, Unhooking
<1>8. WritersOK'
  <2>1. WriterSafe(v)'
    <3>1. Node(v)' = Node(v)
      BY <1>1 DEF Node, l
    <3>. QED BY <1>1, <1>2, <1>3, <3>1 DEF WriterSafe, Missing, Holding, Locking, Storing, i
  <2>2. ASSUME NEW u \in Volumes, u # v PROVE WriterSafe(u)'
    <3>1. WriterSafe(u) /\ w'[u] = w[u] /\ Node(u)' = Node(u) /\ w[u].lbn \in Lbns
      BY <1>1, <2>2, Types DEF SafetyInv, WritersOK, WriterRec, Node
    <3>2. w[u].pc \in {"assign", "insert"} => w[u].idx \in Inodes /\ w[u].idx # i
      <4>1. TakenOK(u)
        BY DEF SafetyInv, FreeOK
      <4>. QED BY <1>2, <4>1 DEF TakenOK, Taken, TypeInv, WriterOK, HasInode
    <3>3. w[u].pc \in Locking \cup {"lock_new"} => w[u].idx \in Inodes /\ w[u].idx # i
      BY <1>2, <2>2, <3>1 DEF WriterSafe, Node
    <3>4. w[u].pc \in {"assign", "insert", "lock_new"} \cup Locking =>
             istate'[w[u].idx] = istate[w[u].idx]
      BY <1>3, <3>2, <3>3
    <3>. QED BY <1>1, <3>1, <3>4 DEF WriterSafe, Missing, Storing, Locking
  <2>. QED BY <2>1, <2>2 DEF WritersOK
<1>9. BalloonsOK'
  <2>1. ASSUME NEW k \in Balloons PROVE BalloonSafe(k)'
    <3>1. /\ BalloonSafe(k) /\ b'[k] = b[k] /\ b[k].vol \in Volumes /\ b[k].lbn \in Lbns
          /\ b[k].pc # "idle" => b[k].idx \in Inodes
      BY Types DEF SafetyInv, BalloonsOK, BalloonRec, TypeInv, BalloonOK
    <3>2. HashNode(k)' = HashNode(k) /\ HashNode(k) \in Nodes
      BY <1>1, <3>1, Types DEF HashNode
    <3>3. b[k].pc \in Invalidating => HashNode(k).inode # i
      <4>1. b[k].pc \in Invalidating => ~ (b[k].vol = v /\ b[k].lbn = l)
        BY <1>1, <3>1 DEF BalloonSafe, Holding, l
      <4>. QED BY <1>2, <3>1, <4>1 DEF HashNode
    <3>4. b[k].pc \in {"free", "enqueue"} => b[k].idx # i
      BY <1>2, <3>1 DEF BalloonSafe
    <3>5. b[k].pc \in {"free", "enqueue"} => istate'[b[k].idx] = istate[b[k].idx]
      BY <1>3, <3>1, <3>4
    <3>6. b[k].pc \in {"delete", "free"} /\ HashNode(k).inode # NoInode =>
             istate'[HashNode(k).inode] = istate[HashNode(k).inode]
      BY <1>3, <3>2, <3>3 DEF Nodes, Invalidating
    <3>7. NumBalloons = 1 => AloneSafe(k)'
      BY <1>3, <3>1, <3>2 DEF BalloonSafe, AloneSafe, Looking
    <3>. QED BY <1>1, <1>4, <3>1, <3>2, <3>5, <3>6, <3>7 DEF BalloonSafe, HoldingSame
  <2>. QED BY <2>1 DEF BalloonsOK
<1>10. FreeOK'
  <2>1. ASSUME NEW j \in FreeQueues PROVE FreeQueueOK(j)'
    <3>1. FreeQueueOK(j) /\ In(freeq[j]) \subseteq Inodes
      BY InType DEF SafetyInv, FreeOK, TypeInv, TypeOK, SharedTypeOK, FreeQueues
    <3>2. i \notin In(freeq[j])
      BY <1>2, <3>1 DEF FreeQueueOK
    <3>. QED BY <1>1, <1>3, <1>4, <3>1, <3>2 DEF FreeQueueOK, TakenSame
  <2>2. ASSUME NEW u \in Volumes PROVE TakenOK(u)'
    BY <1>1, <1>4 DEF SafetyInv, FreeOK, TakenOK, TakenSame
  <2>3. ASSUME NEW x \in Inodes PROVE FreeFound(x)'
    <3>1. FreeFound(x) /\ (istate'[x] = "FREE" => istate[x] = "FREE")
      BY <1>3 DEF SafetyInv, FreeOK
    <3>. QED BY <1>1, <1>4, <3>1 DEF FreeFound, TakenSame
  <2>. QED BY <2>1, <2>2, <2>3 DEF FreeOK
<1>11. /\ Redirtied(v)' <=> istate[i] # "DIRTY"
       /\ \A u \in Volumes : u # v => (Redirtied(u)' <=> Redirtied(u)) /\ w'[u].idx = w[u].idx
       /\ ~ Redirtied(v) /\ w'[v].idx = i
  BY <1>1 DEF Redirtied
<1>12. DirtyOK'
  <2>1. ASSUME NEW u \in Volumes PROVE DirtyQueueOK(u)'
    <3>1. DirtyQueueOK(u) /\ In(dirtyq[u]) \subseteq Inodes
      BY InType DEF SafetyInv, DirtyOK, TypeInv, TypeOK, SharedTypeOK
    <3>2. \A x \in In(dirtyq[u]) : istate'[x] = "DIRTY"
      BY <1>3, <3>1 DEF DirtyQueueOK
    <3>3. Redirtied(u)' => w'[u].idx \notin In(dirtyq[u])
      BY <1>11, <3>1 DEF DirtyQueueOK
    <3>. QED BY <1>1, <3>1, <3>2, <3>3 DEF DirtyQueueOK
  <2>2. ASSUME NEW x \in Inodes PROVE DirtyFound(x)'
    <3>1. DirtyFound(x)
      BY DEF SafetyInv, DirtyOK
    <3>2. CASE x = i /\ istate[i] # "DIRTY"
      BY <1>11, <3>2 DEF DirtyFound
    <3>3. CASE istate'[x] = istate[x]
      <4>1. \A u \in Volumes : Redirtied(u) => Redirtied(u)' /\ w'[u].idx = w[u].idx
        BY <1>11
      <4>. QED BY <1>1, <3>1, <3>3, <4>1 DEF DirtyFound
    <3>. QED BY <1>3, <3>2, <3>3
  <2>. QED BY <2>1, <2>2 DEF DirtyOK
<1>13. VolumesOK'
  BY <1>1, VolumesKept DEF SafetyInv, Flushing
<1>14. FlushersOK'
  <2>1. ASSUME NEW t \in Flushers PROVE FlusherSafe(t)'
    <3>1. /\ FlusherSafe(t) /\ f'[t] = f[t] /\ In(f[t].batch) \subseteq Inodes
          /\ f[t].failed \in Inodes \cup {NoInode}
      BY Types, InType DEF SafetyInv, FlushersOK, FlusherRec
    <3>2. \A x \in Inodes : istate[x] = "DIRTY" => istate'[x] = "DIRTY"
      BY <1>3
    <3>3. f[t].failed # NoInode => \A u \in Volumes : Redirtied(u)' => w'[u].idx # f[t].failed
      BY <1>11, <3>1 DEF FlusherSafe
    <3>. QED BY <1>1, <1>4, <3>1, <3>2, <3>3 DEF FlusherSafe, Unlocking, LockingSame
  <2>. QED BY <2>1 DEF FlushersOK
<1>15. SyncersOK'
  <2>1. \A x \in Inodes : istate'[x] = "SYNC" <=> istate[x] = "SYNC"
    BY <1>2, <1>3
  <2>2. ASSUME NEW k \in Syncers PROVE SyncQueueOK(k)' /\ SyncerSafe(k)'
    <3>1. /\ SyncQueueOK(k) /\ SyncerSafe(k) /\ In(syncq[k]) \subseteq Inodes
          /\ Unlocking(k) => s[k].idx \in Inodes
      BY InType DEF SafetyInv, SyncersOK, TypeInv, TypeOK, SharedTypeOK, SyncerOK, Unlocking
    <3>2. SyncQueueOK(k)'
      BY <1>1, <2>1, <3>1 DEF SyncQueueOK
    <3>3. SyncerSafe(k)'
      BY <1>1, <1>4, <2>1, <3>1 DEF SyncerSafe, Unlocking, LockingSame
    <3>. QED BY <3>2, <3>3
  <2>. QED BY <1>1, <2>1, <2>2 DEF SafetyInv, SyncersOK, SyncFound
<1>16. BlocksOK'
  BY <1>1, <1>4, BlocksKept DEF SafetyInv
<1>17. ContentsOK' /\ FilesKept
  <2>1. /\ \A u \in Volumes, m \in Lbns :
              (Exchanging(u, m) => Exchanging(u, m)') /\ Latest(u, m)' = Latest(u, m)
    BY <1>1 DEF Exchanging, Latest, Stored, l
  <2>2. ASSUME NEW x \in Inodes PROVE InodeHolds(x)'
    <3>1. InodeHolds(x) /\ ivol[x] \in Volumes /\ ilbn[x] \in Lbns
      BY Types DEF SafetyInv, ContentsOK
    <3>2. CASE x = i
      BY <1>1, <1>2, <3>2 DEF InodeHolds, Exchanging
    <3>3. CASE x # i
      BY <1>1, <1>3, <2>1, <3>1, <3>3 DEF InodeHolds
    <3>. QED BY <3>2, <3>3
  <2>3. ASSUME NEW u \in Volumes, NEW m \in Lbns, FileHolds(u, m)
        PROVE  FileHolds(u, m)'
    <3>1. Pending(u, m) \subseteq Pending(u, m)'
      BY <1>1, <1>3 DEF Pending
    <3>. QED BY <1>1, <2>1, <2>3, <3>1 DEF FileHolds
  <2>4. ASSUME NEW u \in Volumes PROVE CopyHolds(u)'
    <3>1. CopyHolds(u)
      BY DEF SafetyInv, ContentsOK
    <3>2. w'[u].pc \in {"swap_volume", "swap_inode"} => w'[u] = w[u]
      BY <1>1
    <3>. QED BY <1>1, <3>1, <3>2 DEF CopyHolds, NewContent
  <2>. QED BY <2>2, <2>3, <2>4 DEF ContentsOK, FilesKept
<1>18. FreshOK'
  <2>1. \A x \in Inodes : istate'[x] = "SYNC" => istate[x] = "SYNC"
    BY <1>2, <1>3
  <2>. QED BY <1>1, <2>1 DEF SafetyInv, FreshOK, FiledOK, SyncedOK, Filed, Synced, Unlocking
<1>. QED BY <1>6, <1>7, <1>8, <1>9, <1>10, <1>12, <1>13, <1>14, <1>15, <1>16, <1>17, <1>18
     DEF SafetyInv

\* Nothing that is in use is in the ownerless block of the volume.
LEMMA CopySafe ==
    ASSUME TypeInv, TypeInv', SafetyInv, NEW v \in Volumes, UNCHANGED <<f, s, b>>, CopyToOwnerless(v)
    PROVE  SafetyInv' /\ FilesKept
<1>. USE DEF inodeTable, queues, storage
<1>. DEFINE i == w[v].idx
            x == vblock[v]
<1>1. w[v].pc = "copy" /\ w[v].pc \in Locking
  BY DEF CopyToOwnerless, At, Locking
<1>2. ivol[i] = v /\ i \in Inodes
  BY <1>1, LockedInode
<1>3. /\ UNCHANGED <<istate, ilbn, ivol, iblock, ilock, vblock, node, freeq, dirtyq, syncq,
                     inuseq, file, disk, acked>>
      /\ \A u \in Volumes : u # v => w'[u] = w[u]
      /\ w'[v].lbn = w[v].lbn /\ w'[v].idx = i /\ w'[v].old_state = w[v].old_state
      /\ w'[v].pc = "swap_volume" /\ w'[v].ownerless = x
      /\ data' = [data EXCEPT ![x] = NewContent(v)]
  <2>0. w \in [Volumes -> WriterRec]
    BY Types
  <2>. QED BY <1>2, <2>0 DEF CopyToOwnerless, WriterRec
<1>. HIDE DEF i, x
<1>4. /\ x \in Blocks /\ data'[x] = NewContent(v)
      /\ \A y \in Blocks : y # x => data'[y] = data[y]
  BY <1>3, Types DEF x
<1>5. FreshSame /\ TakenSame /\ HoldingSame /\ LockingSame /\ RedirtiedSame /\ LatestSame
  <2>1. ASSUME NEW u \in Volumes, w'[u].pc \in {"swap_volume", "swap_inode"}
        PROVE  NewContent(u)' = NewContent(u)
    BY <1>3 DEF NewContent
  <2>2. \A u \in Volumes, m \in Lbns :
           (Exchanging(u, m)' <=> Exchanging(u, m)) /\ Latest(u, m)' = Latest(u, m)
    BY <1>1, <1>3 DEF Exchanging, Latest, Stored
  <2>3. FreshSame /\ TakenSame /\ HoldingSame /\ LockingSame /\ RedirtiedSame
    BY <1>1, <1>3 DEF FreshSame, TakenSame, HoldingSame, LockingSame, RedirtiedSame, Fresh, Taken,
                      Redirtied, Holding, Locking, i
  <2>. QED BY <2>1, <2>2, <2>3 DEF LatestSame
<1>6. NodesSame /\ InodesSame /\ LocksSame
  BY <1>3, TablesStay DEF LocksSame
<1>7. WritersOK'
  <2>1. WriterSafe(v)'
    <3>1. Node(v)' = Node(v) /\ WriterSafe(v)
      BY <1>3 DEF Node, SafetyInv, WritersOK
    <3>. QED BY <1>1, <1>3, <3>1 DEF WriterSafe, Missing, Holding, Locking, Storing, i
  <2>2. \A u \in Volumes : u # v /\ w[u].pc \in Holding => Node(u)'.mutex
    BY <1>3, MutexStays DEF Node
  <2>3. \A u \in Volumes : u # v /\ w[u].pc \in Locking => ilock'[w[u].idx]
    BY <1>3 DEF SafetyInv, WritersOK, WriterSafe
  <2>. QED BY <1>3, <1>6, <2>1, <2>2, <2>3, OthersKept
<1>8. NodesOK' /\ InUseOK'
  BY <1>3, <1>5, <1>6, NodesKept, InUseKept DEF SafetyInv
<1>9. BalloonsOK' /\ FreeOK'
  BY <1>3, <1>5, <1>6, MutexStays, BalloonsKept, FreeKept DEF SafetyInv
<1>10. DirtyOK' /\ FlushersOK' /\ SyncersOK'
  BY <1>3, <1>5, <1>6, LockersKept
<1>11. VolumesOK'
  BY <1>3, VolumesKept DEF SafetyInv, Flushing
<1>12. BlocksOK'
  <2>1. ASSUME NEW j \in Inodes PROVE HeldBy(j)' = HeldBy(j)
    BY <1>1, <1>3, Types DEF HeldBy, Swapping
  <2>2. ASSUME NEW u \in Volumes PROVE ExchangeOK(u)'
    <3>1. ExchangeOK(u)
      BY DEF SafetyInv, BlocksOK
    <3>. QED BY <1>3, <3>1 DEF ExchangeOK, x
  <2>. QED BY <1>3, <2>1, <2>2 DEF SafetyInv, BlocksOK
<1>13. ASSUME NEW j \in Inodes, HeldBy(j) = iblock[j] PROVE data'[iblock[j]] = data[iblock[j]]
  <2>1. iblock[j] # x /\ iblock[j] \in Blocks
    BY <1>13, Types DEF SafetyInv, BlocksOK, x
  <2>. QED BY <1>4, <2>1
<1>14. ContentsOK' /\ FilesKept
  <2>1. ASSUME NEW j \in Inodes PROVE InodeHolds(j)'
    <3>1. InodeHolds(j) /\ ivol[j] \in Volumes /\ ilbn[j] \in Lbns
      BY Types DEF SafetyInv, ContentsOK
    <3>. QED BY <1>3, <1>5, <1>13, <3>1, NotSwapping DEF InodeHolds, LatestSame
  <2>2. ASSUME NEW u \in Volumes, NEW m \in Lbns, FileHolds(u, m)
        PROVE  FileHolds(u, m)'
    BY <1>3, <1>5, <2>2 DEF FileHolds, LatestSame, Pending
  <2>3. ASSUME NEW u \in Volumes PROVE CopyHolds(u)'
    <3>1. CopyHolds(u) /\ ExchangeOK(u)
      BY DEF SafetyInv, ContentsOK, BlocksOK
    <3>2. CASE u = v
      BY <1>3, <1>4, <3>2 DEF CopyHolds, NewContent
    <3>3. ASSUME u # v, w[u].pc \in {"swap_volume", "swap_inode"} PROVE w[u].ownerless # x
      <4>1. w[u].pc = "swap_volume" => w[u].ownerless # x
        BY <3>1, <3>3 DEF ExchangeOK, SafetyInv, BlocksOK, x
      <4>2. CASE w[u].pc = "swap_inode"
        <5>1. w[u].pc \in Locking
          BY <4>2 DEF Locking
        <5>2. w[u].idx \in Inodes /\ HeldBy(w[u].idx) = w[u].ownerless
          BY <4>2, <5>1, LockedInode DEF HeldBy, Swapping
        <5>. QED BY <5>2 DEF SafetyInv, BlocksOK, x
      <4>. QED BY <3>3, <4>1, <4>2
    <3>4. CASE u # v
      <4>1. w[u].ownerless \in Blocks
        BY Types DEF WriterRec
      <4>. QED BY <1>3, <1>4, <3>1, <3>3, <3>4, <4>1 DEF CopyHolds, NewContent
    <3>. QED BY <3>2, <3>4
  <2>. QED BY <2>1, <2>2, <2>3 DEF ContentsOK, FilesKept
<1>15. FreshOK'
  <2>1. ASSUME NEW j \in Inodes, HeldBy(j) = iblock[j]
        PROVE  (Filed(j)' <=> Filed(j)) /\ (Synced(j)' <=> Synced(j))
    BY <1>3, <1>13, <2>1 DEF Filed, Synced
  <2>. QED BY <1>3, <2>1, NotSwapping, FreshStays
<1>. QED BY <1>7, <1>8, <1>9, <1>10, <1>11, <1>12, <1>14, <1>15 DEF SafetyInv

\* The first half of the exchange: the volume gets the block of the inode.
LEMMA SwapVolumeSafe ==
    ASSUME TypeInv, TypeInv', SafetyInv, NEW v \in Volumes, UNCHANGED <<f, s, b>>, SwapVolumeBlock(v)
    PROVE  SafetyInv' /\ FilesKept
<1>. USE DEF inodeTable, queues, storage
<1>1. w[v].pc = "swap_volume" /\ w[v].pc \in Locking
  BY DEF SwapVolumeBlock, At, Locking
<1>2. PICK i \in Inodes :
         /\ i = w[v].idx /\ ivol[i] = v
         /\ \A u \in Volumes : w[u].pc \in Locking /\ w[u].idx = i => u = v
  BY <1>1, LockedInode
<1>. USE <1>2
<1>3. /\ UNCHANGED <<istate, ilbn, ivol, iblock, ilock, data, node, freeq, dirtyq, syncq,
                     inuseq, file, disk, acked>>
      /\ \A u \in Volumes : u # v => w'[u] = w[u]
      /\ w'[v].lbn = w[v].lbn /\ w'[v].idx = i /\ w'[v].old_state = w[v].old_state
      /\ w'[v].pc = "swap_inode" /\ w'[v].ownerless = w[v].ownerless
      /\ vblock' = [vblock EXCEPT ![v] = iblock[i]]
  <2>0. w \in [Volumes -> WriterRec]
    BY Types
  <2>. QED BY <1>2, <2>0 DEF SwapVolumeBlock, WriterRec
<1>4. FreshSame /\ TakenSame /\ HoldingSame /\ LockingSame /\ RedirtiedSame /\ LatestSame
  <2>1. ASSUME NEW u \in Volumes, w'[u].pc \in {"swap_volume", "swap_inode"}
        PROVE  NewContent(u)' = NewContent(u)
    BY <1>3 DEF NewContent
  <2>2. \A u \in Volumes, m \in Lbns :
           (Exchanging(u, m)' <=> Exchanging(u, m)) /\ Latest(u, m)' = Latest(u, m)
    BY <1>1, <1>3 DEF Exchanging, Latest, Stored
  <2>3. FreshSame /\ TakenSame /\ HoldingSame /\ LockingSame /\ RedirtiedSame
    BY <1>1, <1>3 DEF FreshSame, TakenSame, HoldingSame, LockingSame, RedirtiedSame, Fresh, Taken,
                      Redirtied, Holding, Locking
  <2>. QED BY <2>1, <2>2, <2>3 DEF LatestSame
<1>5. NodesSame /\ InodesSame /\ LocksSame
  BY <1>3, TablesStay DEF LocksSame
<1>6. WritersOK'
  <2>1. WriterSafe(v)'
    <3>1. Node(v)' = Node(v) /\ WriterSafe(v)
      BY <1>3 DEF Node, SafetyInv, WritersOK
    <3>. QED BY <1>1, <1>3, <3>1 DEF WriterSafe, Missing, Holding, Locking, Storing
  <2>2. \A u \in Volumes : u # v /\ w[u].pc \in Holding => Node(u)'.mutex
    BY <1>3, MutexStays DEF Node
  <2>3. \A u \in Volumes : u # v /\ w[u].pc \in Locking => ilock'[w[u].idx]
    BY <1>3 DEF SafetyInv, WritersOK, WriterSafe
  <2>. QED BY <1>3, <1>5, <2>1, <2>2, <2>3, OthersKept
<1>7. NodesOK' /\ InUseOK'
  BY <1>3, <1>4, <1>5, NodesKept, InUseKept DEF SafetyInv
<1>8. BalloonsOK' /\ FreeOK'
  BY <1>3, <1>4, <1>5, MutexStays, BalloonsKept, FreeKept DEF SafetyInv
<1>9. DirtyOK' /\ FlushersOK' /\ SyncersOK'
  BY <1>3, <1>4, <1>5, LockersKept
<1>10. VolumesOK'
  BY <1>3, VolumesKept DEF SafetyInv, Flushing
<1>11. BlocksOK'
  <2>. USE DEF SafetyInv, BlocksOK
  <2>1. w[v].ownerless = vblock[v]
    BY <1>1 DEF ExchangeOK
  <2>2. HeldBy(i) = iblock[i] /\ HeldBy(i)' = vblock[v] /\ vblock'[v] = iblock[i]
    BY <1>1, <1>2, <1>3, <2>1, Types DEF HeldBy, Swapping
  <2>3. \A u \in Volumes : u # v => vblock'[u] = vblock[u]
    BY <1>3, Types
  <2>4. ASSUME NEW j \in Inodes, j # i PROVE HeldBy(j)' = HeldBy(j)
    <3>1. ivol[j] \in Volumes
      BY Types
    <3>. QED BY <1>1, <1>3, <2>4, <3>1 DEF HeldBy, Swapping
  <2>5. ASSUME NEW j \in Inodes, NEW k \in Inodes, HeldBy(j)' = HeldBy(k)' PROVE j = k
    BY <1>2, <2>2, <2>4, <2>5
  <2>6. ASSUME NEW u1 \in Volumes, NEW u2 \in Volumes, vblock'[u1] = vblock'[u2] PROVE u1 = u2
    BY <1>2, <2>2, <2>3, <2>6
  <2>7. ASSUME NEW j \in Inodes, NEW u \in Volumes PROVE HeldBy(j)' # vblock'[u]
    <3>1. CASE j = i
      BY <1>2, <2>2, <2>3, <3>1
    <3>2. CASE j # i
      BY <1>2, <2>2, <2>3, <2>4, <3>2
    <3>. QED BY <3>1, <3>2
  <2>8. ASSUME NEW x \in Blocks
        PROVE  (\E j \in Inodes : HeldBy(j)' = x) \/ (\E u \in Volumes : vblock'[u] = x)
    <3>1. CASE x = HeldBy(i) \/ x = vblock[v]
      BY <1>2, <2>2, <3>1
    <3>2. CASE x # HeldBy(i) /\ x # vblock[v]
      BY <2>3, <2>4, <3>2
    <3>. QED BY <3>1, <3>2
  <2>9. ASSUME NEW u \in Volumes PROVE ExchangeOK(u)'
    <3>1. ExchangeOK(u)
      OBVIOUS
    <3>. QED BY <1>3, <2>2, <2>3, <3>1 DEF ExchangeOK
  <2>. QED BY <2>5, <2>6, <2>7, <2>8, <2>9
<1>12. ContentsOK' /\ FilesKept
  BY <1>1, <1>3, <1>4, <1>5, ContentsKept DEF SafetyInv
<1>13. FreshOK'
  BY <1>3, <1>5, FreshKept DEF SafetyInv
<1>. QED BY <1>6, <1>7, <1>8, <1>9, <1>10, <1>11, <1>12, <1>13 DEF SafetyInv

\* The second half: the inode gets the block with the new content.
LEMMA SwapInodeSafe ==
    ASSUME TypeInv, TypeInv', SafetyInv, NEW v \in Volumes, UNCHANGED <<f, s, b>>, SwapInodeBlock(v)
    PROVE  SafetyInv' /\ FilesKept
<1>. USE DEF queues, storage
<1>1. w[v].pc = "swap_inode" /\ w[v].pc \in Locking
  BY DEF SwapInodeBlock, At, Locking
<1>2. PICK i \in Inodes, l \in Lbns :
         /\ i = w[v].idx /\ l = w[v].lbn
         /\ ivol[i] = v /\ ilbn[i] = l /\ node[v][l].inode = i
         /\ \A u \in Volumes : w[u].pc \in Locking /\ w[u].idx = i => u = v
         /\ \A t \in Flushers : i \notin In(f[t].batch)
  BY <1>1, LockedInode
<1>. USE <1>2
<1>3. /\ UNCHANGED <<istate, ilbn, ivol, ilock, vblock, data, node, freeq, dirtyq, syncq,
                     inuseq, file, disk, acked>>
      /\ \A u \in Volumes : u # v => w'[u] = w[u]
      /\ w'[v].lbn = l /\ w'[v].idx = i /\ w'[v].old_state = w[v].old_state
      /\ \/ w[v].old_state # "DIRTY" /\ w'[v].pc = "count_dirty"
         \/ w[v].old_state = "DIRTY" /\ w'[v].pc = "unlock_inode"
      /\ iblock' = [iblock EXCEPT ![i] = w[v].ownerless]
  <2>0. w \in [Volumes -> WriterRec]
    BY Types
  <2>. QED BY <1>2, <2>0 DEF SwapInodeBlock, WriterRec
<1>4. /\ WriterSafe(v) /\ istate[i] = "DIRTY"
      /\ iblock'[i] = w[v].ownerless
      /\ \A j \in Inodes : j # i => iblock'[j] = iblock[j]
  <2>1. WriterSafe(v)
    BY DEF SafetyInv, WritersOK
  <2>. QED BY <1>1, <1>2, <1>3, <2>1, Types DEF WriterSafe, Storing
<1>5. FreshSame /\ TakenSame /\ HoldingSame /\ LockingSame /\ RedirtiedSame
  BY <1>1, <1>3 DEF FreshSame, TakenSame, HoldingSame, LockingSame, RedirtiedSame, Fresh, Taken,
                    Redirtied, Holding, Locking
<1>6. NodesSame /\ InodesSame /\ LocksSame
  BY <1>3, TablesStay DEF LocksSame
<1>7. WritersOK'
  <2>1. WriterSafe(v)'
    <3>1. Node(v)' = Node(v)
      BY <1>3 DEF Node
    <3>. QED BY <1>1, <1>3, <1>4, <3>1 DEF WriterSafe, Missing, Holding, Locking, Storing
  <2>2. \A u \in Volumes : u # v /\ w[u].pc \in Holding => Node(u)'.mutex
    BY <1>3, MutexStays DEF Node
  <2>3. \A u \in Volumes : u # v /\ w[u].pc \in Locking => ilock'[w[u].idx]
    BY <1>3 DEF SafetyInv, WritersOK, WriterSafe
  <2>. QED BY <1>3, <1>6, <2>1, <2>2, <2>3, OthersKept
<1>8. NodesOK' /\ InUseOK'
  BY <1>3, <1>5, <1>6, NodesKept, InUseKept DEF SafetyInv
<1>9. BalloonsOK' /\ FreeOK'
  BY <1>3, <1>5, <1>6, MutexStays, BalloonsKept, FreeKept DEF SafetyInv
<1>10. DirtyOK' /\ FlushersOK' /\ SyncersOK'
  BY <1>3, <1>5, <1>6, LockersKept
<1>11. VolumesOK'
  BY <1>3, VolumesKept DEF SafetyInv, Flushing
<1>12. BlocksOK'
  <2>1. ASSUME NEW j \in Inodes PROVE HeldBy(j)' = HeldBy(j)
    <3>1. ivol[j] \in Volumes
      BY Types
    <3>. QED BY <1>1, <1>2, <1>3, <1>4, <3>1 DEF HeldBy, Swapping
  <2>2. ASSUME NEW u \in Volumes PROVE ExchangeOK(u)'
    <3>1. CASE u = v
      BY <1>3, <3>1 DEF ExchangeOK
    <3>2. CASE u # v
      <4>1. ExchangeOK(u)
        BY DEF SafetyInv, BlocksOK
      <4>2. w[u].pc = "swap_inode" => w[u].idx \in Inodes /\ w[u].idx # i
        <5>. SUFFICES ASSUME w[u].pc = "swap_inode" PROVE w[u].idx \in Inodes /\ w[u].idx # i
          OBVIOUS
        <5>1. w[u].pc \in Locking
          BY DEF Locking
        <5>. QED BY <1>2, <3>2, <5>1, LockedInode
      <4>. QED BY <1>3, <1>4, <3>2, <4>1, <4>2 DEF ExchangeOK
    <3>. QED BY <3>1, <3>2
  <2>. QED BY <1>3, <2>1, <2>2 DEF SafetyInv, BlocksOK
<1>13. /\ \A u \in Volumes, m \in Lbns : u # v \/ m # l =>
             (Exchanging(u, m)' <=> Exchanging(u, m)) /\ Latest(u, m)' = Latest(u, m)
       /\ Latest(v, l)' = NewContent(v)
  <2>1. \A u \in Volumes, m \in Lbns : u # v \/ m # l =>
             (Exchanging(u, m)' <=> Exchanging(u, m)) /\ Latest(u, m)' = Latest(u, m)
    BY <1>1, <1>3 DEF Exchanging, Latest, Stored
  <2>2. Latest(v, l)' = NewContent(v)
    BY <1>3 DEF Latest, Stored, NewContent
  <2>. QED BY <2>1, <2>2
<1>14. ContentsOK' /\ FilesKept
  <2>1. ASSUME NEW j \in Inodes PROVE InodeHolds(j)'
    <3>1. InodeHolds(j) /\ ivol[j] \in Volumes /\ ilbn[j] \in Lbns
      BY Types DEF SafetyInv, ContentsOK
    <3>2. CASE j = i
      <4>1. data[w[v].ownerless] = NewContent(v)
        BY <1>1 DEF SafetyInv, ContentsOK, CopyHolds
      <4>2. data'[iblock'[i]] = Latest(v, l)'
        BY <1>3, <1>4, <1>13, <4>1
      <4>. QED BY <1>2, <1>3, <3>2, <4>2 DEF InodeHolds
    <3>3. CASE j # i /\ ivol[j] = v /\ ilbn[j] = l
      <4>1. istate[j] # "FREE" => Unhooking(j)
        BY <1>2, <3>3 DEF SafetyInv, InUseOK
      <4>2. \A k \in Balloons : b[k].pc = "free" => b[k].idx # j
        BY <1>1, <3>3 DEF SafetyInv, BalloonsOK, BalloonSafe, Invalidating, Holding
      <4>. QED BY <1>3, <4>1, <4>2 DEF InodeHolds, Unhooking
    <3>4. CASE j # i /\ ~ (ivol[j] = v /\ ilbn[j] = l)
      BY <1>3, <1>4, <1>13, <3>1, <3>4 DEF InodeHolds
    <3>. QED BY <3>2, <3>3, <3>4
  <2>2. ASSUME NEW u \in Volumes, NEW m \in Lbns, FileHolds(u, m)
        PROVE  FileHolds(u, m)'
    <3>1. FileHolds(u, m) /\ Pending(u, m)' = Pending(u, m)
      BY <2>2, <1>3 DEF Pending
    <3>2. CASE u = v /\ m = l
      <4>1. i \in Pending(u, m)
        BY <1>2, <1>4, <3>2 DEF Pending
      <4>. QED BY <3>1, <4>1 DEF FileHolds
    <3>3. CASE u # v \/ m # l
      BY <1>3, <1>13, <3>1, <3>3 DEF FileHolds
    <3>. QED BY <3>2, <3>3
  <2>3. ASSUME NEW u \in Volumes PROVE CopyHolds(u)'
    <3>1. CopyHolds(u)
      BY DEF SafetyInv, ContentsOK
    <3>2. w'[u].pc \in {"swap_volume", "swap_inode"} => w'[u] = w[u]
      BY <1>3
    <3>. QED BY <1>3, <3>1, <3>2 DEF CopyHolds, NewContent
  <2>. QED BY <2>1, <2>2, <2>3 DEF ContentsOK, FilesKept
<1>15. FreshOK'
  <2>1. ASSUME NEW j \in Inodes, j # i
        PROVE  (Filed(j)' <=> Filed(j)) /\ (Synced(j)' <=> Synced(j))
    BY <1>3, <1>4, <2>1 DEF Filed, Synced
  <2>2. istate[i] # "SYNC" /\ \A t \in Flushers : i \notin In(f[t].batch)
    BY <1>2, <1>4
  <2>. QED BY <1>3, <2>1, <2>2, FreshStays
<1>. QED BY <1>7, <1>8, <1>9, <1>10, <1>11, <1>12, <1>14, <1>15 DEF SafetyInv

\* Every step of a writer.
LEMMA WriterStepSafe ==
    ASSUME TypeInv, TypeInv', SafetyInv, NEW v \in Volumes, Writer(v)
    PROVE  SafetyInv' /\ FilesKept
<1>1. UNCHANGED <<f, s, b>> /\ (Call(v) \/ WriteStep(v))
  BY DEF Writer
<1>2. CASE Call(v) \/ SearchNode(v) \/ FreeCheck(v) \/ TakeTicket(v) \/ CountDirty(v)
  BY <1>1, <1>2, QuietSafe
<1>3. CASE DequeueFree(v)
  BY <1>1, <1>3, DequeueFreeSafe
<1>4. CASE AssignInode(v)
  BY <1>1, <1>4, AssignInodeSafe
<1>5. CASE InsertNode(v)
  BY <1>1, <1>5, InsertNodeSafe
<1>6. CASE LockNewNode(v) \/ LockNode(v) \/ RecheckNode(v) \/ UnlockNode(v)
  BY <1>1, <1>6, MutexSafe
<1>7. CASE LockInode(v)
  BY <1>1, <1>7, LockInodeSafe
<1>8. CASE SetDirty(v)
  BY <1>1, <1>8, SetDirtySafe
<1>9. CASE CopyToOwnerless(v)
  BY <1>1, <1>9, CopySafe
<1>10. CASE SwapVolumeBlock(v)
  BY <1>1, <1>10, SwapVolumeSafe
<1>11. CASE SwapInodeBlock(v)
  BY <1>1, <1>11, SwapInodeSafe
<1>12. CASE EnqueueDirty(v)
  BY <1>1, <1>12, EnqueueDirtySafe
<1>13. CASE UnlockInode(v)
  BY <1>1, <1>13, UnlockInodeSafe
<1>. QED BY <1>1, <1>2, <1>3, <1>4, <1>5, <1>6, <1>7, <1>8, <1>9, <1>10, <1>11, <1>12, <1>13
     DEF WriteStep

(***************************************************************************)
(* The steps of a flusher                                                  *)
(***************************************************************************)

\* A step that moves no writer and no balloon, and releases no lock of a
\* writer.
LEMMA OutsideKept ==
    ASSUME TypeInv, TypeInv', SafetyInv,
           UNCHANGED <<istate, ivol, ilbn, iblock, vblock, node, freeq, w, acked, b>>,
           \A v \in Volumes : w[v].pc \in Locking => ilock'[w[v].idx]
    PROVE  /\ NodesSame /\ InodesSame /\ WritersSame
           /\ NodesOK' /\ InUseOK' /\ WritersOK' /\ BalloonsOK' /\ FreeOK' /\ BlocksOK'
<1>1. NodesSame /\ InodesSame /\ WritersSame
  BY TablesStay, WritersStay
<1>2. NodesOK' /\ InUseOK'
  BY <1>1, NodesKept, InUseKept DEF SafetyInv, WritersSame
<1>3. WritersOK'
  <2>1. ASSUME NEW v \in Volumes PROVE WriterSafe(v)'
    <3>1. WriterSafe(v)
      BY DEF SafetyInv, WritersOK
    <3>2. Node(v)' = Node(v)
      BY DEF Node
    <3>. QED BY <3>1, <3>2 DEF WriterSafe, Missing
  <2>. QED BY <2>1 DEF WritersOK
<1>4. BalloonsOK'
  BY <1>1, MutexStays, BalloonsKept DEF SafetyInv, WritersSame
<1>5. FreeOK'
  BY <1>1, FreeKept DEF SafetyInv, WritersSame
<1>6. BlocksOK'
  BY <1>1, BlocksKept DEF SafetyInv, WritersSame
<1>. QED BY <1>1, <1>2, <1>3, <1>4, <1>5, <1>6

\* Nor do the files, the disk and the locks change.
LEMMA TablesKept ==
    ASSUME TypeInv, TypeInv', SafetyInv,
           UNCHANGED <<inodeTable, vblock, data, node, freeq, file, disk, w, acked, b>>
    PROVE  /\ NodesSame /\ InodesSame /\ WritersSame /\ LocksSame
           /\ NodesOK' /\ InUseOK' /\ WritersOK' /\ BalloonsOK' /\ FreeOK' /\ BlocksOK'
           /\ ContentsOK' /\ FilesKept
<1>. USE DEF inodeTable
<1>1. \A v \in Volumes : w[v].pc \in Locking => ilock'[w[v].idx]
  BY DEF SafetyInv, WritersOK, WriterSafe
<1>2. /\ NodesSame /\ InodesSame /\ WritersSame
      /\ NodesOK' /\ InUseOK' /\ WritersOK' /\ BalloonsOK' /\ FreeOK' /\ BlocksOK'
  BY <1>1, OutsideKept
<1>3. ContentsOK' /\ FilesKept
  BY <1>2, ContentsKept DEF SafetyInv, WritersSame
<1>. QED BY <1>2, <1>3 DEF LocksSame

\* The other flushers, which have other volumes.
LEMMA OtherFlushersKept ==
    ASSUME TypeInv, SafetyInv, NEW t \in Flushers, InodesSame, WritersSame, LocksSame,
           \A t2 \in Flushers : t2 # t => f'[t2] = f[t2],
           \A t2 \in Flushers : t2 # t => dirtyq'[f[t2].v_idx] = dirtyq[f[t2].v_idx],
           s' = s, FlusherSafe(t)'
    PROVE  FlushersOK'
<1>1. ASSUME NEW t2 \in Flushers, t2 # t PROVE FlusherSafe(t2)'
  BY <1>1, LocksStay, FlusherKept DEF SafetyInv, FlushersOK, WritersSame, Unlocking
<1>. QED BY <1>1 DEF FlushersOK

LEMMA SyncersStay ==
    ASSUME TypeInv, SafetyInv, InodesSame, WritersSame, LocksSame, UNCHANGED <<syncq, s>>
    PROVE  SyncersOK'
BY LocksStay, SyncersKept DEF SafetyInv, InodesSame, WritersSame

\* Steps at which only the flusher itself moves.
LEMMA FlushQuietSafe ==
    ASSUME TypeInv, TypeInv', SafetyInv, NEW t \in Flushers, UNCHANGED <<writerVars, s, b>>,
           FlushCheck(t) \/ FlushSize(t) \/ FlushCollected(t)
    PROVE  SafetyInv' /\ FilesKept
<1>. USE DEF shared, inodeTable, queues, storage, writerVars
<1>1. /\ UNCHANGED <<inodeTable, vblock, data, node, queues, storage, w, acked>>
      /\ \A t2 \in Flushers : t2 # t => f'[t2] = f[t2]
      /\ f'[t].v_idx = f[t].v_idx /\ f'[t].batch = f[t].batch /\ f'[t].failed = f[t].failed
      /\ \/ f[t].pc = "idle" /\ f'[t].pc = "take"
         \/ f[t].pc = "size" /\ f'[t].pc \in {"collect", "give_back"}
         \/ /\ f[t].pc = "collect"
            /\ \/ f[t].batch = <<>> /\ f'[t].pc = "give_back"
               \/ f'[t].pc = "write"
  <2>0. f \in [Flushers -> FlusherRec]
    BY Types
  <2>1. CASE FlushCheck(t)
    BY <2>0, <2>1 DEF FlushCheck, FlusherRec
  <2>2. CASE FlushSize(t)
    BY <2>0, <2>2 DEF FlushSize, FlusherRec
  <2>3. CASE FlushCollected(t)
    BY <2>0, <2>3 DEF FlushCollected, FlusherRec
  <2>. QED BY <2>1, <2>2, <2>3
<1>2. /\ NodesSame /\ InodesSame /\ WritersSame /\ LocksSame
      /\ NodesOK' /\ InUseOK' /\ WritersOK' /\ BalloonsOK' /\ FreeOK' /\ BlocksOK' /\ ContentsOK' /\ FilesKept
  BY <1>1, TablesKept
<1>3. DirtyOK'
  BY <1>1, <1>2, DirtyKept DEF SafetyInv, WritersSame
<1>4. VolumesOK'
  BY <1>1, VolumesKept DEF SafetyInv, Flushing
<1>5. FlushersOK'
  <2>1. FlusherSafe(t)'
    <3>1. FlusherSafe(t)
      BY DEF SafetyInv, FlushersOK
    <3>. QED BY <1>1, <3>1 DEF FlusherSafe, Redirtied, Unlocking
  <2>. QED BY <1>1, <1>2, <2>1, OtherFlushersKept
<1>6. SyncersOK'
  BY <1>1, <1>2, SyncersStay
<1>7. FreshOK'
  BY <1>1, FreshStays DEF Filed, Synced
<1>. QED BY <1>2, <1>3, <1>4, <1>5, <1>6, <1>7 DEF SafetyInv

\* A volume goes from the queue to one flusher.
LEMMA FlushTakeSafe ==
    ASSUME TypeInv, TypeInv', SafetyInv, NEW t \in Flushers, UNCHANGED <<writerVars, s, b>>,
           FlushTake(t)
    PROVE  SafetyInv' /\ FilesKept
<1>. USE DEF inodeTable, storage, writerVars
<1>1. /\ UNCHANGED <<inodeTable, vblock, data, node, freeq, dirtyq, syncq, storage, w, acked>>
      /\ \A t2 \in Flushers : t2 # t => f'[t2] = f[t2]
      /\ f'[t].v_idx = Head(inuseq) /\ f'[t].batch = f[t].batch /\ f'[t].failed = f[t].failed
      /\ f[t].pc = "take" /\ f'[t].pc = "size"
      /\ inuseq # <<>> /\ inuseq' = Tail(inuseq) /\ inuseq \in Seq(Volumes)
  <2>0. f \in [Flushers -> FlusherRec] /\ inuseq \in Seq(Volumes)
    BY Types DEF TypeInv, TypeOK, SharedTypeOK
  <2>. QED BY <2>0 DEF FlushTake, FlusherRec
<1>2. /\ NodesSame /\ InodesSame /\ WritersSame /\ LocksSame
      /\ NodesOK' /\ InUseOK' /\ WritersOK' /\ BalloonsOK' /\ FreeOK' /\ BlocksOK' /\ ContentsOK' /\ FilesKept
  BY <1>1, TablesKept
<1>3. DirtyOK'
  BY <1>1, <1>2, DirtyKept DEF SafetyInv, WritersSame
<1>4. VolumesOK'
  <2>. USE DEF SafetyInv, VolumesOK
  <2>1. /\ Head(inuseq) \in In(inuseq)
        /\ In(inuseq) = In(inuseq') \cup {Head(inuseq)}
        /\ Once(inuseq') /\ Head(inuseq) \notin In(inuseq')
    BY <1>1, TailIn
  <2>2. Flushing(t)' /\ ~ Flushing(t) /\ \A t2 \in Flushers : t2 # t => (Flushing(t2)' <=> Flushing(t2))
    BY <1>1 DEF Flushing
  <2>3. ASSUME NEW t2 \in Flushers, Flushing(t2)'
        PROVE  /\ f'[t2].v_idx \notin In(inuseq')
               /\ \A t3 \in Flushers : Flushing(t3)' /\ f'[t3].v_idx = f'[t2].v_idx => t3 = t2
    BY <1>1, <2>1, <2>2, <2>3
  <2>4. ASSUME NEW v \in Volumes
        PROVE  v \in In(inuseq') \/ \E t2 \in Flushers : Flushing(t2)' /\ f'[t2].v_idx = v
    <3>1. CASE v = Head(inuseq)
      BY <1>1, <2>2, <3>1
    <3>2. CASE v # Head(inuseq)
      BY <1>1, <2>1, <2>2, <3>2
    <3>. QED BY <3>1, <3>2
  <2>. QED BY <2>1, <2>3, <2>4
<1>5. FlushersOK'
  <2>1. FlusherSafe(t)'
    <3>1. FlusherSafe(t)
      BY DEF SafetyInv, FlushersOK
    <3>2. In(f'[t].batch) = {} /\ f'[t].batch = <<>>
      BY <1>1, <3>1 DEF FlusherSafe, In
    <3>3. Once(f'[t].batch)
      BY <3>2 DEF Once
    <3>. QED BY <1>1, <3>1, <3>2, <3>3 DEF FlusherSafe
  <2>. QED BY <1>1, <1>2, <2>1, OtherFlushersKept
<1>6. SyncersOK'
  BY <1>1, <1>2, SyncersStay
<1>7. FreshOK'
  BY <1>1, FreshStays DEF Filed, Synced
<1>. QED BY <1>2, <1>3, <1>4, <1>5, <1>6, <1>7 DEF SafetyInv

\* And back.
LEMMA FlushGiveBackSafe ==
    ASSUME TypeInv, TypeInv', SafetyInv, NEW t \in Flushers, UNCHANGED <<writerVars, s, b>>,
           FlushGiveBack(t)
    PROVE  SafetyInv' /\ FilesKept
<1>. USE DEF inodeTable, storage, writerVars
<1>1. /\ UNCHANGED <<inodeTable, vblock, data, node, freeq, dirtyq, syncq, storage, w, acked>>
      /\ \A t2 \in Flushers : t2 # t => f'[t2] = f[t2]
      /\ f'[t].batch = <<>> /\ f'[t].failed = NoInode
      /\ f[t].pc = "give_back" /\ f'[t].pc = "idle"
      /\ inuseq' = Append(inuseq, f[t].v_idx)
      /\ inuseq \in Seq(Volumes) /\ f[t].v_idx \in Volumes
  <2>0. f \in [Flushers -> FlusherRec] /\ inuseq \in Seq(Volumes)
    BY Types DEF TypeInv, TypeOK, SharedTypeOK
  <2>. QED BY <2>0 DEF FlushGiveBack, FlusherRec, FlusherIdle
<1>2. /\ NodesSame /\ InodesSame /\ WritersSame /\ LocksSame
      /\ NodesOK' /\ InUseOK' /\ WritersOK' /\ BalloonsOK' /\ FreeOK' /\ BlocksOK' /\ ContentsOK' /\ FilesKept
  BY <1>1, TablesKept
<1>3. f[t].batch = <<>> /\ f[t].failed = NoInode
  BY <1>1 DEF SafetyInv, FlushersOK, FlusherSafe
<1>4. DirtyOK'
  BY <1>1, <1>2, <1>3, DirtyKept DEF SafetyInv, WritersSame
<1>5. VolumesOK'
  <2>. USE DEF SafetyInv, VolumesOK
  <2>1. ~ Flushing(t)' /\ Flushing(t) /\ \A t2 \in Flushers : t2 # t => (Flushing(t2)' <=> Flushing(t2))
    BY <1>1 DEF Flushing
  <2>2. In(inuseq') = In(inuseq) \cup {f[t].v_idx} /\ Once(inuseq')
    BY <1>1, <2>1, AppendIn
  <2>3. ASSUME NEW t2 \in Flushers, Flushing(t2)'
        PROVE  /\ f'[t2].v_idx \notin In(inuseq')
               /\ \A t3 \in Flushers : Flushing(t3)' /\ f'[t3].v_idx = f'[t2].v_idx => t3 = t2
    BY <1>1, <2>1, <2>2, <2>3
  <2>4. ASSUME NEW v \in Volumes
        PROVE  v \in In(inuseq') \/ \E t2 \in Flushers : Flushing(t2)' /\ f'[t2].v_idx = v
    BY <1>1, <2>1, <2>2
  <2>. QED BY <2>2, <2>3, <2>4
<1>6. FlushersOK'
  <2>1. FlusherSafe(t)'
    <3>1. In(f'[t].batch) = {} /\ Once(f'[t].batch)
      BY <1>1 DEF In, Once
    <3>. QED BY <1>1, <3>1 DEF FlusherSafe
  <2>. QED BY <1>1, <1>2, <2>1, OtherFlushersKept
<1>7. SyncersOK'
  BY <1>1, <1>2, SyncersStay
<1>8. FreshOK'
  BY <1>1, FreshStays DEF Filed, Synced
<1>. QED BY <1>2, <1>4, <1>5, <1>6, <1>7, <1>8 DEF SafetyInv

\* The volume of a flusher, and its inodes, are with no other flusher.
LEMMA OwnVolume ==
    ASSUME TypeInv, SafetyInv, NEW t \in Flushers, Flushing(t)
    PROVE  /\ f[t].v_idx \in Volumes /\ dirtyq \in [Volumes -> Seq(Inodes)]
           /\ FlusherSafe(t) /\ DirtyQueueOK(f[t].v_idx)
           /\ In(f[t].batch) \subseteq Inodes /\ f[t].batch \in Seq(Inodes)
           /\ \A t2 \in Flushers : t2 # t /\ Flushing(t2) => f[t2].v_idx # f[t].v_idx
           /\ \A t2 \in Flushers : t2 # t /\ ~ Flushing(t2) =>
                 f[t2].batch = <<>> /\ In(f[t2].batch) = {} /\ f[t2].failed = NoInode
<1>1. /\ f[t].v_idx \in Volumes /\ dirtyq \in [Volumes -> Seq(Inodes)]
      /\ In(f[t].batch) \subseteq Inodes /\ f[t].batch \in Seq(Inodes)
  BY Types, InType DEF FlusherRec, TypeInv, TypeOK, SharedTypeOK
<1>2. FlusherSafe(t) /\ DirtyQueueOK(f[t].v_idx)
  BY <1>1 DEF SafetyInv, FlushersOK, DirtyOK
<1>3. \A t2 \in Flushers : t2 # t /\ Flushing(t2) => f[t2].v_idx # f[t].v_idx
  BY DEF SafetyInv, VolumesOK
<1>4. ASSUME NEW t2 \in Flushers, ~ Flushing(t2)
      PROVE  f[t2].batch = <<>> /\ In(f[t2].batch) = {} /\ f[t2].failed = NoInode
  <2>1. FlusherSafe(t2)
    BY DEF SafetyInv, FlushersOK
  <2>. QED BY <1>4, <2>1 DEF FlusherSafe, Flushing, In
<1>. QED BY <1>1, <1>2, <1>3, <1>4

\* The flushers that have no volume have no inode either, so a step on the
\* dirty queue of one volume is the business of one flusher.
LEMMA VolumeFlushersKept ==
    ASSUME TypeInv, SafetyInv, NEW t \in Flushers, Flushing(t), InodesSame, WritersSame, LocksSame,
           \A t2 \in Flushers : t2 # t => f'[t2] = f[t2],
           \A v \in Volumes : v # f[t].v_idx => dirtyq'[v] = dirtyq[v],
           s' = s, FlusherSafe(t)'
    PROVE  FlushersOK'
<1>1. ASSUME NEW t2 \in Flushers, t2 # t PROVE FlusherSafe(t2)'
  <2>1. FlusherSafe(t2) /\ f'[t2] = f[t2] /\ f[t2].v_idx \in Volumes
    BY <1>1, Types DEF SafetyInv, FlushersOK, FlusherRec
  <2>2. CASE Flushing(t2)
    <3>1. dirtyq'[f[t2].v_idx] = dirtyq[f[t2].v_idx]
      BY <1>1, <2>1, <2>2, OwnVolume
    <3>. QED BY <2>1, <3>1, LocksStay, FlusherKept DEF WritersSame, Unlocking
  <2>3. CASE ~ Flushing(t2)
    <3>1. f[t2].batch = <<>> /\ In(f[t2].batch) = {} /\ f[t2].failed = NoInode
      BY <1>1, <2>3, OwnVolume
    <3>. QED BY <2>1, <3>1 DEF FlusherSafe
  <2>. QED BY <2>2, <2>3
<1>. QED BY <1>1 DEF FlushersOK

\* An inode leaves the dirty queue for the hands of the flusher, which locks
\* it when nobody holds it.
LEMMA FlushCollectSafe ==
    ASSUME TypeInv, TypeInv', SafetyInv, NEW t \in Flushers, UNCHANGED <<writerVars, s, b>>,
           FlushCollect(t)
    PROVE  SafetyInv' /\ FilesKept
<1>. USE DEF storage, writerVars
<1>0. Flushing(t) /\ f[t].pc = "collect"
  BY DEF FlushCollect, Flushing
<1>1. PICK v \in Volumes : v = f[t].v_idx
  BY <1>0, OwnVolume
<1>. USE <1>1
<1>2. /\ dirtyq \in [Volumes -> Seq(Inodes)] /\ dirtyq[v] # <<>>
      /\ dirtyq' = Dequeue(dirtyq, v)
      /\ FlusherSafe(t) /\ DirtyQueueOK(v) /\ f[t].batch \in Seq(Inodes)
      /\ In(f[t].batch) \subseteq Inodes
  BY <1>0, OwnVolume DEF FlushCollect
<1>3. PICK i \in Inodes :
         /\ i = Head(dirtyq[v]) /\ i \in In(dirtyq[v])
         /\ In(dirtyq[v]) = In(dirtyq'[v]) \cup {i}
         /\ Once(dirtyq'[v]) /\ i \notin In(dirtyq'[v])
         /\ \A u \in Volumes : u # v => dirtyq'[u] = dirtyq[u]
  <2>1. v \in DOMAIN dirtyq /\ dirtyq[v] \in Seq(Inodes) /\ dirtyq[v] # <<>> /\ DOMAIN dirtyq = Volumes
    BY <1>2
  <2>2. Once(dirtyq[v])
    BY <1>2 DEF DirtyQueueOK
  <2>. QED BY <1>2, <2>1, <2>2, DequeueIn
<1>4. /\ UNCHANGED <<istate, ilbn, ivol, iblock, vblock, data, node, freeq, syncq, inuseq, file,
                     disk, w, acked>>
      /\ \A t2 \in Flushers : t2 # t => f'[t2] = f[t2]
      /\ f'[t].v_idx = v
      /\ \/ /\ ~ ilock[i] /\ ilock' = [ilock EXCEPT ![i] = TRUE]
            /\ f'[t].batch = Append(f[t].batch, i)
            /\ f'[t].pc = "collect" /\ f'[t].failed = f[t].failed
         \/ /\ ilock[i] /\ ilock' = ilock
            /\ f'[t].batch = f[t].batch
            /\ f'[t].pc = "requeue" /\ f'[t].failed = i
  <2>0. f \in [Flushers -> FlusherRec]
    BY Types
  <2>. QED BY <1>0, <1>3, <2>0, SMTT(90) DEF FlushCollect, FlusherRec
<1>5. /\ ivol[i] = v /\ istate[i] = "DIRTY" /\ i \notin In(f[t].batch)
      /\ f[t].failed = NoInode /\ NoInode \notin Inodes
      /\ \A u \in Volumes : Redirtied(u) => w[u].idx # i
  <2>1. ivol[i] = v /\ istate[i] = "DIRTY" /\ i \notin In(f[t].batch)
    BY <1>2, <1>3 DEF DirtyQueueOK, FlusherSafe
  <2>2. f[t].failed = NoInode
    BY <1>0, <1>2 DEF FlusherSafe
  <2>3. ASSUME NEW u \in Volumes, Redirtied(u) PROVE w[u].idx # i
    <3>1. w[u].pc \in Locking
      BY <2>3 DEF Redirtied, Locking
    <3>2. ivol[w[u].idx] = u
      BY <3>1, LockedInode
    <3>. QED BY <1>2, <1>3, <2>1, <2>3, <3>2 DEF DirtyQueueOK
  <2>. QED BY <2>1, <2>2, <2>3, Types
<1>6. \A x \in Inodes : ilock[x] => ilock'[x]
  BY <1>4, Types
<1>7. \A u \in Volumes : w[u].pc \in Locking => ilock'[w[u].idx]
  BY <1>6, LockedInode DEF SafetyInv, WritersOK, WriterSafe
<1>8. /\ NodesSame /\ InodesSame /\ WritersSame
      /\ NodesOK' /\ InUseOK' /\ WritersOK' /\ BalloonsOK' /\ FreeOK' /\ BlocksOK'
  BY <1>4, <1>7, OutsideKept
<1>9. LocksSame
  BY <1>6 DEF LocksSame
<1>10. ContentsOK' /\ FilesKept
  BY <1>4, <1>8, ContentsKept DEF SafetyInv, WritersSame
<1>11. VolumesOK'
  BY <1>0, <1>4, VolumesKept DEF SafetyInv, Flushing
<1>12. /\ In(f[t].batch) \subseteq In(f'[t].batch)
       /\ i \in In(f'[t].batch) \/ f'[t].failed = i
       /\ \/ ~ ilock[i] /\ In(f'[t].batch) = In(f[t].batch) \cup {i} /\ Once(f'[t].batch)
             /\ f'[t].failed = NoInode /\ f'[t].pc = "collect"
          \/ /\ f'[t].batch = f[t].batch /\ f'[t].failed = i /\ f'[t].pc = "requeue"
  <2>1. Once(f[t].batch)
    BY <1>2 DEF FlusherSafe
  <2>2. /\ In(Append(f[t].batch, i)) = In(f[t].batch) \cup {i}
        /\ Once(Append(f[t].batch, i))
    BY <1>2, <1>5, <2>1, AppendIn
  <2>3. CASE ilock[i]
    BY <1>4, <2>3
  <2>4. CASE ~ ilock[i]
    BY <1>4, <1>5, <2>2, <2>4
  <2>. QED BY <2>3, <2>4
<1>13. DirtyOK'
  <2>1. ASSUME NEW u \in Volumes PROVE DirtyQueueOK(u)'
    <3>1. DirtyQueueOK(u)
      BY DEF SafetyInv, DirtyOK
    <3>2. Once(dirtyq'[u]) /\ In(dirtyq'[u]) \subseteq In(dirtyq[u])
      BY <1>3, <3>1 DEF DirtyQueueOK
    <3>3. Redirtied(u)' <=> Redirtied(u)
      BY <1>4 DEF Redirtied
    <3>. QED BY <1>4, <3>1, <3>2, <3>3 DEF DirtyQueueOK
  <2>2. ASSUME NEW x \in Inodes PROVE DirtyFound(x)'
    <3>1. DirtyFound(x) /\ ivol[x] \in Volumes
      BY Types DEF SafetyInv, DirtyOK
    <3>2. CASE x = i
      BY <1>12, <3>2 DEF DirtyFound
    <3>3. CASE x # i
      <4>1. x \in In(dirtyq[ivol[x]]) => x \in In(dirtyq'[ivol'[x]])
        BY <1>3, <1>4, <3>1, <3>3
      <4>2. ASSUME NEW t2 \in Flushers, x \in In(f[t2].batch) \/ f[t2].failed = x
            PROVE  x \in In(f'[t2].batch) \/ f'[t2].failed = x
        BY <1>4, <1>5, <1>12, <4>2
      <4>3. \A u \in Volumes : Redirtied(u)' <=> Redirtied(u)
        BY <1>4 DEF Redirtied
      <4>. QED BY <1>4, <3>1, <4>1, <4>2, <4>3 DEF DirtyFound
    <3>. QED BY <3>2, <3>3
  <2>. QED BY <2>1, <2>2 DEF DirtyOK
<1>14. FlushersOK'
  <2>1. FlusherSafe(t)'
    <3>1. Once(f'[t].batch)
      BY <1>2, <1>12 DEF FlusherSafe
    <3>2. ASSUME NEW x \in In(f'[t].batch)
          PROVE  /\ istate'[x] = "DIRTY" /\ ivol'[x] = v /\ ilock'[x]
                 /\ x \notin In(dirtyq'[v])
                 /\ \A u \in Volumes : w'[u].pc \in Locking => w'[u].idx # x
                 /\ \A k \in Syncers : Unlocking(k)' => s'[k].idx # x
      <4>1. CASE x \in In(f[t].batch)
        BY <1>2, <1>3, <1>4, <1>6, <4>1, SMTT(90) DEF FlusherSafe, Unlocking
      <4>2. CASE x = i /\ ~ ilock[i]
        <5>1. ilock'[i]
          BY <1>4, <4>2, Types
        <5>2. \A u \in Volumes : w[u].pc \in Locking => w[u].idx # i
          BY <4>2 DEF SafetyInv, WritersOK, WriterSafe
        <5>3. \A k \in Syncers : Unlocking(k) => s[k].idx # i
          BY <4>2 DEF SafetyInv, SyncersOK, SyncerSafe
        <5>. QED BY <1>3, <1>4, <1>5, <4>2, <5>1, <5>2, <5>3 DEF Unlocking
      <4>. QED BY <1>12, <4>1, <4>2
    <3>3. f'[t].failed # NoInode =>
             /\ f'[t].failed = i /\ istate'[i] = "DIRTY" /\ ivol'[i] = v
             /\ i \notin In(dirtyq'[v]) /\ i \notin In(f'[t].batch)
             /\ \A u \in Volumes : Redirtied(u)' => w'[u].idx # i
      <4>1. \A u \in Volumes : Redirtied(u)' <=> Redirtied(u)
        BY <1>4 DEF Redirtied
      <4>. QED BY <1>3, <1>4, <1>5, <1>12, <4>1
    <3>4. /\ f'[t].pc \in {"collect", "requeue"}
          /\ f'[t].failed # NoInode <=> f'[t].pc = "requeue"
      BY <1>4, <1>5
    <3>. QED BY <1>4, <3>1, <3>2, <3>3, <3>4 DEF FlusherSafe
  <2>. QED BY <1>0, <1>3, <1>4, <1>8, <1>9, <2>1, VolumeFlushersKept
<1>15. SyncersOK'
  BY <1>4, <1>8, <1>9, SyncersStay
<1>16. FreshOK'
  <2>1. \A t2 \in Flushers : f'[t2].pc = "hand_off" => f'[t2] = f[t2]
    BY <1>4
  <2>. QED BY <1>4, <2>1, FreshStays DEF Filed, Synced
<1>. QED BY <1>8, <1>10, <1>11, <1>13, <1>14, <1>15, <1>16 DEF SafetyInv

\* The inode whose lock was taken goes back.
LEMMA FlushRequeueSafe ==
    ASSUME TypeInv, TypeInv', SafetyInv, NEW t \in Flushers, UNCHANGED <<writerVars, s, b>>,
           FlushRequeue(t)
    PROVE  SafetyInv' /\ FilesKept
<1>. USE DEF inodeTable, storage, writerVars
<1>0. Flushing(t) /\ f[t].pc = "requeue"
  BY DEF FlushRequeue, Flushing
<1>1. PICK v \in Volumes, i \in Inodes : v = f[t].v_idx /\ i = f[t].failed
  BY <1>0, OwnVolume DEF TypeInv, FlusherOK
<1>. USE <1>1
<1>2. /\ dirtyq \in [Volumes -> Seq(Inodes)] /\ FlusherSafe(t) /\ DirtyQueueOK(v)
      /\ In(f[t].batch) \subseteq Inodes /\ i # NoInode
      /\ i \notin In(dirtyq[v]) /\ i \notin In(f[t].batch)
      /\ ivol[i] = v /\ istate[i] = "DIRTY"
      /\ \A u \in Volumes : Redirtied(u) => w[u].idx # i
  <2>1. i # NoInode
    BY Types
  <2>. QED BY <1>0, <2>1, OwnVolume, ZenonT(90) DEF FlusherSafe
<1>3. /\ UNCHANGED <<inodeTable, vblock, data, node, freeq, syncq, inuseq, storage, w, acked>>
      /\ \A t2 \in Flushers : t2 # t => f'[t2] = f[t2]
      /\ f'[t].v_idx = v /\ f'[t].batch = f[t].batch
      /\ f'[t].pc = "collect" /\ f'[t].failed = NoInode
      /\ dirtyq' = Enqueue(dirtyq, v, i)
  <2>0. f \in [Flushers -> FlusherRec]
    BY Types
  <2>. QED BY <2>0 DEF FlushRequeue, FlusherRec
<1>4. /\ In(dirtyq'[v]) = In(dirtyq[v]) \cup {i} /\ Once(dirtyq'[v])
      /\ \A u \in Volumes : u # v => dirtyq'[u] = dirtyq[u]
  <2>1. v \in DOMAIN dirtyq /\ dirtyq[v] \in Seq(Inodes) /\ DOMAIN dirtyq = Volumes
    BY <1>2
  <2>2. Once(dirtyq[v])
    BY <1>2 DEF DirtyQueueOK
  <2>. QED BY <1>2, <1>3, <2>1, <2>2, EnqueueIn
<1>5. /\ NodesSame /\ InodesSame /\ WritersSame /\ LocksSame
      /\ NodesOK' /\ InUseOK' /\ WritersOK' /\ BalloonsOK' /\ FreeOK' /\ BlocksOK' /\ ContentsOK' /\ FilesKept
  BY <1>3, TablesKept
<1>6. VolumesOK'
  BY <1>0, <1>3, VolumesKept DEF SafetyInv, Flushing
<1>7. DirtyOK'
  <2>0. \A u \in Volumes : Redirtied(u)' <=> Redirtied(u)
    BY <1>3 DEF Redirtied
  <2>1. ASSUME NEW u \in Volumes PROVE DirtyQueueOK(u)'
    <3>1. DirtyQueueOK(u)
      BY DEF SafetyInv, DirtyOK
    <3>2. CASE u = v
      BY <1>2, <1>3, <1>4, <2>0, <3>1, <3>2 DEF DirtyQueueOK
    <3>3. CASE u # v
      BY <1>3, <1>4, <2>0, <3>1, <3>3 DEF DirtyQueueOK
    <3>. QED BY <3>2, <3>3
  <2>2. ASSUME NEW x \in Inodes PROVE DirtyFound(x)'
    <3>1. DirtyFound(x) /\ ivol[x] \in Volumes
      BY Types DEF SafetyInv, DirtyOK
    <3>2. CASE x = i
      BY <1>2, <1>3, <1>4, <3>2 DEF DirtyFound
    <3>3. CASE x # i
      <4>1. x \in In(dirtyq[ivol[x]]) => x \in In(dirtyq'[ivol'[x]])
        BY <1>3, <1>4, <3>1, <3>3
      <4>2. ASSUME NEW t2 \in Flushers, x \in In(f[t2].batch) \/ f[t2].failed = x
            PROVE  x \in In(f'[t2].batch) \/ f'[t2].failed = x
        BY <1>3, <3>3, <4>2
      <4>. QED BY <1>3, <2>0, <3>1, <4>1, <4>2 DEF DirtyFound
    <3>. QED BY <3>2, <3>3
  <2>. QED BY <2>1, <2>2 DEF DirtyOK
<1>8. FlushersOK'
  <2>1. FlusherSafe(t)'
    <3>1. \A x \in In(f[t].batch) : x \notin In(dirtyq'[v])
      BY <1>2, <1>4 DEF FlusherSafe
    <3>. QED BY <1>2, <1>3, <3>1 DEF FlusherSafe, Unlocking
  <2>. QED BY <1>0, <1>3, <1>4, <1>5, <2>1, VolumeFlushersKept
<1>9. SyncersOK'
  BY <1>3, <1>5, SyncersStay
<1>10. FreshOK'
  BY <1>3, FreshStays DEF Filed, Synced
<1>. QED BY <1>5, <1>6, <1>7, <1>8, <1>9, <1>10 DEF SafetyInv

\* In a run of consecutive blocks the m-th inode is m - 1 blocks after the first.
LEMMA RunBlocks ==
    ASSUME NEW batch \in Seq(Inodes), ilbn \in [Inodes -> Lbns],
           NEW n \in 1 .. Len(batch), Consecutive(batch, n)
    PROVE  \A m \in 1 .. n : ilbn[batch[m]] - ilbn[batch[1]] = m - 1
<1>. DEFINE Bad == {m \in Nat : m \in 1 .. n /\ ilbn[batch[m]] - ilbn[batch[1]] # m - 1}
<1>1. /\ Len(batch) \in Nat /\ n \in Nat
      /\ \A m \in 1 .. n : batch[m] \in Inodes /\ ilbn[batch[m]] \in Int
  BY DEF Lbns
<1>2. SUFFICES ASSUME NEW m0 \in Bad PROVE FALSE
  BY <1>1
<1>3. PICK m \in Bad : \A x \in Bad : m <= x
  <2>1. Bad \subseteq Nat
    OBVIOUS
  <2>. HIDE DEF Bad
  <2>. QED BY <1>2, <2>1, LeastNatural
<1>4. m \in 1 .. n /\ ilbn[batch[m]] - ilbn[batch[1]] # m - 1
  OBVIOUS
<1>5. m # 1
  BY <1>1, <1>4
<1>6. m - 1 \in 1 .. n /\ m - 1 \in 1 .. n - 1 /\ (m - 1) + 1 = m /\ ~ (m <= m - 1)
  BY <1>1, <1>4, <1>5
<1>7. m - 1 \notin Bad
  <2>. HIDE DEF Bad
  <2>. QED BY <1>3, <1>6
<1>8. ilbn[batch[m - 1]] - ilbn[batch[1]] = (m - 1) - 1
  BY <1>6, <1>7
<1>9. ilbn[batch[m]] = ilbn[batch[m - 1]] + 1
  BY <1>6 DEF Consecutive
<1>. QED BY <1>1, <1>4, <1>6, <1>8, <1>9, SMTT(90)

\* The blocks of the batch are pending, so no other inode has them.
LEMMA FlushWriteSafe ==
    ASSUME TypeInv, TypeInv', SafetyInv, NEW t \in Flushers, UNCHANGED <<writerVars, s, b>>,
           FlushWrite(t)
    PROVE  SafetyInv' /\ FilesKept
<1>. USE DEF inodeTable, queues, writerVars
<1>0. Flushing(t) /\ f[t].pc = "write"
  BY DEF FlushWrite, Flushing
<1>1. PICK v \in Volumes : v = f[t].v_idx
  BY <1>0, OwnVolume
<1>. DEFINE batch == f[t].batch
            start == batch[1]
<1>2. /\ batch \in Seq(Inodes) /\ batch # <<>> /\ Len(batch) \in Nat \ {0}
      /\ start \in Inodes /\ Head(batch) = start
      /\ FlusherSafe(t)
      /\ \A m \in 1 .. Len(batch) : batch[m] \in Inodes /\ batch[m] \in In(batch)
  <2>1. batch \in Seq(Inodes) /\ batch # <<>> /\ FlusherSafe(t)
    BY <1>0, OwnVolume DEF TypeInv, FlusherOK
  <2>2. Len(batch) \in Nat \ {0}
    BY <2>1, EmptySeq
  <2>. QED BY <2>1, <2>2 DEF In
<1>3. PICK n \in 1 .. Len(batch) :
         /\ Consecutive(batch, n)
         /\ file' = [file EXCEPT ![ivol[start]] =
                       [l \in Lbns |-> IF l - ilbn[start] \in 0 .. n - 1
                                       THEN data[iblock[batch[l - ilbn[start] + 1]]]
                                       ELSE file[ivol[start]][l]]]
         /\ f' = [f EXCEPT ![t].pc = "hand_off", ![t].run = n]
  <2>. DEFINE n == CHOOSE m \in 1 .. Len(batch) :
                     Consecutive(batch, m) /\ ~ Consecutive(batch, m + 1)
  <2>1. n \in 1 .. Len(batch) /\ Consecutive(batch, n)
    BY <1>2, RunExists
  <2>2. /\ file' = [file EXCEPT ![ivol[start]] =
                       [l \in Lbns |-> IF l - ilbn[start] \in 0 .. n - 1
                                       THEN data[iblock[batch[l - ilbn[start] + 1]]]
                                       ELSE file[ivol[start]][l]]]
        /\ f' = [f EXCEPT ![t].pc = "hand_off", ![t].run = n]
    BY <1>2 DEF FlushWrite
  <2>. HIDE DEF n
  <2>. QED BY <2>1, <2>2
<1>4. /\ UNCHANGED <<inodeTable, vblock, data, node, queues, disk, w, acked>>
      /\ \A t2 \in Flushers : t2 # t => f'[t2] = f[t2]
      /\ f'[t].v_idx = f[t].v_idx /\ f'[t].batch = f[t].batch /\ f'[t].failed = f[t].failed
      /\ f'[t].pc = "hand_off" /\ f'[t].run = n
  <2>0. f \in [Flushers -> FlusherRec]
    BY Types
  <2>1. UNCHANGED <<inodeTable, vblock, data, node, queues, disk, w, acked>>
    BY DEF FlushWrite
  <2>2. /\ \A t2 \in Flushers : t2 # t => f'[t2] = f[t2]
        /\ f'[t].v_idx = f[t].v_idx /\ f'[t].batch = f[t].batch /\ f'[t].failed = f[t].failed
        /\ f'[t].pc = "hand_off" /\ f'[t].run = n
    BY <1>3, <2>0 DEF FlusherRec
  <2>. QED BY <2>1, <2>2
<1>. HIDE DEF batch, start
<1>5. ivol[start] = v /\ \A x \in In(batch) : x \in Inodes /\ istate[x] = "DIRTY" /\ ivol[x] = v
  BY <1>1, <1>2, OwnVolume, <1>0 DEF FlusherSafe, batch, start
<1>6. \A m \in 1 .. n : m \in 1 .. Len(batch) /\ ilbn[batch[m]] - ilbn[start] = m - 1
  <2>1. \A m \in 1 .. n : ilbn[batch[m]] - ilbn[batch[1]] = m - 1
    BY <1>2, <1>3, RunBlocks, Types
  <2>. QED BY <1>2, <2>1 DEF start
<1>7. \A u \in Volumes : u # v => file'[u] = file[u]
  BY <1>3, <1>5 DEF TypeInv, TypeOK, SharedTypeOK
<1>8. \A l \in Lbns : file'[v][l] = IF l - ilbn[start] \in 0 .. n - 1
                                    THEN data[iblock[batch[l - ilbn[start] + 1]]]
                                    ELSE file[v][l]
  <2>1. file \in [Volumes -> [Lbns -> Contents]]
    BY DEF TypeInv, TypeOK, SharedTypeOK
  <2>. QED BY <1>3, <1>5, <2>1
<1>9. ASSUME NEW l \in Lbns, l - ilbn[start] \in 0 .. n - 1
      PROVE  \E m \in 1 .. n : ilbn[batch[m]] = l /\ m = l - ilbn[start] + 1
  <2>1. l \in Int /\ ilbn[start] \in Int /\ n \in Nat
    BY <1>2, Types DEF Lbns
  <2>2. PICK m \in 1 .. n : m = l - ilbn[start] + 1
    BY <1>9, <2>1
  <2>3. ilbn[batch[m]] - ilbn[start] = m - 1 /\ ilbn[batch[m]] \in Int
    BY <1>2, <1>6, Types DEF Lbns
  <2>4. ilbn[batch[m]] = l
    BY <2>1, <2>2, <2>3
  <2>. QED BY <2>2, <2>4
<1>10. /\ NodesSame /\ InodesSame /\ WritersSame /\ LocksSame
       /\ NodesOK' /\ InUseOK' /\ WritersOK' /\ BalloonsOK' /\ FreeOK' /\ BlocksOK'
  <2>1. \A u \in Volumes : w[u].pc \in Locking => ilock'[w[u].idx]
    BY <1>4 DEF SafetyInv, WritersOK, WriterSafe
  <2>. QED BY <1>4, <2>1, OutsideKept DEF LocksSame
<1>11. DirtyOK'
  BY <1>4, <1>10, DirtyKept DEF SafetyInv, WritersSame
<1>12. VolumesOK'
  BY <1>0, <1>4, VolumesKept DEF SafetyInv, Flushing
<1>13. FlushersOK'
  <2>1. FlusherSafe(t)'
    BY <1>0, <1>2, <1>4 DEF FlusherSafe, Redirtied, Unlocking
  <2>. QED BY <1>4, <1>10, <2>1, OtherFlushersKept
<1>14. SyncersOK'
  BY <1>4, <1>10, SyncersStay
\* A block of the run that is pending is the block of an inode of the batch.
<1>15. ASSUME NEW x \in Inodes, istate[x] \in {"DIRTY", "SYNC"}, ivol[x] = v, x \notin In(batch)
       PROVE  ~ (ilbn[x] - ilbn[start] \in 0 .. n - 1)
  <2>. SUFFICES ASSUME ilbn[x] - ilbn[start] \in 0 .. n - 1 PROVE FALSE
    OBVIOUS
  <2>1. ilbn[x] \in Lbns
    BY Types
  <2>2. PICK m \in 1 .. n : ilbn[batch[m]] = ilbn[x]
    BY <1>9, <2>1
  <2>3. batch[m] \in In(batch) /\ batch[m] \in Inodes /\ istate[batch[m]] = "DIRTY" /\ ivol[batch[m]] = v
    BY <1>2, <1>5, <1>6
  <2>4. ~ Unhooking(x) /\ ~ Unhooking(batch[m])
    BY <1>15, <2>3 DEF Unhooking, SafetyInv, BalloonsOK, BalloonSafe
  <2>5. x = batch[m]
    BY <1>15, <2>2, <2>3, <2>4 DEF SafetyInv, InUseOK
  <2>. QED BY <1>15, <2>3, <2>5
<1>16. ContentsOK' /\ FilesKept
  <2>1. ASSUME NEW x \in Inodes PROVE InodeHolds(x)'
    <3>1. InodeHolds(x) /\ ivol[x] \in Volumes /\ ilbn[x] \in Lbns
      BY Types DEF SafetyInv, ContentsOK
    <3>. QED BY <1>4, <1>10, <3>1 DEF InodeHolds, WritersSame, LatestSame
  <2>2. ASSUME NEW u \in Volumes, NEW l \in Lbns, FileHolds(u, l)
        PROVE  FileHolds(u, l)'
    <3>1. FileHolds(u, l) /\ Pending(u, l)' = Pending(u, l)
      BY <2>2, <1>4 DEF Pending
    <3>2. CASE u = v /\ l - ilbn[start] \in 0 .. n - 1
      <4>1. PICK m \in 1 .. n : ilbn[batch[m]] = l
        BY <1>9, <3>2
      <4>2. batch[m] \in Pending(u, l)
        BY <1>2, <1>5, <1>6, <3>2, <4>1 DEF Pending
      <4>. QED BY <3>1, <4>2 DEF FileHolds
    <3>3. CASE ~ (u = v /\ l - ilbn[start] \in 0 .. n - 1)
      <4>1. file'[u][l] = file[u][l]
        BY <1>7, <1>8, <3>3
      <4>. QED BY <1>4, <1>10, <3>1, <4>1 DEF FileHolds, WritersSame, LatestSame
    <3>. QED BY <3>2, <3>3
  <2>3. ASSUME NEW u \in Volumes PROVE CopyHolds(u)'
    BY <1>4 DEF SafetyInv, ContentsOK, CopyHolds, NewContent
  <2>. QED BY <2>1, <2>2, <2>3 DEF ContentsOK, FilesKept
<1>17. FreshOK'
  <2>1. ASSUME NEW x \in Inodes, istate[x] = "SYNC" PROVE Filed(x)'
    <3>1. Filed(x) /\ ivol[x] \in Volumes /\ ilbn[x] \in Lbns
      BY <2>1, Types DEF SafetyInv, FreshOK
    <3>2. x \notin In(batch)
      BY <1>5, <2>1
    <3>3. file'[ivol[x]][ilbn[x]] = file[ivol[x]][ilbn[x]]
      BY <1>7, <1>8, <1>15, <2>1, <3>1, <3>2
    <3>. QED BY <1>4, <3>1, <3>3 DEF Filed
  <2>2. ASSUME NEW t2 \in Flushers PROVE FiledOK(t2)'
    <3>1. CASE t2 = t
      <4>1. ASSUME NEW m \in 1 .. n PROVE Filed(batch[m])'
        <5>1. /\ batch[m] \in Inodes /\ ivol[batch[m]] = v /\ ilbn[batch[m]] \in Lbns
              /\ ilbn[batch[m]] - ilbn[start] = m - 1
          BY <1>2, <1>5, <1>6, Types
        <5>2. m - 1 \in 0 .. n - 1 /\ (m - 1) + 1 = m
          BY <1>2
        <5>3. file'[v][ilbn[batch[m]]] = data[iblock[batch[m]]]
          BY <1>8, <5>1, <5>2
        <5>4. batch' = batch
          BY <1>4 DEF batch
        <5>. QED BY <1>4, <5>1, <5>3, <5>4 DEF Filed
      <4>2. f'[t].batch = batch /\ f'[t].run = n
        BY <1>4 DEF batch
      <4>. QED BY <1>4, <3>1, <4>1, <4>2 DEF FiledOK, Filed, batch
    <3>2. CASE t2 # t
      <4>1. FiledOK(t2) /\ f'[t2] = f[t2]
        BY <1>4, <3>2 DEF SafetyInv, FreshOK
      <4>2. ASSUME f[t2].pc = "hand_off", NEW m \in 1 .. f[t2].run
            PROVE  Filed(f[t2].batch[m])'
        <5>1. Flushing(t2) /\ f[t2].run \in 1 .. Len(f[t2].batch) /\ Len(f[t2].batch) \in Nat
          BY <4>2, Types DEF Flushing, TypeInv, FlusherOK, FlusherRec
        <5>2. PICK x \in Inodes : x = f[t2].batch[m] /\ x \in In(f[t2].batch)
          BY <5>1, OwnVolume DEF In
        <5>3. ivol[x] = f[t2].v_idx /\ f[t2].v_idx \in Volumes /\ f[t2].v_idx # v
          BY <1>0, <1>1, <3>2, <5>1, <5>2, OwnVolume DEF FlusherSafe
        <5>4. Filed(x) /\ file'[ivol[x]] = file[ivol[x]]
          BY <1>7, <4>1, <4>2, <5>2, <5>3 DEF FiledOK
        <5>. QED BY <1>4, <4>1, <5>2, <5>4 DEF Filed
      <4>. QED BY <4>1, <4>2 DEF FiledOK, Filed
    <3>. QED BY <3>1, <3>2
  <2>3. ASSUME NEW k \in Syncers PROVE SyncedOK(k)'
    BY <1>4 DEF SafetyInv, FreshOK, SyncedOK, Synced, Unlocking
  <2>. QED BY <1>4, <2>1, <2>2, <2>3 DEF FreshOK
<1>. QED BY <1>10, <1>11, <1>12, <1>13, <1>14, <1>16, <1>17 DEF SafetyInv

\* The head of the batch, which the file has, goes to a sync queue, locked.
LEMMA FlushHandOffSafe ==
    ASSUME TypeInv, TypeInv', SafetyInv, NEW t \in Flushers, UNCHANGED <<writerVars, s, b>>,
           FlushHandOff(t)
    PROVE  SafetyInv' /\ FilesKept
<1>. USE DEF storage, writerVars
<1>0. Flushing(t) /\ f[t].pc = "hand_off"
  BY DEF FlushHandOff, Flushing
<1>1. PICK v \in Volumes : v = f[t].v_idx
  BY <1>0, OwnVolume
<1>2. /\ f[t].batch \in Seq(Inodes) /\ f[t].batch # <<>> /\ FlusherSafe(t)
      /\ f[t].run \in 1 .. Len(f[t].batch) /\ In(f[t].batch) \subseteq Inodes
      /\ Len(f[t].batch) \in Nat
      /\ Tail(f[t].batch) \in Seq(Inodes) /\ Len(Tail(f[t].batch)) = Len(f[t].batch) - 1
      /\ Head(f[t].batch) = f[t].batch[1]
      /\ \A m \in 1 .. Len(f[t].batch) - 1 : Tail(f[t].batch)[m] = f[t].batch[m + 1]
  <2>1. /\ f[t].batch \in Seq(Inodes) /\ f[t].batch # <<>> /\ FlusherSafe(t)
        /\ f[t].run \in 1 .. Len(f[t].batch) /\ In(f[t].batch) \subseteq Inodes
    BY <1>0, OwnVolume DEF TypeInv, FlusherOK
  <2>. QED BY <2>1, HeadTailProperties
<1>3. PICK i \in Inodes :
         /\ i = Head(f[t].batch) /\ i \in In(f[t].batch)
         /\ In(f[t].batch) = In(Tail(f[t].batch)) \cup {i}
         /\ Once(Tail(f[t].batch)) /\ i \notin In(Tail(f[t].batch))
  <2>1. Once(f[t].batch)
    BY <1>2 DEF FlusherSafe
  <2>. QED BY <1>2, <2>1, TailIn
<1>4. PICK q \in Syncers : q = sync_queue_idx
  BY DEF TypeInv, TypeOK, SharedTypeOK
<1>5. /\ UNCHANGED <<ilbn, ivol, iblock, ilock, vblock, data, node, freeq, dirtyq, inuseq,
                     file, disk, w, acked>>
      /\ istate' = [istate EXCEPT ![i] = "SYNC"]
      /\ syncq' = Enqueue(syncq, q, i)
      /\ \A t2 \in Flushers : t2 # t => f'[t2] = f[t2]
      /\ f'[t].v_idx = v /\ f'[t].batch = Tail(f[t].batch) /\ f'[t].failed = f[t].failed
      /\ f'[t].run = f[t].run - 1
      /\ \/ f[t].run > 1 /\ f'[t].pc = "hand_off"
         \/ ~ (f[t].run > 1) /\ Tail(f[t].batch) # <<>> /\ f'[t].pc = "write"
         \/ ~ (f[t].run > 1) /\ Tail(f[t].batch) = <<>> /\ f'[t].pc = "give_back"
  <2>0. f \in [Flushers -> FlusherRec]
    BY Types
  <2>1. /\ UNCHANGED <<ilbn, ivol, iblock, ilock, vblock, data, node, freeq, dirtyq, inuseq,
                       file, disk, w, acked>>
        /\ istate' = [istate EXCEPT ![i] = "SYNC"]
        /\ syncq' = Enqueue(syncq, q, i)
    BY <1>3, <1>4 DEF FlushHandOff
  <2>2. f' = [f EXCEPT ![t] = [f[t] EXCEPT
                 !.batch = Tail(f[t].batch), !.run = f[t].run - 1,
                 !.pc = IF f[t].run > 1 THEN "hand_off"
                        ELSE IF Tail(f[t].batch) # <<>> THEN "write" ELSE "give_back"]]
    BY DEF FlushHandOff
  <2>. QED BY <1>1, <2>0, <2>1, <2>2 DEF FlusherRec
<1>6. /\ istate[i] = "DIRTY" /\ ivol[i] = v /\ ilock[i] /\ i \notin In(dirtyq[v])
      /\ \A u \in Volumes : w[u].pc \in Locking => w[u].idx # i
      /\ \A k \in Syncers : Unlocking(k) => s[k].idx # i
      /\ f[t].failed = NoInode /\ NoInode \notin Inodes
  BY <1>0, <1>1, <1>2, <1>3, Types DEF FlusherSafe
<1>7. istate'[i] = "SYNC" /\ \A x \in Inodes : x # i => istate'[x] = istate[x]
  BY <1>5, Types
<1>8. WritersSame /\ NodesSame /\ LocksSame
  BY <1>5, TablesStay, WritersStay DEF LocksSame
<1>9. NodesOK'
  <2>1. ASSUME NEW u \in Volumes, NEW l \in Lbns PROVE NodeOK(u, l)'
    <3>1. NodeOK(u, l) /\ node[u][l].inode \in Inodes \cup {NoInode}
      BY Types DEF SafetyInv, NodesOK, Nodes
    <3>. QED BY <1>5, <1>7, <3>1 DEF NodeOK, Fresh
  <2>. QED BY <2>1 DEF NodesOK
<1>10. InUseOK'
  BY <1>5, <1>6, <1>7 DEF SafetyInv, InUseOK, Unhooking
<1>11. WritersOK'
  <2>1. ASSUME NEW u \in Volumes PROVE WriterSafe(u)'
    <3>1. WriterSafe(u) /\ Node(u)' = Node(u)
      BY <1>5 DEF SafetyInv, WritersOK, Node
    <3>2. w[u].pc \in {"assign", "insert", "lock_new"} => w[u].idx # i
      BY <1>6, <3>1 DEF WriterSafe
    <3>3. w[u].pc \in {"assign", "insert", "lock_new"} \cup Locking => w[u].idx \in Inodes
      BY <3>1 DEF WriterSafe, TypeInv, WriterOK, HasInode
    <3>4. w[u].pc \in {"assign", "insert", "lock_new"} \cup Locking =>
             istate'[w[u].idx] = istate[w[u].idx]
      BY <1>6, <1>7, <3>2, <3>3
    <3>. QED BY <1>5, <3>1, <3>4 DEF WriterSafe, Missing, Storing, Locking
  <2>. QED BY <2>1 DEF WritersOK
<1>12. BalloonsOK'
  <2>1. ASSUME NEW k \in Balloons PROVE BalloonSafe(k)'
    <3>1. /\ BalloonSafe(k) /\ HashNode(k)' = HashNode(k)
          /\ HashNode(k).inode \in Inodes \cup {NoInode}
          /\ b[k].pc # "idle" => b[k].idx \in Inodes
      BY <1>5, Types DEF SafetyInv, BalloonsOK, HashNode, BalloonRec, Nodes, TypeInv, BalloonOK
    <3>2. b[k].pc \in {"free", "enqueue"} => istate'[b[k].idx] = istate[b[k].idx]
      BY <1>6, <1>7, <3>1 DEF BalloonSafe
    <3>3. NumBalloons = 1 => AloneSafe(k)'
      BY <1>7, <1>5, <3>1 DEF BalloonSafe, AloneSafe, Looking
    <3>4. b[k].pc \in {"delete", "free"} /\ HashNode(k).inode # NoInode =>
             istate'[HashNode(k).inode] = istate[HashNode(k).inode]
      BY <1>6, <1>7, <3>1 DEF BalloonSafe
    <3>. QED BY <1>5, <3>1, <3>2, <3>3, <3>4 DEF BalloonSafe
  <2>. QED BY <2>1 DEF BalloonsOK
<1>13. FreeOK'
  <2>1. ASSUME NEW j \in FreeQueues PROVE FreeQueueOK(j)'
    <3>1. FreeQueueOK(j) /\ In(freeq[j]) \subseteq Inodes
      BY InType DEF SafetyInv, FreeOK, TypeInv, TypeOK, SharedTypeOK, FreeQueues
    <3>2. \A x \in In(freeq[j]) : istate'[x] = "FREE"
      BY <1>6, <1>7, <3>1 DEF FreeQueueOK
    <3>. QED BY <1>5, <3>1, <3>2 DEF FreeQueueOK, Taken
  <2>2. ASSUME NEW u \in Volumes PROVE TakenOK(u)'
    BY <1>5 DEF SafetyInv, FreeOK, TakenOK, Taken
  <2>3. ASSUME NEW x \in Inodes PROVE FreeFound(x)'
    <3>1. FreeFound(x) /\ (istate'[x] = "FREE" => istate[x] = "FREE")
      BY <1>7 DEF SafetyInv, FreeOK
    <3>. QED BY <1>5, <3>1 DEF FreeFound, Taken
  <2>. QED BY <2>1, <2>2, <2>3 DEF FreeOK
<1>14. DirtyOK'
  <2>1. ASSUME NEW u \in Volumes PROVE DirtyQueueOK(u)'
    <3>1. DirtyQueueOK(u) /\ In(dirtyq[u]) \subseteq Inodes
      BY InType DEF SafetyInv, DirtyOK, TypeInv, TypeOK, SharedTypeOK
    <3>2. i \notin In(dirtyq[u])
      BY <1>6, <3>1 DEF DirtyQueueOK
    <3>. QED BY <1>5, <1>7, <3>1, <3>2 DEF DirtyQueueOK, Redirtied
  <2>2. ASSUME NEW x \in Inodes PROVE DirtyFound(x)'
    <3>1. DirtyFound(x)
      BY DEF SafetyInv, DirtyOK
    <3>2. CASE x # i
      <4>1. ASSUME NEW t2 \in Flushers, x \in In(f[t2].batch) \/ f[t2].failed = x
            PROVE  x \in In(f'[t2].batch) \/ f'[t2].failed = x
        BY <1>3, <1>5, <3>2, <4>1
      <4>. QED BY <1>5, <1>7, <3>1, <3>2, <4>1 DEF DirtyFound, Redirtied
    <3>3. CASE x = i
      BY <1>7, <3>3 DEF DirtyFound
    <3>. QED BY <3>2, <3>3
  <2>. QED BY <2>1, <2>2 DEF DirtyOK
<1>15. VolumesOK'
  BY <1>0, <1>1, <1>5, VolumesKept DEF SafetyInv, Flushing
<1>16. FlushersOK'
  <2>1. ASSUME NEW t2 \in Flushers PROVE FlusherSafe(t2)'
    <3>1. /\ FlusherSafe(t2) /\ In(f[t2].batch) \subseteq Inodes
          /\ f[t2].failed \in Inodes \cup {NoInode} /\ f[t2].v_idx \in Volumes
      BY Types, InType DEF SafetyInv, FlushersOK, FlusherRec
    <3>2. CASE t2 = t
      <4>1. \A x \in In(Tail(f[t].batch)) : x \in In(f[t].batch) /\ x # i
        BY <1>3
      <4>2. f'[t].pc \notin {"collect", "requeue", "write", "hand_off"} => f'[t].batch = <<>>
        BY <1>5
      <4>3. \A x \in In(Tail(f[t].batch)) : istate'[x] = "DIRTY"
        BY <1>7, <3>1, <3>2, <4>1 DEF FlusherSafe
      <4>4. f'[t].failed = NoInode /\ f'[t].pc # "requeue"
        BY <1>5, <1>6
      <4>5. \A x \in In(Tail(f[t].batch)) :
               /\ ivol'[x] = v /\ ilock'[x] /\ x \notin In(dirtyq'[v])
               /\ \A u \in Volumes : w'[u].pc \in Locking => w'[u].idx # x
        BY <1>1, <1>5, <3>1, <3>2, <4>1 DEF FlusherSafe
      <4>6. ASSUME NEW x \in In(Tail(f[t].batch)), NEW k \in Syncers, Unlocking(k)'
            PROVE  s'[k].idx # x
        BY <1>5, <3>1, <3>2, <4>1, <4>6 DEF FlusherSafe, Unlocking
      <4>. QED BY <1>3, <1>5, <3>2, <4>2, <4>3, <4>4, <4>5, <4>6 DEF FlusherSafe
    <3>3. CASE t2 # t
      <4>1. f'[t2] = f[t2]
        BY <1>5, <3>3
      <4>2. Flushing(t2) => f[t2].v_idx # v
        BY <1>0, <1>1, <3>3, OwnVolume
      <4>3. ~ Flushing(t2) => In(f[t2].batch) = {} /\ f[t2].failed = NoInode
        BY <1>0, <3>3, OwnVolume
      <4>4. i \notin In(f[t2].batch) /\ f[t2].failed # i
        BY <1>6, <3>1, <4>2, <4>3 DEF FlusherSafe
      <4>5. /\ \A x \in In(f[t2].batch) : istate'[x] = "DIRTY"
            /\ f[t2].failed # NoInode => istate'[f[t2].failed] = "DIRTY"
        BY <1>7, <3>1, <4>4 DEF FlusherSafe
      <4>. QED BY <1>5, <3>1, <4>1, <4>5 DEF FlusherSafe, Unlocking, Redirtied
    <3>. QED BY <3>2, <3>3
  <2>. QED BY <2>1 DEF FlushersOK
<1>17. /\ syncq \in [Syncers -> Seq(Inodes)]
       /\ \A k \in Syncers : SyncQueueOK(k) /\ SyncerSafe(k) /\ In(syncq[k]) \subseteq Inodes
                             /\ i \notin In(syncq[k])
  <2>1. syncq \in [Syncers -> Seq(Inodes)]
    BY DEF TypeInv, TypeOK, SharedTypeOK
  <2>. QED BY <1>6, <2>1, InType DEF SafetyInv, SyncersOK, SyncQueueOK
<1>18. /\ In(syncq'[q]) = In(syncq[q]) \cup {i} /\ Once(syncq'[q])
       /\ \A k \in Syncers : k # q => syncq'[k] = syncq[k]
       /\ Len(syncq'[q]) = Len(syncq[q]) + 1 /\ Len(syncq[q]) \in Nat
       /\ \A m \in 1 .. Len(syncq[q]) : syncq'[q][m] = syncq[q][m]
  <2>1. q \in DOMAIN syncq /\ syncq[q] \in Seq(Inodes) /\ DOMAIN syncq = Syncers
    BY <1>17
  <2>2. Once(syncq[q]) /\ i \notin In(syncq[q])
    BY <1>17 DEF SyncQueueOK
  <2>3. syncq'[q] = Append(syncq[q], i)
    BY <1>5, <2>1 DEF Enqueue
  <2>4. /\ In(syncq'[q]) = In(syncq[q]) \cup {i} /\ Once(syncq'[q])
        /\ \A k \in Syncers : k # q => syncq'[k] = syncq[k]
    BY <1>5, <2>1, <2>2, EnqueueIn
  <2>. QED BY <2>1, <2>3, <2>4, AppendProperties
<1>19. SyncersOK'
  <2>1. ASSUME NEW k \in Syncers PROVE SyncQueueOK(k)'
    <3>1. \A x \in In(syncq'[k]) : (x = i /\ k = q) \/ (x # i /\ x \in In(syncq[k]))
      <4>1. i \notin In(syncq[k])
        BY <1>17
      <4>2. CASE k = q
        <5>1. In(syncq'[k]) = In(syncq[k]) \cup {i}
          BY <1>18, <4>2
        <5>. QED BY <4>1, <4>2, <5>1
      <4>3. CASE k # q
        BY <1>18, <4>1, <4>3
      <4>. QED BY <4>2, <4>3
    <3>2. ASSUME NEW x \in In(syncq'[k]), NEW k2 \in Syncers, x \in In(syncq'[k2])
          PROVE  k2 = k
      BY <1>17, <1>18, <3>1, <3>2 DEF SyncQueueOK
    <3>3. \A x \in In(syncq'[k]) : istate'[x] = "SYNC"
      BY <1>7, <1>17, <3>1 DEF SyncQueueOK
    <3>4. Once(syncq'[k])
      BY <1>17, <1>18 DEF SyncQueueOK
    <3>. QED BY <3>2, <3>3, <3>4 DEF SyncQueueOK
  <2>2. ASSUME NEW k \in Syncers PROVE SyncerSafe(k)'
    <3>1. SyncerSafe(k) /\ s[k].n \in Nat /\ Len(syncq[k]) \in Nat
      BY <1>17, Types DEF SyncerRec
    <3>2. Len(syncq[k]) <= Len(syncq'[k]) /\ Len(syncq'[k]) \in Nat
      BY <1>18, <3>1
    <3>3. Unlocking(k) => istate'[s[k].idx] # "SYNC"
      <4>1. Unlocking(k) => s[k].idx \in Inodes
        BY DEF TypeInv, SyncerOK, Unlocking
      <4>. QED BY <1>6, <1>7, <3>1, <4>1 DEF SyncerSafe
    <3>. QED BY <1>5, <3>1, <3>2, <3>3 DEF SyncerSafe, Unlocking
  <2>3. ASSUME NEW x \in Inodes PROVE SyncFound(x)'
    <3>1. SyncFound(x)
      BY DEF SafetyInv, SyncersOK
    <3>2. \A k \in Syncers : In(syncq[k]) \subseteq In(syncq'[k])
      BY <1>18
    <3>3. i \in In(syncq'[q])
      BY <1>18
    <3>. QED BY <1>5, <1>6, <1>7, <3>1, <3>2, <3>3 DEF SyncFound
  <2>. QED BY <2>1, <2>2, <2>3 DEF SyncersOK
<1>20. BlocksOK'
  BY <1>5, <1>8, BlocksKept DEF SafetyInv, WritersSame
<1>21. ContentsOK' /\ FilesKept
  <2>1. ASSUME NEW x \in Inodes PROVE InodeHolds(x)'
    <3>1. InodeHolds(x) /\ ivol[x] \in Volumes /\ ilbn[x] \in Lbns
      BY Types DEF SafetyInv, ContentsOK
    <3>2. istate'[x] # "FREE" => istate[x] # "FREE"
      BY <1>6, <1>7
    <3>. QED BY <1>5, <1>8, <3>1, <3>2 DEF InodeHolds, WritersSame, LatestSame
  <2>2. ASSUME NEW u \in Volumes, NEW l \in Lbns, FileHolds(u, l)
        PROVE  FileHolds(u, l)'
    <3>1. Pending(u, l) \subseteq Pending(u, l)'
      BY <1>5, <1>7 DEF Pending
    <3>. QED BY <1>5, <1>8, <2>2, <3>1 DEF FileHolds, WritersSame, LatestSame
  <2>3. ASSUME NEW u \in Volumes PROVE CopyHolds(u)'
    BY <1>5 DEF SafetyInv, ContentsOK, CopyHolds, NewContent
  <2>. QED BY <2>1, <2>2, <2>3 DEF ContentsOK, FilesKept
<1>22. FreshOK'
  <2>0. \A x \in Inodes : (Filed(x)' <=> Filed(x)) /\ (Synced(x)' <=> Synced(x))
    BY <1>5 DEF Filed, Synced
  <2>1. FiledOK(t) /\ Filed(i)
    BY <1>0, <1>2, <1>3 DEF SafetyInv, FreshOK, FiledOK
  <2>2. ASSUME NEW t2 \in Flushers PROVE FiledOK(t2)'
    <3>1. CASE t2 = t
      <4>1. ASSUME NEW m \in 1 .. f[t].run - 1
            PROVE  file'[ivol'[f'[t].batch[m]]][ilbn'[f'[t].batch[m]]]
                      = data'[iblock'[f'[t].batch[m]]]
        <5>1. m \in 1 .. Len(f[t].batch) - 1 /\ m + 1 \in 1 .. f[t].run /\ m + 1 \in 1 .. Len(f[t].batch)
          BY <1>2
        <5>2. PICK x \in Inodes : x = f[t].batch[m + 1]
          BY <1>2, <5>1
        <5>3. f'[t].batch[m] = x
          BY <1>2, <1>5, <5>1, <5>2
        <5>4. Filed(x)
          BY <1>0, <2>1, <5>1, <5>2 DEF FiledOK
        <5>. QED BY <1>5, <5>3, <5>4 DEF Filed
      <4>2. f'[t].pc = "hand_off" => f'[t].run = f[t].run - 1
        BY <1>5
      <4>. QED BY <3>1, <4>1, <4>2 DEF FiledOK, Filed
    <3>2. CASE t2 # t
      BY <1>5, <3>2, SMTT(90) DEF SafetyInv, FreshOK, FiledOK, Filed
    <3>. QED BY <3>1, <3>2
  <2>3. ASSUME NEW k \in Syncers PROVE SyncedOK(k)'
    <3>1. SyncedOK(k) /\ SyncerSafe(k) /\ s[k].n \in Nat /\ Len(syncq[k]) \in Nat
      BY <1>17, Types DEF SafetyInv, FreshOK, SyncerRec
    <3>2. \A m \in 1 .. Len(syncq[k]) : syncq'[k][m] = syncq[k][m]
      BY <1>18
    <3>3. s[k].pc = "clean" => \A m \in 1 .. s[k].n : m \in 1 .. Len(syncq[k])
      BY <3>1 DEF SyncerSafe
    <3>4. Unlocking(k) => \A m \in 1 .. s[k].n - 1 : m \in 1 .. Len(syncq[k])
      BY <3>1 DEF SyncerSafe
    <3>. QED BY <1>5, <3>1, <3>2, <3>3, <3>4, SMTT(90) DEF SyncedOK, Synced, Unlocking
  <2>4. ASSUME NEW x \in Inodes, istate'[x] = "SYNC" PROVE Filed(x)'
    BY <1>7, <2>0, <2>1, <2>4 DEF SafetyInv, FreshOK
  <2>. QED BY <2>2, <2>3, <2>4 DEF FreshOK
<1>. QED BY <1>9, <1>10, <1>11, <1>12, <1>13, <1>14, <1>15, <1>16, <1>19, <1>20, <1>21, <1>22
     DEF SafetyInv

\* Every step of a flusher.
LEMMA FlusherStepSafe ==
    ASSUME TypeInv, TypeInv', SafetyInv, NEW t \in Flushers, Flusher(t)
    PROVE  SafetyInv' /\ FilesKept
<1>1. UNCHANGED <<writerVars, s, b>> /\ FlushStep(t)
  BY DEF Flusher
<1>2. CASE FlushCheck(t) \/ FlushSize(t) \/ FlushCollected(t)
  BY <1>1, <1>2, FlushQuietSafe
<1>3. CASE FlushTake(t)
  BY <1>1, <1>3, FlushTakeSafe
<1>4. CASE FlushCollect(t)
  BY <1>1, <1>4, FlushCollectSafe
<1>5. CASE FlushRequeue(t)
  BY <1>1, <1>5, FlushRequeueSafe
<1>6. CASE FlushWrite(t)
  BY <1>1, <1>6, FlushWriteSafe
<1>7. CASE FlushHandOff(t)
  BY <1>1, <1>7, FlushHandOffSafe
<1>8. CASE FlushGiveBack(t)
  BY <1>1, <1>8, FlushGiveBackSafe
<1>. QED BY <1>1, <1>2, <1>3, <1>4, <1>5, <1>6, <1>7, <1>8 DEF FlushStep

(***************************************************************************)
(* The steps of a syncer                                                   *)
(***************************************************************************)

\* The inodes in the queue of a syncer that its steps are about.
LEMMA QueueOfSyncer ==
    ASSUME TypeInv, SafetyInv, NEW k \in Syncers
    PROVE  /\ syncq[k] \in Seq(Inodes) /\ Len(syncq[k]) \in Nat /\ s[k].n \in Nat
           /\ In(syncq[k]) \subseteq Inodes
           /\ \A m \in 1 .. Len(syncq[k]) :
                 /\ syncq[k][m] \in Inodes
                 /\ istate[syncq[k][m]] = "SYNC" /\ Filed(syncq[k][m])
           /\ SyncQueueOK(k) /\ SyncerSafe(k) /\ SyncedOK(k)
<1>1. /\ syncq[k] \in Seq(Inodes) /\ s[k].n \in Nat /\ In(syncq[k]) \subseteq Inodes
  BY Types, InType DEF SyncerRec, TypeInv, TypeOK, SharedTypeOK
<1>2. SyncQueueOK(k) /\ SyncerSafe(k) /\ SyncedOK(k)
  BY DEF SafetyInv, SyncersOK, FreshOK
<1>3. ASSUME NEW m \in 1 .. Len(syncq[k])
      PROVE  /\ syncq[k][m] \in Inodes
             /\ istate[syncq[k][m]] = "SYNC" /\ Filed(syncq[k][m])
  <2>1. PICK i \in Inodes : i = syncq[k][m] /\ i \in In(syncq[k])
    BY <1>1 DEF In
  <2>2. istate[i] = "SYNC"
    BY <1>2, <2>1 DEF SyncQueueOK
  <2>3. Filed(i)
    BY <2>2 DEF SafetyInv, FreshOK
  <2>. QED BY <2>1, <2>2, <2>3 DEF Filed
<1>. QED BY <1>1, <1>2, <1>3

\* The flushers do not notice what a syncer does with other inodes.
LEMMA FlushersStay ==
    ASSUME TypeInv, SafetyInv, InodesSame, WritersSame, UNCHANGED <<f, dirtyq>>,
           \A t \in Flushers : \A i \in In(f[t].batch) : ilock'[i],
           \A k \in Syncers : Unlocking(k)' => Unlocking(k) /\ s'[k].idx = s[k].idx
    PROVE  FlushersOK' /\ DirtyOK' /\ (inuseq' = inuseq => VolumesOK')
<1>1. ASSUME NEW t \in Flushers PROVE FlusherSafe(t)'
  BY FlusherKept DEF SafetyInv, FlushersOK, WritersSame
<1>2. DirtyOK'
  BY DirtyKept DEF SafetyInv, WritersSame
<1>3. inuseq' = inuseq => VolumesOK'
  BY VolumesKept DEF SafetyInv, Flushing
<1>. QED BY <1>1, <1>2, <1>3 DEF FlushersOK

\* Steps that touch no inode, no block and no file.
LEMMA SyncQuietSafe ==
    ASSUME TypeInv, TypeInv', SafetyInv, NEW k \in Syncers, UNCHANGED <<writerVars, f, b>>,
           SyncCount(k) \/ SyncEnqueue(k)
    PROVE  SafetyInv' /\ FilesKept
<1>. USE DEF shared, inodeTable, queues, storage, writerVars
<1>1. /\ UNCHANGED <<inodeTable, vblock, data, node, freeq, dirtyq, syncq, inuseq, storage, w,
                     acked, f, b>>
      /\ \A j \in Syncers : j # k => s'[j] = s[j]
      /\ \/ s[k].pc = "idle" /\ s'[k].pc = "sync" /\ s'[k].n = Len(syncq[k])
            /\ Len(syncq[k]) >= SyncLwm
         \/ s[k].pc = "enqueue" /\ s'[k].pc = "unlock" /\ s'[k].n = s[k].n /\ s'[k].idx = s[k].idx
  <2>0. s \in [Syncers -> SyncerRec]
    BY Types
  <2>1. CASE SyncCount(k)
    BY <2>0, <2>1 DEF SyncCount, SyncerRec
  <2>2. CASE SyncEnqueue(k)
    BY <2>0, <2>2 DEF SyncEnqueue, SyncerRec
  <2>. QED BY <2>1, <2>2
<1>2. /\ NodesSame /\ InodesSame /\ WritersSame /\ LocksSame
      /\ NodesOK' /\ InUseOK' /\ WritersOK' /\ BalloonsOK' /\ FreeOK' /\ BlocksOK' /\ ContentsOK' /\ FilesKept
  BY <1>1, TablesKept
<1>3. \A j \in Syncers : (Unlocking(j)' <=> Unlocking(j)) /\ (Unlocking(j) => s'[j].idx = s[j].idx)
  BY <1>1 DEF Unlocking
<1>4. DirtyOK' /\ VolumesOK' /\ FlushersOK'
  BY <1>1, <1>2, <1>3, LocksStay, FlushersStay
<1>5. SyncersOK'
  <2>1. ASSUME NEW j \in Syncers PROVE SyncQueueOK(j)' /\ SyncerSafe(j)'
    <3>1. SyncQueueOK(j) /\ SyncerSafe(j) /\ Len(syncq[j]) \in Nat
      BY QueueOfSyncer
    <3>2. SyncQueueOK(j)'
      BY <1>1, <3>1 DEF SyncQueueOK
    <3>3. s'[j].pc \in {"sync", "clean"} => s'[j].n \in 1 .. Len(syncq'[j])
      <4>1. SyncLwm \in Nat \ {0}
        BY SizeAssumption DEF SizeAssumption
      <4>2. s'[j].pc = "sync" /\ j = k => s'[j].n \in 1 .. Len(syncq[j])
        BY <1>1, <3>1, <4>1
      <4>. QED BY <1>1, <3>1, <4>2 DEF SyncerSafe
    <3>4. Unlocking(j)' => s'[j].n - 1 \in 0 .. Len(syncq'[j])
      BY <1>1, <3>1 DEF SyncerSafe, Unlocking
    <3>5. Unlocking(j)' => \A j2 \in Syncers :
             Unlocking(j2)' /\ s'[j2].idx = s'[j].idx => j2 = j
      BY <1>3, <3>1 DEF SyncerSafe
    <3>6. Unlocking(j)' => /\ ilock'[s'[j].idx] /\ istate'[s'[j].idx] # "SYNC"
                           /\ \A v \in Volumes : w'[v].pc \in Locking => w'[v].idx # s'[j].idx
      BY <1>1, <1>3, <3>1 DEF SyncerSafe
    <3>. QED BY <3>2, <3>3, <3>4, <3>5, <3>6 DEF SyncerSafe
  <2>2. ASSUME NEW x \in Inodes PROVE SyncFound(x)'
    BY <1>1 DEF SafetyInv, SyncersOK, SyncFound
  <2>. QED BY <2>1, <2>2 DEF SyncersOK
<1>6. FreshOK'
  <2>1. ASSUME NEW j \in Syncers PROVE SyncedOK(j)'
    <3>1. SyncedOK(j)
      BY QueueOfSyncer
    <3>2. /\ s'[j].pc = "clean" => s[j].pc = "clean" /\ s'[j].n = s[j].n
          /\ Unlocking(j)' => Unlocking(j) /\ s'[j].n = s[j].n
      BY <1>1 DEF Unlocking
    <3>. QED BY <1>1, <3>1, <3>2 DEF SyncedOK, Synced
  <2>. QED BY <1>1, <2>1, SMTT(90) DEF SafetyInv, FreshOK, FiledOK, Filed
<1>. QED BY <1>2, <1>4, <1>5, <1>6 DEF SafetyInv

\* sync() makes the files of the queued inodes durable.
LEMMA SyncFilesSafe ==
    ASSUME TypeInv, TypeInv', SafetyInv, NEW k \in Syncers, UNCHANGED <<writerVars, f, b>>,
           SyncFiles(k)
    PROVE  SafetyInv' /\ FilesKept
<1>. USE DEF inodeTable, queues, writerVars
<1>1. /\ UNCHANGED <<inodeTable, vblock, data, node, queues, file, w, acked, f, b>>
      /\ disk' = file
      /\ \A j \in Syncers : j # k => s'[j] = s[j]
      /\ s[k].pc = "sync" /\ s'[k].pc = "clean" /\ s'[k].n = s[k].n
  <2>0. s \in [Syncers -> SyncerRec]
    BY Types
  <2>. QED BY <2>0 DEF SyncFiles, SyncerRec
<1>2. /\ NodesSame /\ InodesSame /\ WritersSame /\ LocksSame
      /\ NodesOK' /\ InUseOK' /\ WritersOK' /\ BalloonsOK' /\ FreeOK' /\ BlocksOK'
  <2>1. \A v \in Volumes : w[v].pc \in Locking => ilock'[w[v].idx]
    BY <1>1 DEF SafetyInv, WritersOK, WriterSafe
  <2>. QED BY <1>1, <2>1, OutsideKept DEF LocksSame
<1>3. \A j \in Syncers : (Unlocking(j)' <=> Unlocking(j)) /\ (Unlocking(j) => s'[j] = s[j])
  BY <1>1 DEF Unlocking
<1>4. DirtyOK' /\ VolumesOK' /\ FlushersOK'
  BY <1>1, <1>2, <1>3, LocksStay, FlushersStay
<1>5. SyncersOK'
  <2>1. ASSUME NEW j \in Syncers PROVE SyncQueueOK(j)' /\ SyncerSafe(j)'
    <3>1. SyncQueueOK(j) /\ SyncerSafe(j)
      BY QueueOfSyncer
    <3>2. SyncQueueOK(j)'
      BY <1>1, <3>1 DEF SyncQueueOK
    <3>3. s'[j].pc \in {"sync", "clean"} => s'[j].n \in 1 .. Len(syncq'[j])
      BY <1>1, <3>1 DEF SyncerSafe
    <3>. QED BY <1>1, <1>3, <3>1, <3>2, <3>3 DEF SyncerSafe
  <2>2. ASSUME NEW x \in Inodes PROVE SyncFound(x)'
    BY <1>1 DEF SafetyInv, SyncersOK, SyncFound
  <2>. QED BY <2>1, <2>2 DEF SyncersOK
<1>6. ContentsOK' /\ FilesKept
  <2>1. ASSUME NEW x \in Inodes PROVE InodeHolds(x)'
    <3>1. InodeHolds(x) /\ ivol[x] \in Volumes /\ ilbn[x] \in Lbns
      BY Types DEF SafetyInv, ContentsOK
    <3>. QED BY <1>1, <1>2, <3>1 DEF InodeHolds, WritersSame, LatestSame
  <2>2. ASSUME NEW u \in Volumes, NEW l \in Lbns, FileHolds(u, l)
        PROVE  FileHolds(u, l)'
    <3>1. FileHolds(u, l) /\ Pending(u, l)' = Pending(u, l)
      BY <2>2, <1>1 DEF Pending
    <3>. QED BY <1>1, <1>2, <3>1 DEF FileHolds, WritersSame, LatestSame
  <2>3. ASSUME NEW u \in Volumes PROVE CopyHolds(u)'
    BY <1>1 DEF SafetyInv, ContentsOK, CopyHolds, NewContent
  <2>. QED BY <2>1, <2>2, <2>3 DEF ContentsOK, FilesKept
<1>7. FreshOK'
  <2>1. \A x \in Inodes : Filed(x)' <=> Filed(x)
    BY <1>1 DEF Filed
  <2>2. ASSUME NEW t \in Flushers PROVE FiledOK(t)'
    BY <1>1 DEF SafetyInv, FreshOK, FiledOK, Filed
  <2>3. ASSUME NEW j \in Syncers PROVE SyncedOK(j)'
    <3>1. ASSUME NEW m \in 1 .. Len(syncq[j])
          PROVE  disk'[ivol'[syncq'[j][m]]][ilbn'[syncq'[j][m]]] = data'[iblock'[syncq'[j][m]]]
      BY <1>1, QueueOfSyncer DEF Filed
    <3>2. /\ s'[j].pc = "clean" => s'[j].n \in 1 .. Len(syncq[j])
          /\ Unlocking(j)' => s'[j].n - 1 \in 0 .. Len(syncq[j])
          /\ s'[j].n \in Nat /\ Len(syncq[j]) \in Nat
      BY <1>1, <1>3, QueueOfSyncer DEF SyncerSafe
    <3>3. s'[j].pc = "clean" => \A m \in 1 .. s'[j].n : m \in 1 .. Len(syncq[j])
      BY <3>2
    <3>4. Unlocking(j)' => \A m \in 1 .. s'[j].n - 1 : m \in 1 .. Len(syncq[j])
      BY <3>2
    <3>. QED BY <3>1, <3>3, <3>4 DEF SyncedOK, Synced
  <2>. QED BY <1>1, <2>1, <2>2, <2>3 DEF SafetyInv, FreshOK
<1>. QED BY <1>2, <1>4, <1>5, <1>6, <1>7 DEF SafetyInv

\* The lock that the flusher took is released.
LEMMA SyncUnlockSafe ==
    ASSUME TypeInv, TypeInv', SafetyInv, NEW k \in Syncers, UNCHANGED <<writerVars, f, b>>,
           SyncUnlock(k)
    PROVE  SafetyInv' /\ FilesKept
<1>. USE DEF queues, storage, writerVars
<1>1. PICK i \in Inodes : i = s[k].idx /\ Unlocking(k) /\ s[k].pc = "unlock"
  BY DEF SyncUnlock, Unlocking, TypeInv, SyncerOK
<1>2. /\ UNCHANGED <<istate, ilbn, ivol, iblock, vblock, data, node, queues, storage, w, acked,
                     f, b>>
      /\ ilock' = [ilock EXCEPT ![i] = FALSE]
      /\ \A j \in Syncers : j # k => s'[j] = s[j]
      /\ \/ s'[k].pc = "clean" /\ s[k].n > 1 /\ s'[k].n = s[k].n - 1
         \/ s'[k].pc = "idle"
  <2>0. s \in [Syncers -> SyncerRec]
    BY Types
  <2>. QED BY <1>1, <2>0 DEF SyncUnlock, SyncerIdle
<1>3. \A x \in Inodes : x # i => ilock'[x] = ilock[x]
  BY <1>2, Types
<1>4. /\ istate[i] # "SYNC"
      /\ \A v \in Volumes : w[v].pc \in Locking => w[v].idx # i
      /\ \A j \in Syncers : j # k /\ Unlocking(j) => s[j].idx # i
      /\ \A t \in Flushers : i \notin In(f[t].batch)
  BY <1>1, QueueOfSyncer DEF SyncerSafe, SafetyInv, FlushersOK, FlusherSafe
<1>5. /\ NodesSame /\ InodesSame /\ WritersSame
      /\ NodesOK' /\ InUseOK' /\ WritersOK' /\ BalloonsOK' /\ FreeOK' /\ BlocksOK'
  <2>1. \A v \in Volumes : w[v].pc \in Locking => ilock'[w[v].idx]
    BY <1>3, <1>4, LockedInode DEF SafetyInv, WritersOK, WriterSafe
  <2>. QED BY <1>2, <2>1, OutsideKept
<1>6. \A j \in Syncers : Unlocking(j)' => j # k /\ Unlocking(j) /\ s'[j] = s[j]
  BY <1>2 DEF Unlocking
<1>7. DirtyOK' /\ VolumesOK' /\ FlushersOK'
  <2>1. ASSUME NEW t \in Flushers, NEW x \in In(f[t].batch) PROVE ilock'[x]
    <3>1. x \in Inodes /\ ilock[x]
      BY Types, InType DEF FlusherRec, SafetyInv, FlushersOK, FlusherSafe
    <3>. QED BY <1>3, <1>4, <3>1
  <2>. QED BY <1>2, <1>5, <1>6, <2>1, FlushersStay
<1>8. SyncersOK'
  <2>1. ASSUME NEW j \in Syncers PROVE SyncQueueOK(j)' /\ SyncerSafe(j)'
    <3>1. SyncQueueOK(j) /\ SyncerSafe(j) /\ s[j].n \in Nat /\ Len(syncq[j]) \in Nat
      BY QueueOfSyncer
    <3>2. SyncQueueOK(j)'
      BY <1>2, <3>1 DEF SyncQueueOK
    <3>3. s'[j].pc \in {"sync", "clean"} => s'[j].n \in 1 .. Len(syncq'[j])
      <4>1. CASE j = k
        BY <1>1, <1>2, <3>1, <4>1 DEF SyncerSafe
      <4>2. CASE j # k
        BY <1>2, <3>1, <4>2 DEF SyncerSafe
      <4>. QED BY <4>1, <4>2
    <3>4. Unlocking(j)' => ilock'[s'[j].idx]
      <4>1. Unlocking(j) => s[j].idx \in Inodes
        BY DEF TypeInv, SyncerOK, Unlocking
      <4>. QED BY <1>3, <1>4, <1>6, <3>1, <4>1 DEF SyncerSafe
    <3>. QED BY <1>2, <1>6, <3>1, <3>2, <3>3, <3>4 DEF SyncerSafe
  <2>2. ASSUME NEW x \in Inodes PROVE SyncFound(x)'
    BY <1>2, <1>3, <1>4 DEF SafetyInv, SyncersOK, SyncFound
  <2>. QED BY <2>1, <2>2 DEF SyncersOK
<1>9. ContentsOK' /\ FilesKept
  BY <1>2, <1>5, ContentsKept DEF SafetyInv, WritersSame
<1>10. FreshOK'
  <2>1. ASSUME NEW j \in Syncers PROVE SyncedOK(j)'
    <3>1. SyncedOK(j)
      BY QueueOfSyncer
    <3>2. CASE j = k
      <4>1. s'[j].pc = "clean" => \A m \in 1 .. s'[j].n : Synced(syncq[j][m])
        BY <1>1, <1>2, <3>1, <3>2 DEF SyncedOK
      <4>2. ~ Unlocking(j)'
        BY <1>6, <3>2
      <4>. QED BY <1>2, <4>1, <4>2 DEF SyncedOK, Synced
    <3>3. CASE j # k
      BY <1>2, <3>1, <3>3 DEF SyncedOK, Synced, Unlocking
    <3>. QED BY <3>2, <3>3
  <2>. QED BY <1>2, <2>1, SMTT(90) DEF SafetyInv, FreshOK, FiledOK, Filed
<1>. QED BY <1>5, <1>7, <1>8, <1>9, <1>10 DEF SafetyInv

\* A SYNC inode, whose block the synced file has, is CLEAN.
LEMMA SyncCleanSafe ==
    ASSUME TypeInv, TypeInv', SafetyInv, NEW k \in Syncers, UNCHANGED <<writerVars, f, b>>,
           SyncClean(k)
    PROVE  SafetyInv' /\ FilesKept
<1>. USE DEF storage, writerVars
<1>1. /\ syncq[k] # <<>> /\ s[k].pc = "clean" /\ SyncerSafe(k) /\ SyncQueueOK(k) /\ SyncedOK(k)
      /\ syncq[k] \in Seq(Inodes) /\ syncq \in [Syncers -> Seq(Inodes)] /\ Len(syncq[k]) \in Nat
  BY QueueOfSyncer DEF SyncClean, TypeInv, TypeOK, SharedTypeOK
<1>2. PICK i \in Inodes :
         /\ i = Head(syncq[k]) /\ i \in In(syncq[k]) /\ i = syncq[k][1]
         /\ In(syncq[k]) = In(syncq'[k]) \cup {i}
         /\ Once(syncq'[k]) /\ i \notin In(syncq'[k])
         /\ \A j \in Syncers : j # k => syncq'[j] = syncq[j]
         /\ Len(syncq'[k]) = Len(syncq[k]) - 1
         /\ \A m \in 1 .. Len(syncq'[k]) : syncq'[k][m] = syncq[k][m + 1]
  <2>1. syncq' = Dequeue(syncq, k) /\ k \in DOMAIN syncq /\ DOMAIN syncq = Syncers
    BY <1>1 DEF SyncClean
  <2>2. syncq'[k] = Tail(syncq[k])
    BY <2>1 DEF Dequeue
  <2>3. Once(syncq[k])
    BY <1>1 DEF SyncQueueOK
  <2>4. /\ Head(syncq[k]) = syncq[k][1] /\ Len(syncq'[k]) = Len(syncq[k]) - 1
        /\ \A m \in 1 .. Len(syncq'[k]) : syncq'[k][m] = syncq[k][m + 1]
    BY <1>1, <2>2, HeadTailProperties
  <2>. QED BY <1>1, <2>1, <2>3, <2>4, DequeueIn
<1>3. /\ UNCHANGED <<ilbn, ivol, iblock, ilock, vblock, data, node, freeq, dirtyq, inuseq, file,
                     disk, w, acked, f, b>>
      /\ istate' = [istate EXCEPT ![i] = "CLEAN"]
      /\ \A j \in Syncers : j # k => s'[j] = s[j]
      /\ s'[k].pc = "enqueue" /\ s'[k].idx = i /\ s'[k].n = s[k].n
  <2>0. s \in [Syncers -> SyncerRec]
    BY Types
  <2>. QED BY <1>2, <2>0 DEF SyncClean, SyncerRec
<1>4. /\ istate[i] = "SYNC" /\ ilock[i] /\ Filed(i) /\ Synced(i)
  <2>1. istate[i] = "SYNC"
    BY <1>1, <1>2 DEF SyncQueueOK
  <2>2. ilock[i] /\ Filed(i)
    BY <2>1 DEF SafetyInv, SyncersOK, SyncFound, FreshOK
  <2>3. 1 \in 1 .. s[k].n
    BY <1>1 DEF SyncerSafe
  <2>4. Synced(i)
    BY <1>1, <1>2, <2>3 DEF SyncedOK
  <2>. QED BY <2>1, <2>2, <2>4
<1>5. istate'[i] = "CLEAN" /\ \A x \in Inodes : x # i => istate'[x] = istate[x]
  BY <1>3, Types
<1>6. \A v \in Volumes : w[v].pc \in Locking => w[v].idx # i
  BY <1>4 DEF SafetyInv, WritersOK, WriterSafe
<1>7. WritersSame /\ NodesSame /\ LocksSame
  BY <1>3, TablesStay, WritersStay DEF LocksSame
<1>8. NodesOK'
  <2>1. ASSUME NEW u \in Volumes, NEW l \in Lbns PROVE NodeOK(u, l)'
    <3>1. NodeOK(u, l) /\ node[u][l].inode \in Inodes \cup {NoInode}
      BY Types DEF SafetyInv, NodesOK, Nodes
    <3>. QED BY <1>3, <1>5, <3>1 DEF NodeOK, Fresh
  <2>. QED BY <2>1 DEF NodesOK
<1>9. InUseOK'
  BY <1>3, <1>4, <1>5 DEF SafetyInv, InUseOK, Unhooking
<1>10. WritersOK'
  <2>1. ASSUME NEW u \in Volumes PROVE WriterSafe(u)'
    <3>1. WriterSafe(u) /\ Node(u)' = Node(u)
      BY <1>3 DEF SafetyInv, WritersOK, Node
    <3>2. w[u].pc \in {"assign", "insert", "lock_new"} => w[u].idx # i
      BY <1>4, <3>1 DEF WriterSafe
    <3>3. w[u].pc \in {"assign", "insert", "lock_new"} \cup Locking => w[u].idx \in Inodes
      BY <3>1 DEF WriterSafe, TypeInv, WriterOK, HasInode
    <3>4. w[u].pc \in {"assign", "insert", "lock_new"} \cup Locking =>
             istate'[w[u].idx] = istate[w[u].idx]
      BY <1>5, <1>6, <3>2, <3>3
    <3>. QED BY <1>3, <3>1, <3>4 DEF WriterSafe, Missing, Storing, Locking
  <2>. QED BY <2>1 DEF WritersOK
<1>11. BalloonsOK'
  <2>1. ASSUME NEW j \in Balloons PROVE BalloonSafe(j)'
    <3>1. /\ BalloonSafe(j) /\ HashNode(j)' = HashNode(j)
          /\ HashNode(j).inode \in Inodes \cup {NoInode}
          /\ b[j].pc # "idle" => b[j].idx \in Inodes
      BY <1>3, Types DEF SafetyInv, BalloonsOK, HashNode, BalloonRec, Nodes, TypeInv, BalloonOK
    <3>2. b[j].pc \in {"free", "enqueue"} => istate'[b[j].idx] = istate[b[j].idx]
      BY <1>4, <1>5, <3>1 DEF BalloonSafe
    <3>3. NumBalloons = 1 => AloneSafe(j)'
      BY <1>5, <1>3, <3>1 DEF BalloonSafe, AloneSafe, Looking
    <3>4. b[j].pc \in {"delete", "free"} /\ HashNode(j).inode # NoInode =>
             istate'[HashNode(j).inode] = istate[HashNode(j).inode]
      BY <1>4, <1>5, <3>1 DEF BalloonSafe
    <3>. QED BY <1>3, <3>1, <3>2, <3>3, <3>4 DEF BalloonSafe
  <2>. QED BY <2>1 DEF BalloonsOK
<1>12. FreeOK'
  <2>1. ASSUME NEW j \in FreeQueues PROVE FreeQueueOK(j)'
    <3>1. FreeQueueOK(j) /\ In(freeq[j]) \subseteq Inodes
      BY InType DEF SafetyInv, FreeOK, TypeInv, TypeOK, SharedTypeOK, FreeQueues
    <3>2. \A x \in In(freeq[j]) : istate'[x] = "FREE"
      BY <1>4, <1>5, <3>1 DEF FreeQueueOK
    <3>. QED BY <1>3, <3>1, <3>2 DEF FreeQueueOK, Taken
  <2>2. ASSUME NEW u \in Volumes PROVE TakenOK(u)'
    BY <1>3 DEF SafetyInv, FreeOK, TakenOK, Taken
  <2>3. ASSUME NEW x \in Inodes PROVE FreeFound(x)'
    <3>1. FreeFound(x) /\ (istate'[x] = "FREE" => istate[x] = "FREE")
      BY <1>5 DEF SafetyInv, FreeOK
    <3>. QED BY <1>3, <3>1 DEF FreeFound, Taken
  <2>. QED BY <2>1, <2>2, <2>3 DEF FreeOK
<1>13. DirtyOK'
  <2>1. ASSUME NEW u \in Volumes PROVE DirtyQueueOK(u)'
    <3>1. DirtyQueueOK(u) /\ In(dirtyq[u]) \subseteq Inodes
      BY InType DEF SafetyInv, DirtyOK, TypeInv, TypeOK, SharedTypeOK
    <3>2. i \notin In(dirtyq[u])
      BY <1>4, <3>1 DEF DirtyQueueOK
    <3>. QED BY <1>3, <1>5, <3>1, <3>2 DEF DirtyQueueOK, Redirtied
  <2>2. ASSUME NEW x \in Inodes PROVE DirtyFound(x)'
    <3>1. DirtyFound(x) /\ (istate'[x] = "DIRTY" => istate[x] = "DIRTY")
      BY <1>5 DEF SafetyInv, DirtyOK
    <3>. QED BY <1>3, <3>1 DEF DirtyFound, Redirtied
  <2>. QED BY <2>1, <2>2 DEF DirtyOK
<1>14. VolumesOK'
  BY <1>3, VolumesKept DEF SafetyInv, Flushing
<1>15. FlushersOK'
  <2>1. ASSUME NEW t \in Flushers PROVE FlusherSafe(t)'
    <3>1. /\ FlusherSafe(t) /\ In(f[t].batch) \subseteq Inodes
          /\ f[t].failed \in Inodes \cup {NoInode}
      BY Types, InType DEF SafetyInv, FlushersOK, FlusherRec
    <3>2. i \notin In(f[t].batch) /\ (f[t].failed # NoInode => f[t].failed # i)
      BY <1>4, <3>1 DEF FlusherSafe
    <3>3. /\ \A x \in In(f[t].batch) : istate'[x] = "DIRTY"
          /\ f[t].failed # NoInode => istate'[f[t].failed] = "DIRTY"
      BY <1>5, <3>1, <3>2 DEF FlusherSafe
    <3>4. ASSUME NEW x \in In(f[t].batch), NEW j \in Syncers, Unlocking(j)' PROVE s'[j].idx # x
      <4>1. CASE j = k
        BY <1>3, <3>2, <4>1
      <4>2. CASE j # k
        BY <1>3, <3>1, <3>4, <4>2 DEF FlusherSafe, Unlocking
      <4>. QED BY <4>1, <4>2
    <3>. QED BY <1>3, <3>1, <3>3, <3>4 DEF FlusherSafe, Redirtied
  <2>. QED BY <2>1 DEF FlushersOK
<1>16. SyncersOK'
  <2>0. ASSUME NEW j \in Syncers
        PROVE  In(syncq'[j]) \subseteq In(syncq[j]) /\ i \notin In(syncq'[j])
    <3>1. CASE j = k
      BY <1>2, <3>1
    <3>2. CASE j # k
      <4>1. i \notin In(syncq[j])
        BY <1>1, <1>2, <3>2 DEF SyncQueueOK
      <4>. QED BY <1>2, <3>2, <4>1
    <3>. QED BY <3>1, <3>2
  <2>1. ASSUME NEW j \in Syncers PROVE SyncQueueOK(j)'
    <3>1. SyncQueueOK(j) /\ In(syncq[j]) \subseteq Inodes
      BY QueueOfSyncer
    <3>2. Once(syncq'[j])
      BY <1>2, <3>1 DEF SyncQueueOK
    <3>3. \A x \in In(syncq'[j]) : istate'[x] = "SYNC"
      BY <1>5, <2>0, <3>1 DEF SyncQueueOK
    <3>4. ASSUME NEW x \in In(syncq'[j]), NEW j2 \in Syncers, x \in In(syncq'[j2]) PROVE j2 = j
      BY <2>0, <3>1, <3>4 DEF SyncQueueOK
    <3>. QED BY <3>2, <3>3, <3>4 DEF SyncQueueOK
  <2>2. ASSUME NEW j \in Syncers PROVE SyncerSafe(j)'
    <3>1. SyncerSafe(j) /\ (Unlocking(j) => s[j].idx \in Inodes /\ s[j].idx # i)
      BY <1>4, QueueOfSyncer DEF SyncerSafe, TypeInv, SyncerOK, Unlocking
    <3>2. CASE j = k
      <4>1. s'[j].n - 1 \in 0 .. Len(syncq'[j])
        BY <1>1, <1>2, <1>3, <3>2 DEF SyncerSafe
      <4>2. \A j2 \in Syncers : Unlocking(j2)' /\ s'[j2].idx = i => j2 = k
        <5>1. \A j2 \in Syncers : Unlocking(j2) => s[j2].idx # i
          BY <1>4, QueueOfSyncer DEF SyncerSafe
        <5>. QED BY <1>3, <5>1 DEF Unlocking
      <4>. QED BY <1>3, <1>4, <1>5, <1>6, <3>2, <4>1, <4>2 DEF SyncerSafe
    <3>3. CASE j # k
      <4>1. s'[j] = s[j] /\ syncq'[j] = syncq[j]
        BY <1>2, <1>3, <3>3
      <4>2. Unlocking(j)' => istate'[s'[j].idx] # "SYNC"
        BY <1>5, <3>1, <4>1 DEF SyncerSafe, Unlocking
      <4>3. Unlocking(j)' => \A j2 \in Syncers :
               Unlocking(j2)' /\ s'[j2].idx = s'[j].idx => j2 = j
        BY <1>3, <3>1, <3>3, <4>1 DEF SyncerSafe, Unlocking
      <4>. QED BY <1>3, <3>1, <4>1, <4>2, <4>3 DEF SyncerSafe, Unlocking
    <3>. QED BY <3>2, <3>3
  <2>3. ASSUME NEW x \in Inodes PROVE SyncFound(x)'
    <3>1. CASE x = i
      BY <1>5, <3>1 DEF SyncFound
    <3>2. CASE x # i
      <4>1. SyncFound(x) /\ istate'[x] = istate[x] /\ ilock'[x] = ilock[x]
        BY <1>3, <1>5, <3>2 DEF SafetyInv, SyncersOK
      <4>2. ASSUME NEW j \in Syncers, x \in In(syncq[j]) PROVE x \in In(syncq'[j])
        BY <1>2, <3>2, <4>2
      <4>. QED BY <4>1, <4>2 DEF SyncFound
    <3>. QED BY <3>1, <3>2
  <2>. QED BY <2>1, <2>2, <2>3 DEF SyncersOK
<1>17. BlocksOK'
  BY <1>3, <1>7, BlocksKept DEF SafetyInv, WritersSame
\* No writer is writing the block of i again: it would have made i dirty.
<1>18. ~ Exchanging(ivol[i], ilbn[i]) /\ ~ Unhooking(i)
  <2>1. ~ Unhooking(i)
    BY <1>4 DEF Unhooking, SafetyInv, BalloonsOK, BalloonSafe
  <2>2. node[ivol[i]][ilbn[i]].inode = i /\ ivol[i] \in Volumes
    BY <1>4, <2>1, Types DEF SafetyInv, InUseOK
  <2>3. ASSUME Exchanging(ivol[i], ilbn[i]) PROVE FALSE
    <3>1. w[ivol[i]].pc \in Locking /\ w[ivol[i]].lbn = ilbn[i]
      BY <2>3 DEF Exchanging, Locking
    <3>2. w[ivol[i]].idx = i
      BY <2>2, <3>1, LockedInode
    <3>. QED BY <1>6, <2>2, <3>1, <3>2
  <2>. QED BY <2>1, <2>3
<1>19. ContentsOK' /\ FilesKept
  <2>1. ASSUME NEW x \in Inodes PROVE InodeHolds(x)'
    <3>1. InodeHolds(x) /\ ivol[x] \in Volumes /\ ilbn[x] \in Lbns
      BY Types DEF SafetyInv, ContentsOK
    <3>2. istate'[x] # "FREE" => istate[x] # "FREE"
      BY <1>4, <1>5
    <3>. QED BY <1>3, <1>7, <3>1, <3>2 DEF InodeHolds, WritersSame, LatestSame
  <2>2. ASSUME NEW u \in Volumes, NEW l \in Lbns, FileHolds(u, l)
        PROVE  FileHolds(u, l)'
    <3>1. InodeHolds(i)
      BY DEF SafetyInv, ContentsOK
    <3>2. CASE u = ivol[i] /\ l = ilbn[i]
      <4>1. file[u][l] = Latest(u, l) /\ disk[u][l] = Latest(u, l)
        BY <1>4, <1>18, <3>1, <3>2 DEF InodeHolds, Filed, Synced
      <4>. QED BY <1>3, <1>7, <4>1 DEF FileHolds, WritersSame, LatestSame
    <3>3. CASE ~ (u = ivol[i] /\ l = ilbn[i])
      <4>1. Pending(u, l) \subseteq Pending(u, l)'
        BY <1>3, <1>5, <3>3 DEF Pending
      <4>. QED BY <1>3, <1>7, <2>2, <4>1 DEF FileHolds, WritersSame, LatestSame
    <3>. QED BY <3>2, <3>3
  <2>3. ASSUME NEW u \in Volumes PROVE CopyHolds(u)'
    BY <1>3 DEF SafetyInv, ContentsOK, CopyHolds, NewContent
  <2>. QED BY <2>1, <2>2, <2>3 DEF ContentsOK, FilesKept
<1>20. FreshOK'
  <2>0. \A x \in Inodes : (Filed(x)' <=> Filed(x)) /\ (Synced(x)' <=> Synced(x))
    BY <1>3 DEF Filed, Synced
  <2>1. ASSUME NEW x \in Inodes, istate'[x] = "SYNC" PROVE Filed(x)'
    BY <1>5, <2>0, <2>1 DEF SafetyInv, FreshOK
  <2>2. ASSUME NEW t \in Flushers PROVE FiledOK(t)'
    BY <1>3 DEF SafetyInv, FreshOK, FiledOK, Filed
  <2>3. ASSUME NEW j \in Syncers PROVE SyncedOK(j)'
    <3>1. CASE j = k
      <4>1. ASSUME NEW m \in 1 .. s[k].n - 1
            PROVE  disk'[ivol'[syncq'[k][m]]][ilbn'[syncq'[k][m]]] = data'[iblock'[syncq'[k][m]]]
        <5>1. /\ m + 1 \in 1 .. s[k].n /\ m \in 1 .. Len(syncq'[k])
              /\ m + 1 \in 1 .. Len(syncq[k])
          BY <1>1, <1>2 DEF SyncerSafe
        <5>2. syncq'[k][m] = syncq[k][m + 1]
          BY <1>2, <5>1
        <5>3. Synced(syncq[k][m + 1])
          BY <1>1, <5>1 DEF SyncedOK
        <5>. QED BY <1>3, <5>2, <5>3 DEF Synced
      <4>. QED BY <1>3, <3>1, <4>1 DEF SyncedOK, Synced
    <3>2. CASE j # k
      <4>1. SyncedOK(j) /\ s'[j] = s[j] /\ syncq'[j] = syncq[j]
        BY <1>2, <1>3, <3>2, QueueOfSyncer
      <4>. QED BY <1>3, <4>1 DEF SyncedOK, Synced, Unlocking
    <3>. QED BY <3>1, <3>2
  <2>. QED BY <2>1, <2>2, <2>3 DEF FreshOK
<1>. QED BY <1>8, <1>9, <1>10, <1>11, <1>12, <1>13, <1>14, <1>15, <1>16, <1>17, <1>19, <1>20
     DEF SafetyInv

\* Every step of a syncer.
LEMMA SyncerStepSafe ==
    ASSUME TypeInv, TypeInv', SafetyInv, NEW k \in Syncers, Syncer(k)
    PROVE  SafetyInv' /\ FilesKept
<1>1. UNCHANGED <<writerVars, f, b>> /\ SyncStep(k)
  BY DEF Syncer
<1>2. CASE SyncCount(k) \/ SyncEnqueue(k)
  BY <1>1, <1>2, SyncQuietSafe
<1>3. CASE SyncFiles(k)
  BY <1>1, <1>3, SyncFilesSafe
<1>4. CASE SyncClean(k)
  BY <1>1, <1>4, SyncCleanSafe
<1>5. CASE SyncUnlock(k)
  BY <1>1, <1>5, SyncUnlockSafe
<1>. QED BY <1>1, <1>2, <1>3, <1>4, <1>5 DEF SyncStep

(***************************************************************************)
(* The steps of a balloon                                                  *)
(***************************************************************************)

LEMMA MovesAlone ==
    ASSUME TypeInv, NEW k \in Balloons, BalloonStep(k)
    PROVE  \A j \in Balloons : j # k => b'[j] = b[j]
<1>1. b \in [Balloons -> BalloonRec]
  BY Types
<1>2. CASE BalloonDequeue(k) \/ BalloonState(k) \/ BalloonSearch(k) \/ BalloonTryLock(k)
  BY <1>1, <1>2 DEF BalloonDequeue, BalloonState, BalloonSearch, BalloonTryLock
<1>3. CASE \/ BalloonCheck(k) \/ BalloonDelete(k) \/ BalloonFree(k) \/ BalloonEnqueue(k)
           \/ BalloonUnlock(k)
  BY <1>1, <1>3 DEF BalloonCheck, BalloonDelete, BalloonFree, BalloonEnqueue, BalloonUnlock
<1>. QED BY <1>2, <1>3 DEF BalloonStep

LEMMA OneBalloon ==
    ASSUME NumBalloons = 1, NEW k \in Balloons
    PROVE  \A j \in Balloons : j = k
BY DEF Balloons

\* What the steps of a balloon that change no inode leave alone.
LEMMA BalloonFrame ==
    ASSUME TypeInv, TypeInv', SafetyInv,
           UNCHANGED <<inodeTable, vblock, data, dirtyq, syncq, inuseq, storage, w, acked, f, s>>
    PROVE  /\ WritersSame
           /\ DirtyOK' /\ VolumesOK' /\ FlushersOK' /\ SyncersOK' /\ BlocksOK' /\ ContentsOK' /\ FilesKept
           /\ FreshOK'
<1>. USE DEF inodeTable, storage
<1>1. InodesSame /\ WritersSame /\ LocksSame
  BY WritersStay DEF InodesSame, LocksSame
<1>2. DirtyOK' /\ FlushersOK' /\ SyncersOK'
  BY <1>1, LockersKept DEF WritersSame
<1>3. VolumesOK' /\ BlocksOK' /\ ContentsOK' /\ FilesKept /\ FreshOK'
  BY <1>1, StorageKept DEF WritersSame
<1>. QED BY <1>1, <1>2, <1>3

\* The balloons at one step stay the same.
StepSame(step) ==
    \A j \in Balloons :
        /\ b'[j].pc = step <=> b[j].pc = step
        /\ b[j].pc = step => b'[j].idx = b[j].idx

\* The other balloons, whose nodes are left alone.
LEMMA OtherBalloonsKept ==
    ASSUME TypeInv, SafetyInv, NEW k \in Balloons,
           UNCHANGED <<istate, ivol, ilbn, w>>,
           \A j \in Balloons : j # k => b'[j] = b[j],
           \A v \in Volumes, l \in Lbns :
              /\ node'[v][l].inode \in {node[v][l].inode, NoInode}
              /\ node[v][l].exists => node'[v][l].exists
              /\ ~ (b[k].vol = v /\ b[k].lbn = l) => node'[v][l] = node[v][l],
           \A j \in Balloons : j # k /\ b[j].pc \in Invalidating =>
              ~ (b[k].vol = b[j].vol /\ b[k].lbn = b[j].lbn),
           BalloonSafe(k)'
    PROVE  BalloonsOK'
<1>1. ASSUME NEW j \in Balloons, j # k PROVE BalloonSafe(j)'
  <2>1. /\ BalloonSafe(j) /\ b'[j] = b[j] /\ NumBalloons # 1
        /\ b[j].vol \in Volumes /\ b[j].lbn \in Lbns
        /\ b[j].pc # "idle" => b[j].idx \in Inodes /\ b[j].idx # NoInode
    BY <1>1, OneBalloon, Types DEF SafetyInv, BalloonsOK, BalloonRec, TypeInv, BalloonOK
  <2>2. HashNode(j).exists => HashNode(j)'.exists
    BY <2>1 DEF HashNode
  <2>3. b[j].pc \in Invalidating => HashNode(j)' = HashNode(j)
    BY <1>1, <2>1 DEF HashNode
  <2>4. b[j].pc \in {"free", "enqueue"} =>
           \A v \in Volumes, l \in Lbns : node'[v][l].inode # b[j].idx
    BY <2>1 DEF BalloonSafe
  <2>5. ASSUME NEW x \in Balloons, b[j].pc \in Invalidating, b'[x].pc \in Invalidating,
               b'[x].vol = b[j].vol, b'[x].lbn = b[j].lbn
        PROVE  x = j
    <3>1. CASE x = k
      BY <2>1, <2>5, <3>1 DEF BalloonSafe
    <3>2. CASE x # k
      BY <2>1, <2>5, <3>2 DEF BalloonSafe
    <3>. QED BY <3>1, <3>2
  <2>6. ASSUME NEW x \in Balloons, b[j].pc \in {"free", "enqueue"},
               b'[x].pc \in {"free", "enqueue"}, b'[x].idx = b[j].idx
        PROVE  x = j
    <3>1. CASE x = k
      BY <2>1, <2>6, <3>1 DEF BalloonSafe
    <3>2. CASE x # k
      BY <2>1, <2>6, <3>2 DEF BalloonSafe
    <3>. QED BY <3>1, <3>2
  <2>7. b[j].pc \in {"delete", "free"} => HashNode(j)' = HashNode(j)
    BY <2>3 DEF Invalidating
  <2>8. \A v \in Volumes : w'[v] = w[v]
    OBVIOUS
  <2>. QED BY <2>1, <2>2, <2>3, <2>4, <2>5, <2>6, <2>7, <2>8 DEF BalloonSafe
<1>. QED BY <1>1 DEF BalloonsOK

\* Steps at which at most the mutex of the balloon's node changes.
LEMMA BalloonMutexSafe ==
    ASSUME TypeInv, TypeInv', SafetyInv, NEW k \in Balloons,
           UNCHANGED <<inodeTable, vblock, data, freeq, dirtyq, syncq, inuseq, storage,
                       writerVars, f, s>>,
           \A j \in Balloons : j # k => b'[j] = b[j],
           NEW m \in BOOLEAN, node' = [node EXCEPT ![b[k].vol][b[k].lbn].mutex = m],
           \A v \in Volumes : w[v].pc \in Holding => ~ (b[k].vol = v /\ b[k].lbn = w[v].lbn),
           \A j \in Balloons : j # k /\ b[j].pc \in Invalidating =>
              ~ (b[k].vol = b[j].vol /\ b[k].lbn = b[j].lbn),
           b[k].pc \notin {"free", "enqueue"}, b'[k].pc \notin {"free", "enqueue"},
           BalloonSafe(k)'
    PROVE  SafetyInv' /\ FilesKept
<1>. USE DEF inodeTable, storage, writerVars
<1>1. StepSame("free") /\ StepSame("enqueue")
  BY DEF StepSame
<1>2. /\ WritersSame
      /\ DirtyOK' /\ VolumesOK' /\ FlushersOK' /\ SyncersOK' /\ BlocksOK' /\ ContentsOK' /\ FilesKept
      /\ FreshOK'
  BY BalloonFrame
<1>3. /\ \A u \in Volumes, l \in Lbns :
            /\ node'[u][l].inode = node[u][l].inode /\ node'[u][l].valid = node[u][l].valid
            /\ node'[u][l].exists = node[u][l].exists
      /\ \A u \in Volumes, l \in Lbns :
            ~ (b[k].vol = u /\ b[k].lbn = l) => node'[u][l] = node[u][l]
  <2>1. /\ node \in [Volumes -> [Lbns -> Nodes]] /\ b[k].vol \in Volumes /\ b[k].lbn \in Lbns
        /\ node[b[k].vol][b[k].lbn] \in Nodes
    BY Types DEF BalloonRec
  <2>2. \A u \in Volumes, l \in Lbns :
           ~ (b[k].vol = u /\ b[k].lbn = l) => node'[u][l] = node[u][l]
    BY <2>1
  <2>3. node'[b[k].vol][b[k].lbn] = [node[b[k].vol][b[k].lbn] EXCEPT !.mutex = m]
    BY <2>1
  <2>4. \A u \in Volumes, l \in Lbns :
           /\ node'[u][l].inode = node[u][l].inode /\ node'[u][l].valid = node[u][l].valid
           /\ node'[u][l].exists = node[u][l].exists
    BY <2>1, <2>2, <2>3 DEF Nodes
  <2>. QED BY <2>2, <2>4
<1>4. NodesSame /\ InodesSame
  <2>1. ASSUME NEW u \in Volumes, NEW l \in Lbns, node[u][l].exists PROVE node'[u][l].exists
    <3>1. node'[u][l].exists = node[u][l].exists
      BY <1>3
    <3>. QED BY <2>1, <3>1
  <2>2. ASSUME NEW u \in Volumes, NEW l \in Lbns
        PROVE  node'[u][l].inode = node[u][l].inode /\ node'[u][l].valid = node[u][l].valid
    BY <1>3, Zenon
  <2>3. NodesSame
    BY <2>1, <2>2, Zenon DEF NodesSame
  <2>. QED BY <2>3, TablesStay
<1>5. NodesOK'
  BY <1>2, <1>4, NodesKept DEF SafetyInv, WritersSame
<1>6. InUseOK'
  <2>1. ASSUME NEW i \in Inodes, istate[i] # "FREE", ~ Unhooking(i)'
        PROVE  node'[ivol[i]][ilbn[i]].inode = i
    <3>1. ivol[i] \in Volumes /\ ilbn[i] \in Lbns /\ ~ Unhooking(i)
      BY <1>1, <2>1, Types DEF Unhooking, StepSame
    <3>. QED BY <1>3, <2>1, <3>1 DEF SafetyInv, InUseOK
  <2>. QED BY <2>1 DEF InUseOK
<1>7. WritersOK'
  <2>1. ASSUME NEW v \in Volumes PROVE WriterSafe(v)'
    <3>1. WriterSafe(v) /\ w[v].lbn \in Lbns
      BY Types DEF SafetyInv, WritersOK, WriterRec
    <3>2. Node(v)'.inode = Node(v).inode /\ Node(v)'.exists = Node(v).exists
      BY <1>3, <3>1, SMTT(90) DEF Node
    <3>3. w[v].pc \in Holding => Node(v)'.mutex
      <4>1. w[v].pc \in Holding => node'[v][w[v].lbn] = node[v][w[v].lbn]
        BY <1>3, <3>1
      <4>. QED BY <3>1, <4>1 DEF Node, WriterSafe
    <3>. QED BY <3>1, <3>2, <3>3 DEF WriterSafe, Missing
  <2>. QED BY <2>1 DEF WritersOK
<1>8. BalloonsOK'
  <2>1. \A v \in Volumes, l \in Lbns : node[v][l].exists => node'[v][l].exists
    BY <1>4 DEF NodesSame
  <2>2. \A v \in Volumes, l \in Lbns :
           /\ node'[v][l].inode \in {node[v][l].inode, NoInode}
           /\ node[v][l].exists => node'[v][l].exists
           /\ ~ (b[k].vol = v /\ b[k].lbn = l) => node'[v][l] = node[v][l]
    BY <1>3, <2>1
  <2>. QED BY <2>2, OtherBalloonsKept
<1>9. FreeOK'
  <2>0. \A u \in Volumes, l \in Lbns : node'[u][l].inode = node[u][l].inode
    BY <1>3
  <2>1. ASSUME NEW j \in FreeQueues PROVE FreeQueueOK(j)'
    <3>1. FreeQueueOK(j)
      BY DEF SafetyInv, FreeOK
    <3>2. ASSUME NEW x \in In(freeq[j]), NEW y \in Balloons, b'[y].pc = "enqueue"
          PROVE  b'[y].idx # x
      BY <1>1, <3>1, <3>2 DEF FreeQueueOK, StepSame
    <3>. QED BY <2>0, <3>1, <3>2, SMTT(90) DEF FreeQueueOK, Taken
  <2>2. ASSUME NEW v \in Volumes PROVE TakenOK(v)'
    BY <1>1, <2>0, SMTT(90) DEF SafetyInv, FreeOK, TakenOK, Taken, StepSame
  <2>3. ASSUME NEW i \in Inodes PROVE FreeFound(i)'
    BY <1>1, <2>0, SMTT(90) DEF SafetyInv, FreeOK, FreeFound, Taken, StepSame
  <2>. QED BY <2>1, <2>2, <2>3 DEF FreeOK
<1>. QED BY <1>2, <1>5, <1>6, <1>7, <1>8, <1>9 DEF SafetyInv

\* Steps at which only the balloon moves, to a node that no other one holds.
LEMMA BalloonQuietSafe ==
    ASSUME TypeInv, TypeInv', SafetyInv, NEW k \in Balloons,
           UNCHANGED <<inodeTable, vblock, data, node, freeq, dirtyq, syncq, inuseq, storage,
                       writerVars, f, s>>,
           \A j \in Balloons : j # k => b'[j] = b[j],
           b[k].pc \notin {"free", "enqueue"}, b'[k].pc \notin {"free", "enqueue"},
           BalloonSafe(k)'
    PROVE  SafetyInv' /\ FilesKept
<1>. USE DEF inodeTable, storage, writerVars
<1>1. StepSame("free") /\ StepSame("enqueue")
  BY DEF StepSame
<1>2. /\ WritersSame
      /\ DirtyOK' /\ VolumesOK' /\ FlushersOK' /\ SyncersOK' /\ BlocksOK' /\ ContentsOK' /\ FilesKept
      /\ FreshOK'
  BY BalloonFrame
<1>3. NodesSame /\ InodesSame
  BY TablesStay
<1>4. NodesOK'
  BY <1>2, <1>3, NodesKept DEF SafetyInv, WritersSame
<1>5. InUseOK'
  BY <1>1 DEF SafetyInv, InUseOK, Unhooking, StepSame
<1>6. WritersOK'
  <2>1. ASSUME NEW v \in Volumes PROVE WriterSafe(v)'
    <3>1. WriterSafe(v) /\ Node(v)' = Node(v)
      BY DEF SafetyInv, WritersOK, Node
    <3>. QED BY <3>1 DEF WriterSafe, Missing
  <2>. QED BY <2>1 DEF WritersOK
<1>7. BalloonsOK'
  <2>1. ASSUME NEW j \in Balloons, j # k PROVE BalloonSafe(j)'
    <3>1. BalloonSafe(j) /\ HashNode(j)' = HashNode(j) /\ NumBalloons # 1 /\ b'[j] = b[j]
      BY <2>1, OneBalloon DEF SafetyInv, BalloonsOK, HashNode
    <3>2. ASSUME NEW x \in Balloons, b[j].pc \in Invalidating, b'[x].pc \in Invalidating,
                 b'[x].vol = b[j].vol, b'[x].lbn = b[j].lbn
          PROVE  x = j
      <4>1. CASE x = k
        BY <3>1, <3>2, <4>1 DEF BalloonSafe
      <4>2. CASE x # k
        BY <3>1, <3>2, <4>2 DEF BalloonSafe
      <4>. QED BY <4>1, <4>2
    <3>3. ASSUME NEW x \in Balloons, b[j].pc \in {"free", "enqueue"},
                 b'[x].pc \in {"free", "enqueue"}, b'[x].idx = b[j].idx
          PROVE  x = j
      BY <3>1, <3>3 DEF BalloonSafe
    <3>. QED BY <3>1, <3>2, <3>3 DEF BalloonSafe
  <2>. QED BY <2>1 DEF BalloonsOK
<1>8. FreeOK'
  <2>1. ASSUME NEW j \in FreeQueues PROVE FreeQueueOK(j)'
    BY <1>1 DEF SafetyInv, FreeOK, FreeQueueOK, Taken, StepSame
  <2>2. ASSUME NEW v \in Volumes PROVE TakenOK(v)'
    BY <1>1 DEF SafetyInv, FreeOK, TakenOK, Taken, StepSame
  <2>3. ASSUME NEW i \in Inodes PROVE FreeFound(i)'
    BY <1>1 DEF SafetyInv, FreeOK, FreeFound, Taken, StepSame
  <2>. QED BY <2>1, <2>2, <2>3 DEF FreeOK
<1>. QED BY <1>2, <1>4, <1>5, <1>6, <1>7, <1>8 DEF SafetyInv

\* The balloon finds the node of its inode, and looks at it.
LEMMA BalloonLookSafe ==
    ASSUME TypeInv, TypeInv', SafetyInv, NEW k \in Balloons,
           UNCHANGED <<writerVars, f, s>>,
           BalloonDequeue(k) \/ BalloonState(k) \/ BalloonSearch(k) \/ BalloonTryLock(k)
           \/ BalloonCheck(k)
    PROVE  SafetyInv' /\ FilesKept
<1>. USE DEF inodeTable, storage, writerVars
<1>0. /\ b \in [Balloons -> BalloonRec] /\ b[k] \in BalloonRec
      /\ BalloonSafe(k) /\ (b[k].pc # "idle" => b[k].idx \in Inodes)
      /\ node \in [Volumes -> [Lbns -> Nodes]] /\ NoInode \notin Inodes
      /\ \A j \in Balloons : j # k => b'[j] = b[j]
  <2>1. b \in [Balloons -> BalloonRec]
    BY Types
  <2>2. \A j \in Balloons : j # k => b'[j] = b[j]
    BY MovesAlone DEF BalloonStep
  <2>. QED BY <2>1, <2>2, Types DEF SafetyInv, BalloonsOK, TypeInv, BalloonOK
<1>1. CASE BalloonDequeue(k)
  <2>1. UNCHANGED <<inodeTable, vblock, data, node, freeq, dirtyq, syncq, inuseq, storage>>
    BY <1>1 DEF BalloonDequeue
  <2>2. b[k].pc = "idle" /\ b'[k].pc = "state"
    BY <1>0, <1>1 DEF BalloonDequeue, BalloonRec
  <2>3. BalloonSafe(k)'
    BY <2>2 DEF BalloonSafe, AloneSafe, Looking, Invalidating
  <2>. QED BY <1>0, <2>1, <2>2, <2>3, BalloonQuietSafe
<1>2. CASE BalloonState(k)
  <2>1. UNCHANGED <<inodeTable, vblock, data, node, freeq, dirtyq, syncq, inuseq, storage>>
    BY <1>2 DEF BalloonState, shared, queues
  <2>2. /\ b[k].pc = "state"
        /\ \/ b'[k].pc = "idle"
           \/ b'[k].pc = "search" /\ b'[k].idx = b[k].idx /\ istate[b[k].idx] = "CLEAN"
    <3>1. /\ b[k].pc = "state"
          /\ b'[k] = IF istate[b[k].idx] = "CLEAN" THEN [b[k] EXCEPT !.pc = "search"]
                     ELSE BalloonIdle
      BY <1>0, <1>2 DEF BalloonState
    <3>. QED BY <1>0, <3>1 DEF BalloonRec, BalloonIdle
  <2>3. BalloonSafe(k)'
    BY <2>1, <2>2 DEF BalloonSafe, AloneSafe, Looking, Invalidating
  <2>. QED BY <1>0, <2>1, <2>2, <2>3, BalloonQuietSafe
<1>3. CASE BalloonSearch(k)
  <2>1. UNCHANGED <<inodeTable, vblock, data, node, freeq, dirtyq, syncq, inuseq, storage>>
    BY <1>3 DEF BalloonSearch, shared, queues
  <2>2. PICK v \in Volumes, l \in Lbns : v = ivol[b[k].idx] /\ l = ilbn[b[k].idx]
    BY <1>0, <1>3, Types DEF BalloonSearch
  <2>3. /\ b[k].pc = "search" /\ b'[k].pc \in {"trylock", "fault"} /\ b'[k].idx = b[k].idx
        /\ b'[k].vol = v /\ b'[k].lbn = l
        /\ b'[k].pc = "trylock" <=> node[v][l].exists
    BY <1>0, <1>3, <2>2 DEF BalloonSearch, BalloonRec
  <2>4. ASSUME NumBalloons = 1
        PROVE  node[v][l].inode = b[k].idx /\ node[v][l].exists /\ istate[b[k].idx] # "FREE"
    <3>1. istate[b[k].idx] # "FREE" /\ ~ Unhooking(b[k].idx)
      BY <1>0, <2>3, <2>4, OneBalloon DEF BalloonSafe, AloneSafe, Unhooking
    <3>2. node[v][l].inode = b[k].idx /\ b[k].idx # NoInode
      BY <1>0, <2>2, <2>3, <3>1 DEF SafetyInv, InUseOK
    <3>3. NodeOK(v, l)
      BY DEF SafetyInv, NodesOK
    <3>. QED BY <3>1, <3>2, <3>3 DEF NodeOK
  <2>5. HashNode(k)' = node[v][l]
    BY <2>1, <2>3 DEF HashNode
  <2>6. BalloonSafe(k)'
    BY <2>1, <2>3, <2>4, <2>5 DEF BalloonSafe, AloneSafe, Looking, Invalidating
  <2>. QED BY <1>0, <2>1, <2>3, <2>6, BalloonQuietSafe
<1>4. CASE BalloonTryLock(k)
  <2>1. /\ UNCHANGED <<inodeTable, vblock, data, freeq, dirtyq, syncq, inuseq, storage>>
        /\ b[k].pc = "trylock"
    BY <1>4 DEF BalloonTryLock, queues
  <2>2. CASE HashNode(k).mutex
    <3>1. node' = node /\ b'[k].pc = "idle"
      BY <1>0, <1>4, <2>2 DEF BalloonTryLock, BalloonIdle
    <3>2. BalloonSafe(k)'
      BY <3>1 DEF BalloonSafe, AloneSafe, Looking, Invalidating
    <3>. QED BY <1>0, <2>1, <3>1, <3>2, BalloonQuietSafe
  <2>3. CASE ~ HashNode(k).mutex
    <3>1. /\ node' = [node EXCEPT ![b[k].vol][b[k].lbn].mutex = TRUE]
          /\ b'[k].pc = "check" /\ b'[k].idx = b[k].idx
          /\ b'[k].vol = b[k].vol /\ b'[k].lbn = b[k].lbn
      BY <1>0, <1>4, <2>3 DEF BalloonTryLock, BalloonRec
    <3>2. HashNode(k)' = [HashNode(k) EXCEPT !.mutex = TRUE] /\ HashNode(k) \in Nodes
      BY <1>0, <3>1 DEF HashNode, BalloonRec
    <3>3. \A v \in Volumes : w[v].pc \in Holding => ~ (b[k].vol = v /\ b[k].lbn = w[v].lbn)
      BY <2>3 DEF SafetyInv, WritersOK, WriterSafe, Node, HashNode
    <3>4. \A j \in Balloons : j # k /\ b[j].pc \in Invalidating =>
             ~ (b[k].vol = b[j].vol /\ b[k].lbn = b[j].lbn)
      BY <2>3 DEF SafetyInv, BalloonsOK, BalloonSafe, HashNode
    <3>5. /\ HashNode(k)'.inode = HashNode(k).inode /\ HashNode(k)'.exists = HashNode(k).exists
          /\ HashNode(k)'.mutex
      BY <3>2 DEF Nodes
    <3>6. HashNode(k).exists
      BY <1>0, <2>1 DEF BalloonSafe, Looking
    <3>7. BalloonSafe(k)'
      <4>1. NumBalloons = 1 => AloneSafe(k)'
        BY <1>0, <2>1, <3>1, <3>5 DEF BalloonSafe, AloneSafe, Looking
      <4>2. \A j \in Balloons : b'[j].pc \in Invalidating /\ b'[j].vol = b[k].vol
                                /\ b'[j].lbn = b[k].lbn => j = k
        BY <1>0, <3>4
      <4>. QED BY <2>1, <3>1, <3>3, <3>5, <3>6, <4>1, <4>2 DEF BalloonSafe, Looking, Invalidating
    <3>. QED BY <1>0, <2>1, <3>1, <3>3, <3>4, <3>7, BalloonMutexSafe
  <2>. QED BY <2>2, <2>3
<1>5. CASE BalloonCheck(k)
  <2>1. /\ UNCHANGED <<inodeTable, vblock, data, freeq, dirtyq, syncq, inuseq, storage>>
        /\ b[k].pc = "check"
    BY <1>5 DEF BalloonCheck, queues
  <2>2. CASE HashNode(k).inode = NoInode
    <3>1. node' = node /\ b'[k].pc = "fault"
      BY <1>0, <1>5, <2>2 DEF BalloonCheck, BalloonRec
    <3>2. NumBalloons # 1
      BY <1>0, <2>1, <2>2 DEF BalloonSafe, AloneSafe, Looking
    <3>3. BalloonSafe(k)'
      BY <3>1, <3>2 DEF BalloonSafe, Looking, Invalidating
    <3>. QED BY <1>0, <2>1, <3>1, <3>3, BalloonQuietSafe
  <2>3. CASE HashNode(k).inode # NoInode /\ istate[HashNode(k).inode] # "CLEAN"
    <3>1. node' = [node EXCEPT ![b[k].vol][b[k].lbn].mutex = FALSE] /\ b'[k].pc = "idle"
      BY <1>0, <1>5, <2>3 DEF BalloonCheck, BalloonIdle
    <3>2. /\ \A v \in Volumes : w[v].pc \in Holding => ~ (b[k].vol = v /\ b[k].lbn = w[v].lbn)
          /\ \A j \in Balloons : j # k /\ b[j].pc \in Invalidating =>
                ~ (b[k].vol = b[j].vol /\ b[k].lbn = b[j].lbn)
      BY <1>0, <2>1 DEF BalloonSafe, Invalidating
    <3>3. BalloonSafe(k)'
      BY <3>1 DEF BalloonSafe, AloneSafe, Looking, Invalidating
    <3>. QED BY <1>0, <2>1, <3>1, <3>2, <3>3, BalloonMutexSafe
  <2>4. CASE HashNode(k).inode # NoInode /\ istate[HashNode(k).inode] = "CLEAN"
    <3>1. /\ node' = node
          /\ b'[k].pc = "delete" /\ b'[k].idx = b[k].idx
          /\ b'[k].vol = b[k].vol /\ b'[k].lbn = b[k].lbn
      BY <1>0, <1>5, <2>4 DEF BalloonCheck, BalloonRec
    <3>2. HashNode(k)' = HashNode(k)
      BY <3>1 DEF HashNode
    <3>3. BalloonSafe(k)'
      <4>1. NumBalloons = 1 => AloneSafe(k)'
        BY <1>0, <2>1, <3>1, <3>2 DEF BalloonSafe, AloneSafe, Looking
      <4>2. \A j \in Balloons : b'[j].pc \in Invalidating /\ b'[j].vol = b[k].vol
                                /\ b'[j].lbn = b[k].lbn => j = k
        BY <1>0, <2>1 DEF BalloonSafe, Invalidating
      <4>. QED BY <1>0, <2>1, <2>4, <3>1, <3>2, <4>1, <4>2 DEF BalloonSafe, Invalidating
    <3>. QED BY <1>0, <2>1, <3>1, <3>3, BalloonQuietSafe
  <2>. QED BY <2>2, <2>3, <2>4
<1>. QED BY <1>1, <1>2, <1>3, <1>4, <1>5

\* No two nodes have the inode of a node.
LEMMA OnlyNode ==
    ASSUME TypeInv, SafetyInv, NEW v \in Volumes, NEW l \in Lbns, NEW i \in Inodes,
           node[v][l].inode = i
    PROVE  /\ ivol[i] = v /\ ilbn[i] = l
           /\ \A u \in Volumes, m \in Lbns : node[u][m].inode = i => u = v /\ m = l
<1>1. \A u \in Volumes, m \in Lbns : node[u][m].inode = i => ivol[i] = u /\ ilbn[i] = m
  BY Types DEF SafetyInv, NodesOK, NodeOK
<1>. QED BY <1>1

\* The node of the clean inode is invalidated: nobody else holds it.
LEMMA BalloonDeleteSafe ==
    ASSUME TypeInv, TypeInv', SafetyInv, NEW k \in Balloons, FreesWhatItInvalidates,
           UNCHANGED <<writerVars, f, s>>, BalloonDelete(k)
    PROVE  SafetyInv' /\ FilesKept
<1>. USE DEF inodeTable, queues, storage, writerVars
<1>1. \A j \in Balloons : j # k => b'[j] = b[j]
  BY MovesAlone DEF BalloonStep
<1>2. PICK v \in Volumes, l \in Lbns, i \in Inodes :
         /\ v = b[k].vol /\ l = b[k].lbn /\ i = b[k].idx /\ b[k].pc = "delete"
         /\ node[v][l].inode = i /\ node[v][l].exists /\ node[v][l].mutex
         /\ istate[i] = "CLEAN"
         /\ \A u \in Volumes : w[u].pc \in Holding => ~ (u = v /\ w[u].lbn = l)
         /\ \A j \in Balloons : j # k /\ b[j].pc \in Invalidating =>
               ~ (b[j].vol = v /\ b[j].lbn = l)
  <2>1. b[k].pc = "delete" /\ BalloonSafe(k) /\ HashNode(k).inode = b[k].idx
    BY DEF BalloonDelete, FreesWhatItInvalidates, SafetyInv, BalloonsOK
  <2>2. b[k].vol \in Volumes /\ b[k].lbn \in Lbns /\ b[k].idx \in Inodes
    BY <2>1, Types DEF BalloonRec, TypeInv, BalloonOK
  <2>3. /\ HashNode(k).exists /\ HashNode(k).mutex /\ istate[b[k].idx] = "CLEAN"
        /\ \A u \in Volumes :
              w[u].pc \in Holding => ~ (u = b[k].vol /\ w[u].lbn = b[k].lbn)
        /\ \A j \in Balloons : j # k /\ b[j].pc \in Invalidating =>
              ~ (b[j].vol = b[k].vol /\ b[j].lbn = b[k].lbn)
    BY <2>1 DEF BalloonSafe, Looking, Invalidating
  <2>. QED BY <2>1, <2>2, <2>3 DEF HashNode
<1>3. /\ UNCHANGED <<inodeTable, vblock, data, queues, storage, w, acked, f, s>>
      /\ b'[k].pc = "free" /\ b'[k].vol = v /\ b'[k].lbn = l /\ b'[k].idx = i
      /\ node' = [node EXCEPT ![v][l] = logical_delete_hash_node(node[v][l])]
  <2>0. b \in [Balloons -> BalloonRec]
    BY Types
  <2>. QED BY <1>2, <2>0 DEF BalloonDelete, BalloonRec
<1>4. /\ node'[v][l].inode = NoInode /\ ~ node'[v][l].valid
      /\ node'[v][l].exists /\ node'[v][l].mutex
      /\ \A u \in Volumes, m \in Lbns : ~ (u = v /\ m = l) => node'[u][m] = node[u][m]
  BY <1>2, <1>3, Types DEF logical_delete_hash_node, Nodes
<1>5. /\ ivol[i] = v /\ ilbn[i] = l /\ i # NoInode
      /\ \A u \in Volumes, m \in Lbns : node'[u][m].inode # i
  <2>0. i \in Inodes /\ i # NoInode /\ node[v][l].inode = i
    BY <1>2, Types
  <2>1. /\ ivol[i] = v /\ ilbn[i] = l /\ i # NoInode
        /\ \A u \in Volumes, m \in Lbns : node[u][m].inode = i => u = v /\ m = l
    BY <2>0, OnlyNode
  <2>2. ASSUME NEW u \in Volumes, NEW m \in Lbns PROVE node'[u][m].inode # i
    BY <1>4, <2>1
  <2>. QED BY <2>1, <2>2
<1>6. /\ WritersSame
      /\ DirtyOK' /\ VolumesOK' /\ FlushersOK' /\ SyncersOK' /\ BlocksOK' /\ ContentsOK' /\ FilesKept
      /\ FreshOK'
  BY <1>3, BalloonFrame
<1>7. NodesOK'
  <2>1. ASSUME NEW u \in Volumes, NEW m \in Lbns PROVE NodeOK(u, m)'
    <3>1. CASE u = v /\ m = l
      BY <1>4, <3>1 DEF NodeOK
    <3>2. CASE ~ (u = v /\ m = l)
      BY <1>3, <1>4, <3>2 DEF SafetyInv, NodesOK, NodeOK, Fresh
    <3>. QED BY <3>1, <3>2
  <2>. QED BY <2>1 DEF NodesOK
<1>8. InUseOK'
  <2>1. ASSUME NEW x \in Inodes, istate[x] # "FREE", ~ Unhooking(x)'
        PROVE  node'[ivol[x]][ilbn[x]].inode = x
    <3>1. x # i
      BY <1>3, <2>1 DEF Unhooking
    <3>2. ~ Unhooking(x)
      BY <1>1, <1>2, <2>1 DEF Unhooking
    <3>3. node[ivol[x]][ilbn[x]].inode = x /\ ivol[x] \in Volumes /\ ilbn[x] \in Lbns
      BY <2>1, <3>2, Types DEF SafetyInv, InUseOK
    <3>. QED BY <1>2, <1>4, <3>1, <3>3
  <2>. QED BY <1>3, <2>1 DEF InUseOK
<1>9. WritersOK'
  <2>1. ASSUME NEW u \in Volumes PROVE WriterSafe(u)'
    <3>1. WriterSafe(u) /\ w[u].lbn \in Lbns
      BY Types DEF SafetyInv, WritersOK, WriterRec
    <3>2. CASE u = v /\ w[u].lbn = l
      <4>1. w[u].pc \notin Holding
        BY <1>2, <3>2
      <4>2. w[u].pc # "lock_new"
        BY <1>2, <3>1, <3>2 DEF WriterSafe, Node
      <4>3. Node(u)'.exists /\ Node(u)'.inode = NoInode
        BY <1>3, <1>4, <3>2 DEF Node
      <4>. QED BY <1>3, <3>1, <4>1, <4>2, <4>3 DEF WriterSafe, Missing, Holding, Locking, Storing
    <3>3. CASE ~ (u = v /\ w[u].lbn = l)
      <4>1. Node(u)' = Node(u)
        BY <1>3, <1>4, <3>1, <3>3 DEF Node
      <4>. QED BY <1>3, <3>1, <4>1 DEF WriterSafe, Missing
    <3>. QED BY <3>2, <3>3
  <2>. QED BY <2>1 DEF WritersOK
<1>10. BalloonsOK'
  <2>1. HashNode(k)'.inode = NoInode /\ HashNode(k)'.exists /\ HashNode(k)'.mutex
    BY <1>3, <1>4 DEF HashNode
  <2>2. \A j \in Balloons : j # k /\ b[j].pc \in {"free", "enqueue"} => b[j].idx # i
    BY <1>2 DEF SafetyInv, BalloonsOK, BalloonSafe
  <2>3. BalloonSafe(k)'
    <3>1. AloneSafe(k)' /\ b'[k].pc = "free"
      BY <1>3 DEF AloneSafe, Looking
    <3>2. \A u \in Volumes : w'[u].pc \in Holding => ~ (b'[k].vol = u /\ b'[k].lbn = w'[u].lbn)
      BY <1>2, <1>3
    <3>3. \A j \in Balloons :
             b'[j].pc \in Invalidating /\ b'[j].vol = b'[k].vol /\ b'[j].lbn = b'[k].lbn => j = k
      BY <1>1, <1>2, <1>3
    <3>4. /\ istate'[b'[k].idx] = "CLEAN"
          /\ b'[k].vol = ivol'[b'[k].idx] /\ b'[k].lbn = ilbn'[b'[k].idx]
      BY <1>2, <1>3, <1>5
    <3>5. /\ \A u \in Volumes, m \in Lbns : node'[u][m].inode # b'[k].idx
          /\ \A j \in Balloons :
                b'[j].pc \in {"free", "enqueue"} /\ b'[j].idx = b'[k].idx => j = k
      BY <1>1, <1>3, <1>5, <2>2
    <3>. QED BY <2>1, <3>1, <3>2, <3>3, <3>4, <3>5 DEF BalloonSafe, Looking, Invalidating
  <2>4. \A u \in Volumes, m \in Lbns :
           /\ node'[u][m].inode \in {node[u][m].inode, NoInode}
           /\ node[u][m].exists => node'[u][m].exists
           /\ ~ (b[k].vol = u /\ b[k].lbn = m) => node'[u][m] = node[u][m]
    BY <1>2, <1>4
  <2>5. \A j \in Balloons : j # k /\ b[j].pc \in Invalidating =>
           ~ (b[k].vol = b[j].vol /\ b[k].lbn = b[j].lbn)
    BY <1>2
  <2>. QED BY <1>1, <1>3, <2>3, <2>4, <2>5, OtherBalloonsKept
<1>11. FreeOK'
  <2>0. StepSame("enqueue")
    BY <1>1, <1>2, <1>3 DEF StepSame
  <2>1. ASSUME NEW j \in FreeQueues PROVE FreeQueueOK(j)'
    <3>1. FreeQueueOK(j) /\ In(freeq[j]) \subseteq Inodes
      BY InType DEF SafetyInv, FreeOK, TypeInv, TypeOK, SharedTypeOK, FreeQueues
    <3>2. ASSUME NEW x \in In(freeq[j]), NEW u \in Volumes, NEW m \in Lbns
          PROVE  node'[u][m].inode # x
      <4>1. node[u][m].inode # x /\ x # NoInode
        BY <3>1, Types DEF FreeQueueOK
      <4>2. CASE u = v /\ m = l
        BY <1>4, <4>1, <4>2
      <4>3. CASE ~ (u = v /\ m = l)
        BY <1>4, <4>1, <4>3
      <4>. QED BY <4>2, <4>3
    <3>3. ASSUME NEW x \in In(freeq[j]), NEW y \in Balloons, b'[y].pc = "enqueue"
          PROVE  b'[y].idx # x
      BY <2>0, <3>1, <3>3 DEF FreeQueueOK, StepSame
    <3>. QED BY <1>3, <3>1, <3>2, <3>3 DEF FreeQueueOK, Taken
  <2>2. ASSUME NEW u \in Volumes PROVE TakenOK(u)'
    <3>1. TakenOK(u)
      BY DEF SafetyInv, FreeOK
    <3>2. Taken(u) => w[u].idx # NoInode
      BY Types DEF TypeInv, WriterOK, HasInode, Taken
    <3>3. Taken(u) => \A y \in Volumes, m \in Lbns : node'[y][m].inode # w[u].idx
      BY <1>4, <3>1, <3>2 DEF TakenOK
    <3>. QED BY <1>3, <2>0, <3>1, <3>3 DEF TakenOK, Taken, StepSame
  <2>3. ASSUME NEW x \in Inodes PROVE FreeFound(x)'
    <3>1. FreeFound(x)
      BY DEF SafetyInv, FreeOK
    <3>2. ASSUME istate[x] = "FREE", NEW u \in Volumes, NEW m \in Lbns, node[u][m].inode = x
          PROVE  node'[u][m].inode = x
      BY <1>2, <1>4, <3>2
    <3>. QED BY <1>3, <2>0, <3>1, <3>2 DEF FreeFound, Taken, StepSame
  <2>. QED BY <2>1, <2>2, <2>3 DEF FreeOK
<1>. QED BY <1>6, <1>7, <1>8, <1>9, <1>10, <1>11 DEF SafetyInv

\* The inode, which no node has any more, is FREE and in the hands of the balloon.
LEMMA BalloonFreeSafe ==
    ASSUME TypeInv, TypeInv', SafetyInv, NEW k \in Balloons,
           UNCHANGED <<writerVars, f, s>>, BalloonFree(k)
    PROVE  SafetyInv' /\ FilesKept
<1>. USE DEF queues, storage, writerVars
<1>1. \A j \in Balloons : j # k => b'[j] = b[j]
  BY MovesAlone DEF BalloonStep
<1>2. PICK i \in Inodes :
         /\ i = b[k].idx /\ b[k].pc = "free" /\ BalloonSafe(k) /\ istate[i] = "CLEAN"
         /\ i # NoInode
         /\ \A v \in Volumes, l \in Lbns : node[v][l].inode # i
         /\ \A j \in Balloons : b[j].pc \in {"free", "enqueue"} /\ b[j].idx = i => j = k
  BY Types DEF BalloonFree, TypeInv, BalloonOK, SafetyInv, BalloonsOK, BalloonSafe
<1>3. /\ UNCHANGED <<ilbn, ivol, iblock, ilock, vblock, data, node, queues, storage, w, acked,
                     f, s>>
      /\ b'[k].pc = "enqueue" /\ b'[k].vol = b[k].vol /\ b'[k].lbn = b[k].lbn /\ b'[k].idx = i
      /\ istate' = [istate EXCEPT ![i] = "FREE"]
  <2>0. b \in [Balloons -> BalloonRec]
    BY Types
  <2>. QED BY <1>2, <2>0 DEF BalloonFree, BalloonRec
<1>4. istate'[i] = "FREE" /\ \A x \in Inodes : x # i => istate'[x] = istate[x]
  BY <1>3, Types
<1>5. WritersSame /\ NodesSame /\ LocksSame
  BY <1>3, TablesStay, WritersStay DEF LocksSame
<1>6. NodesOK'
  <2>1. ASSUME NEW u \in Volumes, NEW l \in Lbns PROVE NodeOK(u, l)'
    <3>1. NodeOK(u, l) /\ node[u][l].inode \in Inodes \cup {NoInode} /\ node[u][l].inode # i
      BY <1>2, Types DEF SafetyInv, NodesOK, Nodes
    <3>. QED BY <1>3, <1>4, <3>1 DEF NodeOK, Fresh
  <2>. QED BY <2>1 DEF NodesOK
<1>7. InUseOK'
  <2>1. ASSUME NEW x \in Inodes, istate'[x] # "FREE", ~ Unhooking(x)' PROVE node[ivol[x]][ilbn[x]].inode = x
    <3>1. x # i /\ istate[x] # "FREE"
      BY <1>4, <2>1
    <3>2. ~ Unhooking(x)
      BY <1>1, <1>2, <2>1, <3>1 DEF Unhooking
    <3>. QED BY <3>1, <3>2 DEF SafetyInv, InUseOK
  <2>. QED BY <1>3, <2>1 DEF InUseOK
<1>8. WritersOK'
  <2>1. ASSUME NEW u \in Volumes PROVE WriterSafe(u)'
    <3>1. WriterSafe(u) /\ Node(u)' = Node(u)
      BY <1>3 DEF SafetyInv, WritersOK, Node
    <3>2. w[u].pc \in {"assign", "insert", "lock_new"} \cup Locking => w[u].idx \in Inodes
      BY <3>1 DEF WriterSafe, TypeInv, WriterOK, HasInode
    <3>3. w[u].pc \in {"assign", "insert", "lock_new"} => istate'[w[u].idx] = "FREE"
      BY <1>4, <3>1, <3>2 DEF WriterSafe
    <3>4. w[u].pc \in Locking => istate'[w[u].idx] # "SYNC"
      BY <1>4, <3>1, <3>2 DEF WriterSafe
    <3>5. w[u].pc \in Storing => istate'[w[u].idx] = "DIRTY"
      <4>1. w[u].pc \in Storing => w[u].pc \in Locking /\ w[u].idx # i
        BY <1>2, <3>1 DEF WriterSafe, Storing, Locking
      <4>. QED BY <1>4, <3>1, <3>2, <4>1 DEF WriterSafe
    <3>. QED BY <1>3, <3>1, <3>3, <3>4, <3>5 DEF WriterSafe, Missing
  <2>. QED BY <2>1 DEF WritersOK
<1>9. BalloonsOK'
  <2>1. HashNode(k)' = HashNode(k)
    BY <1>3 DEF HashNode
  <2>2. BalloonSafe(k)'
    BY <1>1, <1>2, <1>3, <1>4, <2>1 DEF BalloonSafe, AloneSafe, Looking, Invalidating
  <2>3. ASSUME NEW j \in Balloons, j # k PROVE BalloonSafe(j)'
    <3>1. /\ BalloonSafe(j) /\ HashNode(j)' = HashNode(j) /\ NumBalloons # 1 /\ b'[j] = b[j]
          /\ b[j].pc # "idle" => b[j].idx \in Inodes
      BY <1>1, <1>3, <2>3, OneBalloon DEF SafetyInv, BalloonsOK, HashNode, TypeInv, BalloonOK
    <3>2. /\ HashNode(j).inode # i
          /\ HashNode(j).inode \in Inodes \cup {NoInode}
      BY <1>2, Types DEF HashNode, BalloonRec, Nodes
    <3>3. b[j].pc \in {"delete", "free"} /\ HashNode(j).inode # NoInode =>
             istate'[HashNode(j).inode] = istate[HashNode(j).inode]
      BY <1>4, <3>2
    <3>4. b[j].pc \in {"free", "enqueue"} => istate'[b[j].idx] = istate[b[j].idx]
      BY <1>2, <1>4, <2>3, <3>1
    <3>5. ASSUME NEW x \in Balloons, b[j].pc \in Invalidating, b'[x].pc \in Invalidating,
                 b'[x].vol = b[j].vol, b'[x].lbn = b[j].lbn
          PROVE  x = j
      <4>1. CASE x = k
        BY <1>2, <1>3, <3>1, <3>5, <4>1 DEF BalloonSafe, Invalidating
      <4>2. CASE x # k
        BY <1>1, <3>1, <3>5, <4>2 DEF BalloonSafe
      <4>. QED BY <4>1, <4>2
    <3>6. ASSUME NEW x \in Balloons, b[j].pc \in {"free", "enqueue"},
                 b'[x].pc \in {"free", "enqueue"}, b'[x].idx = b[j].idx
          PROVE  x = j
      <4>1. CASE x = k
        BY <1>2, <1>3, <3>1, <3>6, <4>1 DEF BalloonSafe
      <4>2. CASE x # k
        BY <1>1, <3>1, <3>6, <4>2 DEF BalloonSafe
      <4>. QED BY <4>1, <4>2
    <3>. QED BY <1>3, <3>1, <3>3, <3>4, <3>5, <3>6 DEF BalloonSafe
  <2>. QED BY <2>2, <2>3 DEF BalloonsOK
<1>10. FreeOK'
  <2>1. ASSUME NEW j \in FreeQueues PROVE FreeQueueOK(j)'
    <3>1. FreeQueueOK(j) /\ In(freeq[j]) \subseteq Inodes
      BY InType DEF SafetyInv, FreeOK, TypeInv, TypeOK, SharedTypeOK, FreeQueues
    <3>2. \A x \in In(freeq[j]) : x # i /\ istate'[x] = "FREE"
      BY <1>2, <1>4, <3>1 DEF FreeQueueOK
    <3>3. ASSUME NEW x \in In(freeq[j]), NEW y \in Balloons, b'[y].pc = "enqueue"
          PROVE  b'[y].idx # x
      <4>1. CASE y = k
        BY <1>3, <3>2, <4>1
      <4>2. CASE y # k
        BY <1>1, <3>1, <3>3, <4>2 DEF FreeQueueOK
      <4>. QED BY <4>1, <4>2
    <3>. QED BY <1>3, <3>1, <3>2, <3>3 DEF FreeQueueOK, Taken
  <2>2. ASSUME NEW u \in Volumes PROVE TakenOK(u)'
    <3>1. TakenOK(u) /\ WriterSafe(u)
      BY DEF SafetyInv, FreeOK, WritersOK
    <3>2. Taken(u) => w[u].idx # i
      BY <1>2, <3>1 DEF WriterSafe, Taken
    <3>3. ASSUME Taken(u), NEW y \in Balloons, b'[y].pc = "enqueue" PROVE b'[y].idx # w[u].idx
      <4>1. CASE y = k
        BY <1>3, <3>2, <3>3, <4>1
      <4>2. CASE y # k
        BY <1>1, <3>1, <3>3, <4>2 DEF TakenOK
      <4>. QED BY <4>1, <4>2
    <3>. QED BY <1>3, <3>1, <3>3 DEF TakenOK, Taken
  <2>3. ASSUME NEW x \in Inodes PROVE FreeFound(x)'
    <3>1. CASE x = i
      BY <1>3, <3>1 DEF FreeFound
    <3>2. CASE x # i
      <4>1. FreeFound(x) /\ istate'[x] = istate[x]
        BY <1>4, <3>2 DEF SafetyInv, FreeOK
      <4>2. \A y \in Balloons : b[y].pc = "enqueue" => b'[y] = b[y]
        BY <1>1, <1>2
      <4>. QED BY <1>3, <4>1, <4>2 DEF FreeFound, Taken
    <3>. QED BY <3>1, <3>2
  <2>. QED BY <2>1, <2>2, <2>3 DEF FreeOK
<1>11. DirtyOK'
  <2>1. ASSUME NEW u \in Volumes PROVE DirtyQueueOK(u)'
    <3>1. DirtyQueueOK(u) /\ In(dirtyq[u]) \subseteq Inodes
      BY InType DEF SafetyInv, DirtyOK, TypeInv, TypeOK, SharedTypeOK
    <3>2. i \notin In(dirtyq[u])
      BY <1>2, <3>1 DEF DirtyQueueOK
    <3>. QED BY <1>3, <1>4, <3>1, <3>2 DEF DirtyQueueOK, Redirtied
  <2>2. ASSUME NEW x \in Inodes PROVE DirtyFound(x)'
    <3>1. DirtyFound(x) /\ (istate'[x] = "DIRTY" => istate[x] = "DIRTY")
      BY <1>4 DEF SafetyInv, DirtyOK
    <3>. QED BY <1>3, <3>1 DEF DirtyFound, Redirtied
  <2>. QED BY <2>1, <2>2 DEF DirtyOK
<1>12. VolumesOK'
  BY <1>3, VolumesKept DEF SafetyInv, Flushing
<1>13. FlushersOK'
  <2>1. ASSUME NEW t \in Flushers PROVE FlusherSafe(t)'
    <3>1. /\ FlusherSafe(t) /\ In(f[t].batch) \subseteq Inodes
          /\ f[t].failed \in Inodes \cup {NoInode}
      BY Types, InType DEF SafetyInv, FlushersOK, FlusherRec
    <3>2. /\ \A x \in In(f[t].batch) : istate'[x] = "DIRTY"
          /\ f[t].failed # NoInode => istate'[f[t].failed] = "DIRTY"
      BY <1>2, <1>4, <3>1 DEF FlusherSafe
    <3>. QED BY <1>3, <3>1, <3>2 DEF FlusherSafe, Redirtied, Unlocking
  <2>. QED BY <2>1 DEF FlushersOK
<1>14. SyncersOK'
  <2>1. ASSUME NEW j \in Syncers PROVE SyncQueueOK(j)' /\ SyncerSafe(j)'
    <3>1. /\ SyncQueueOK(j) /\ SyncerSafe(j) /\ In(syncq[j]) \subseteq Inodes
          /\ Unlocking(j) => s[j].idx \in Inodes
      BY QueueOfSyncer DEF TypeInv, SyncerOK, Unlocking
    <3>2. \A x \in In(syncq[j]) : istate'[x] = "SYNC"
      BY <1>2, <1>4, <3>1 DEF SyncQueueOK
    <3>3. Unlocking(j) => istate'[s[j].idx] # "SYNC"
      BY <1>4, <3>1 DEF SyncerSafe
    <3>4. SyncQueueOK(j)'
      BY <1>3, <3>1, <3>2 DEF SyncQueueOK
    <3>5. SyncerSafe(j)'
      BY <1>3, <3>1, <3>3 DEF SyncerSafe, Unlocking
    <3>. QED BY <3>4, <3>5
  <2>2. ASSUME NEW x \in Inodes PROVE SyncFound(x)'
    <3>1. SyncFound(x) /\ (istate'[x] = "SYNC" => istate[x] = "SYNC")
      BY <1>4 DEF SafetyInv, SyncersOK
    <3>. QED BY <1>3, <3>1 DEF SyncFound
  <2>. QED BY <2>1, <2>2 DEF SyncersOK
<1>15. BlocksOK'
  BY <1>3, <1>5, BlocksKept DEF SafetyInv, WritersSame
<1>16. ContentsOK' /\ FilesKept
  <2>1. ASSUME NEW x \in Inodes PROVE InodeHolds(x)'
    <3>1. InodeHolds(x) /\ ivol[x] \in Volumes /\ ilbn[x] \in Lbns
      BY Types DEF SafetyInv, ContentsOK
    <3>2. istate'[x] # "FREE" => istate[x] # "FREE"
      BY <1>2, <1>4
    <3>. QED BY <1>3, <1>5, <3>1, <3>2 DEF InodeHolds, WritersSame, LatestSame
  <2>2. ASSUME NEW u \in Volumes, NEW l \in Lbns, FileHolds(u, l)
        PROVE  FileHolds(u, l)'
    <3>2. Pending(u, l) = Pending(u, l)'
      BY <1>2, <1>3, <1>4 DEF Pending
    <3>. QED BY <1>3, <1>5, <2>2, <3>2 DEF FileHolds, WritersSame, LatestSame
  <2>3. ASSUME NEW u \in Volumes PROVE CopyHolds(u)'
    BY <1>3 DEF SafetyInv, ContentsOK, CopyHolds, NewContent
  <2>. QED BY <2>1, <2>2, <2>3 DEF ContentsOK, FilesKept
<1>17. FreshOK'
  <2>1. ASSUME NEW x \in Inodes, istate'[x] = "SYNC" PROVE Filed(x)'
    <3>1. Filed(x)
      BY <1>4, <2>1 DEF SafetyInv, FreshOK
    <3>. QED BY <1>3, <3>1 DEF Filed
  <2>2. ASSUME NEW t \in Flushers PROVE FiledOK(t)'
    BY <1>3 DEF SafetyInv, FreshOK, FiledOK, Filed
  <2>3. ASSUME NEW j \in Syncers PROVE SyncedOK(j)'
    BY <1>3 DEF SafetyInv, FreshOK, SyncedOK, Synced, Unlocking
  <2>. QED BY <2>1, <2>2, <2>3 DEF FreshOK
<1>. QED BY <1>6, <1>7, <1>8, <1>9, <1>10, <1>11, <1>12, <1>13, <1>14, <1>15, <1>16, <1>17
     DEF SafetyInv

\* It goes to a free queue.
LEMMA BalloonEnqueueSafe ==
    ASSUME TypeInv, TypeInv', SafetyInv, NEW k \in Balloons,
           UNCHANGED <<writerVars, f, s>>, BalloonEnqueue(k)
    PROVE  SafetyInv' /\ FilesKept
<1>. USE DEF inodeTable, storage, writerVars
<1>1. \A j \in Balloons : j # k => b'[j] = b[j]
  BY MovesAlone DEF BalloonStep
<1>2. PICK i \in Inodes, q \in FreeQueues :
         /\ i = b[k].idx /\ b[k].pc = "enqueue" /\ BalloonSafe(k) /\ istate[i] = "FREE"
         /\ q = free_enqueue_idx
         /\ \A v \in Volumes, l \in Lbns : node[v][l].inode # i
         /\ \A j \in Balloons : b[j].pc \in {"free", "enqueue"} /\ b[j].idx = i => j = k
  <2>1. b[k].pc = "enqueue" /\ BalloonSafe(k) /\ b[k].idx \in Inodes
    BY DEF BalloonEnqueue, TypeInv, BalloonOK, SafetyInv, BalloonsOK
  <2>2. free_enqueue_idx \in FreeQueues
    BY DEF TypeInv, TypeOK, SharedTypeOK, FreeQueues
  <2>3. /\ istate[b[k].idx] = "FREE"
        /\ \A v \in Volumes, l \in Lbns : node[v][l].inode # b[k].idx
        /\ \A j \in Balloons : b[j].pc \in {"free", "enqueue"} /\ b[j].idx = b[k].idx => j = k
    BY <2>1 DEF BalloonSafe
  <2>. QED BY <2>1, <2>2, <2>3
<1>3. /\ UNCHANGED <<inodeTable, vblock, data, node, dirtyq, syncq, inuseq, storage, w, acked,
                     f, s>>
      /\ b'[k].pc = "unlock" /\ b'[k].vol = b[k].vol /\ b'[k].lbn = b[k].lbn
      /\ freeq' = Enqueue(freeq, q, i)
  <2>0. b \in [Balloons -> BalloonRec]
    BY Types
  <2>. QED BY <1>2, <2>0 DEF BalloonEnqueue, BalloonRec
<1>4. /\ \A j \in FreeQueues : FreeQueueOK(j) /\ i \notin In(freeq[j])
      /\ freeq \in [FreeQueues -> Seq(Inodes)]
  <2>1. freeq \in [FreeQueues -> Seq(Inodes)]
    BY DEF TypeInv, TypeOK, SharedTypeOK, FreeQueues
  <2>2. \A j \in FreeQueues : FreeQueueOK(j)
    BY DEF SafetyInv, FreeOK
  <2>. QED BY <1>2, <2>1, <2>2 DEF FreeQueueOK
<1>5. /\ In(freeq'[q]) = In(freeq[q]) \cup {i} /\ Once(freeq'[q])
      /\ \A j \in FreeQueues : j # q => freeq'[j] = freeq[j]
  <2>1. q \in DOMAIN freeq /\ freeq[q] \in Seq(Inodes) /\ DOMAIN freeq = FreeQueues
    BY <1>4
  <2>2. Once(freeq[q])
    BY <1>4 DEF FreeQueueOK
  <2>. QED BY <1>3, <1>4, <2>1, <2>2, EnqueueIn
<1>6. /\ WritersSame
      /\ DirtyOK' /\ VolumesOK' /\ FlushersOK' /\ SyncersOK' /\ BlocksOK' /\ ContentsOK' /\ FilesKept
      /\ FreshOK'
  BY <1>3, BalloonFrame
<1>7. NodesSame /\ InodesSame
  BY <1>3, TablesStay
<1>8. NodesOK'
  BY <1>6, <1>7, NodesKept DEF SafetyInv, WritersSame
<1>9. InUseOK'
  <2>1. StepSame("free")
    BY <1>1, <1>2, <1>3 DEF StepSame
  <2>. QED BY <1>3, <2>1 DEF SafetyInv, InUseOK, Unhooking, StepSame
<1>10. WritersOK'
  <2>1. ASSUME NEW v \in Volumes PROVE WriterSafe(v)'
    <3>1. WriterSafe(v) /\ Node(v)' = Node(v)
      BY <1>3 DEF SafetyInv, WritersOK, Node
    <3>. QED BY <1>3, <3>1 DEF WriterSafe, Missing
  <2>. QED BY <2>1 DEF WritersOK
<1>11. BalloonsOK'
  <2>1. HashNode(k)' = HashNode(k)
    BY <1>3 DEF HashNode
  <2>2. \A j \in Balloons : j # k /\ b[j].pc \in Invalidating =>
           ~ (b[k].vol = b[j].vol /\ b[k].lbn = b[j].lbn)
    BY <1>2 DEF BalloonSafe, Invalidating
  <2>3. BalloonSafe(k)'
    BY <1>1, <1>2, <1>3, <2>1, <2>2 DEF BalloonSafe, AloneSafe, Looking, Invalidating
  <2>4. \A u \in Volumes, m \in Lbns :
           /\ node'[u][m].inode \in {node[u][m].inode, NoInode}
           /\ node[u][m].exists => node'[u][m].exists
           /\ ~ (b[k].vol = u /\ b[k].lbn = m) => node'[u][m] = node[u][m]
    BY <1>3
  <2>. QED BY <1>1, <1>3, <2>2, <2>3, <2>4, OtherBalloonsKept
<1>12. FreeOK'
  <2>0. \A j \in Balloons : b'[j].pc = "enqueue" =>
           b[j].pc = "enqueue" /\ b'[j].idx = b[j].idx /\ b[j].idx # i
    BY <1>1, <1>2, <1>3
  <2>1. ASSUME NEW j \in FreeQueues
        PROVE  \A x \in In(freeq'[j]) : (x = i /\ j = q) \/ (x # i /\ x \in In(freeq[j]))
    <3>1. CASE j = q
      <4>1. In(freeq'[j]) = In(freeq[j]) \cup {i}
        BY <1>5, <3>1
      <4>. QED BY <1>4, <3>1, <4>1
    <3>2. CASE j # q
      BY <1>4, <1>5, <3>2
    <3>. QED BY <3>1, <3>2
  <2>2. \A v \in Volumes : Taken(v) => w[v].idx # i
    BY <1>2 DEF SafetyInv, FreeOK, TakenOK
  <2>3. ASSUME NEW j \in FreeQueues PROVE FreeQueueOK(j)'
    <3>1. FreeQueueOK(j) /\ Once(freeq'[j])
      BY <1>4, <1>5 DEF FreeQueueOK
    <3>2. ASSUME NEW x \in In(freeq'[j]), NEW j2 \in FreeQueues, x \in In(freeq'[j2]) PROVE j2 = j
      BY <2>1, <3>1, <3>2 DEF FreeQueueOK
    <3>3. ASSUME NEW x \in In(freeq'[j])
          PROVE  /\ istate[x] = "FREE"
                 /\ \A v \in Volumes, l \in Lbns : node[v][l].inode # x
                 /\ \A v \in Volumes : Taken(v) => w[v].idx # x
      BY <1>2, <2>1, <2>2, <3>1, <3>3 DEF FreeQueueOK
    <3>4. ASSUME NEW x \in In(freeq'[j]), NEW y \in Balloons, b'[y].pc = "enqueue"
          PROVE  b'[y].idx # x
      BY <2>0, <2>1, <3>1, <3>4 DEF FreeQueueOK
    <3>. QED BY <1>3, <3>1, <3>2, <3>3, <3>4 DEF FreeQueueOK, Taken
  <2>4. ASSUME NEW v \in Volumes PROVE TakenOK(v)'
    BY <1>3, <2>0 DEF SafetyInv, FreeOK, TakenOK, Taken
  <2>5. ASSUME NEW x \in Inodes PROVE FreeFound(x)'
    <3>1. CASE x = i
      BY <1>5, <3>1 DEF FreeFound
    <3>2. CASE x # i
      <4>1. /\ FreeFound(x)
            /\ \A y \in Balloons : b[y].pc = "enqueue" /\ b[y].idx = x => b'[y] = b[y]
        BY <1>1, <1>2, <3>2 DEF SafetyInv, FreeOK
      <4>2. ASSUME NEW j \in FreeQueues, x \in In(freeq[j]) PROVE x \in In(freeq'[j])
        BY <1>5, <4>2
      <4>. QED BY <1>3, <4>1, <4>2 DEF FreeFound, Taken
    <3>. QED BY <3>1, <3>2
  <2>. QED BY <2>3, <2>4, <2>5 DEF FreeOK
<1>. QED BY <1>6, <1>8, <1>9, <1>10, <1>11, <1>12 DEF SafetyInv

\* The mutex that the balloon holds is released.
LEMMA BalloonUnlockSafe ==
    ASSUME TypeInv, TypeInv', SafetyInv, NEW k \in Balloons,
           UNCHANGED <<writerVars, f, s>>, BalloonUnlock(k)
    PROVE  SafetyInv' /\ FilesKept
<1>. USE DEF queues
<1>1. /\ UNCHANGED <<inodeTable, vblock, data, freeq, dirtyq, syncq, inuseq, storage>>
      /\ b[k].pc = "unlock" /\ b'[k].pc = "idle"
      /\ node' = [node EXCEPT ![b[k].vol][b[k].lbn].mutex = FALSE]
  BY Types DEF BalloonUnlock, BalloonIdle
<1>2. /\ \A v \in Volumes : w[v].pc \in Holding => ~ (b[k].vol = v /\ b[k].lbn = w[v].lbn)
      /\ \A j \in Balloons : j # k /\ b[j].pc \in Invalidating =>
            ~ (b[k].vol = b[j].vol /\ b[k].lbn = b[j].lbn)
  BY <1>1 DEF SafetyInv, BalloonsOK, BalloonSafe, Invalidating
<1>3. BalloonSafe(k)'
  BY <1>1 DEF BalloonSafe, AloneSafe, Looking, Invalidating
<1>4. \A j \in Balloons : j # k => b'[j] = b[j]
  BY MovesAlone DEF BalloonStep
<1>. QED BY <1>1, <1>2, <1>3, <1>4, BalloonMutexSafe

\* Every step of a balloon, as long as the node it invalidates is the node of
\* the inode it frees.
LEMMA BalloonStepSafe ==
    ASSUME TypeInv, TypeInv', SafetyInv, FreesWhatItInvalidates, NEW k \in Balloons, BalloonThread(k)
    PROVE  SafetyInv' /\ FilesKept
<1>1. UNCHANGED <<writerVars, f, s>> /\ BalloonStep(k)
  BY DEF BalloonThread
<1>2. CASE \/ BalloonDequeue(k) \/ BalloonState(k) \/ BalloonSearch(k) \/ BalloonTryLock(k)
           \/ BalloonCheck(k)
  BY <1>1, <1>2, BalloonLookSafe
<1>3. CASE BalloonDelete(k)
  BY <1>1, <1>3, BalloonDeleteSafe
<1>4. CASE BalloonFree(k)
  BY <1>1, <1>4, BalloonFreeSafe
<1>5. CASE BalloonEnqueue(k)
  BY <1>1, <1>5, BalloonEnqueueSafe
<1>6. CASE BalloonUnlock(k)
  BY <1>1, <1>6, BalloonUnlockSafe
<1>. QED BY <1>1, <1>2, <1>3, <1>4, <1>5, <1>6 DEF BalloonStep

(***************************************************************************)
(* The invariant holds                                                     *)
(***************************************************************************)

\* A step of nvm_system_close that changes nothing here.
LEMMA SafetyStutter ==
    ASSUME TypeInv, TypeInv', SafetyInv, UNCHANGED vars
    PROVE  SafetyInv' /\ FilesKept
<1>0. /\ UNCHANGED <<istate, ilbn, ivol, iblock, ilock, vblock, data, node, freeq, dirtyq,
                     syncq, inuseq, file, disk>>
      /\ w' = w /\ acked' = acked /\ f' = f /\ s' = s /\ b' = b
  BY DEF vars, shared, inodeTable, queues, storage, writerVars
<1>1. NodesSame /\ InodesSame /\ WritersSame /\ LocksSame
  BY <1>0, TablesStay, WritersStay DEF LocksSame
<1>2. NodesOK' /\ InUseOK' /\ VolumesOK' /\ BlocksOK' /\ ContentsOK' /\ FilesKept /\ FreshOK'
  BY <1>0, <1>1, CoreKept DEF WritersSame
<1>3. DirtyOK' /\ FlushersOK' /\ SyncersOK'
  BY <1>0, <1>1, LockersKept DEF WritersSame
<1>4. BalloonsOK' /\ FreeOK'
  BY <1>0, <1>1, MutexStays, BalloonsKept, FreeKept DEF SafetyInv, WritersSame
<1>5. WritersOK'
  <2>1. ASSUME NEW v \in Volumes PROVE WriterSafe(v)'
    <3>1. WriterSafe(v) /\ Node(v)' = Node(v)
      BY <1>0 DEF SafetyInv, WritersOK, Node
    <3>. QED BY <1>0, <3>1 DEF WriterSafe, Missing
  <2>. QED BY <2>1 DEF WritersOK
<1>. QED BY <1>2, <1>3, <1>4, <1>5 DEF SafetyInv

LEMMA SafetyStep ==
    ASSUME TypeInv, TypeInv', SafetyInv, FreesWhatItInvalidates, [Next]_vars
    PROVE  SafetyInv' /\ FilesKept
<1>1. ASSUME NEW v \in Volumes, Writer(v) PROVE SafetyInv' /\ FilesKept
  BY <1>1, WriterStepSafe
<1>2. ASSUME NEW t \in Flushers, Flusher(t) PROVE SafetyInv' /\ FilesKept
  BY <1>2, FlusherStepSafe
<1>3. ASSUME NEW k \in Syncers, Syncer(k) PROVE SafetyInv' /\ FilesKept
  BY <1>3, SyncerStepSafe
<1>4. ASSUME NEW k \in Balloons, BalloonThread(k) PROVE SafetyInv' /\ FilesKept
  BY <1>4, BalloonStepSafe
<1>5. CASE UNCHANGED vars
  BY <1>5, SafetyStutter
<1>. QED BY <1>1, <1>2, <1>3, <1>4, <1>5 DEF Next

LEMMA FilesStay ==
    ASSUME FilesOK, FilesKept
    PROVE  FilesOK'
BY DEF FilesOK, FilesKept

\* The threads are at the head of their loops, and every inode is in one of
\* the free queues and in nothing else: as nvm_system_init makes them.
Halted ==
    /\ \A i \in Inodes : ~ ilock[i]
    /\ \A v \in Volumes, l \in Lbns : node[v][l].inode = NoInode /\ ~ node[v][l].valid
    /\ \A v \in Volumes : w[v].pc = "idle"
    /\ \A t \in Flushers : f[t].pc = "idle" /\ f[t].batch = <<>> /\ f[t].failed = NoInode
    /\ \A k \in Syncers : s[k].pc = "idle"
    /\ \A k \in Balloons : b[k].pc = "idle"
    /\ freeq = [j \in FreeQueues |-> InitialFree(j)]
    /\ \A v \in Volumes : dirtyq[v] = <<>>
    /\ \A k \in Syncers : syncq[k] = <<>>
    /\ inuseq = [n \in 1 .. NumVolumes |-> n - 1]

Booted == Halted /\ \A i \in Inodes : istate[i] = "FREE"

\* No block has two owners, and none is lost.
BlocksApart ==
    /\ \A i, j \in Inodes : iblock[i] = iblock[j] => i = j
    /\ \A u, v \in Volumes : vblock[u] = vblock[v] => u = v
    /\ \A i \in Inodes, v \in Volumes : iblock[i] # vblock[v]
    /\ \A x \in Blocks : (\E i \in Inodes : iblock[i] = x) \/ (\E v \in Volumes : vblock[v] = x)

LEMMA BootSafe ==
    ASSUME TypeInv, Booted, BlocksApart
    PROVE  SafetyInv
<1>1. /\ \A i \in Inodes : istate[i] = "FREE" /\ ~ ilock[i]
      /\ \A v \in Volumes, l \in Lbns : node[v][l].inode = NoInode /\ ~ node[v][l].valid
      /\ \A v \in Volumes : w[v].pc = "idle"
      /\ \A t \in Flushers : f[t].pc = "idle" /\ f[t].batch = <<>> /\ f[t].failed = NoInode
      /\ \A k \in Syncers : s[k].pc = "idle"
      /\ \A k \in Balloons : b[k].pc = "idle"
      /\ freeq = [j \in FreeQueues |-> InitialFree(j)]
      /\ \A v \in Volumes : dirtyq[v] = <<>>
      /\ \A k \in Syncers : syncq[k] = <<>>
      /\ inuseq = [n \in 1 .. NumVolumes |-> n - 1]
  BY DEF Booted, Halted
<1>2. In(<<>>) = {} /\ Once(<<>>)
  BY DEF In, Once
<1>3. NodesOK
  <2>1. ASSUME NEW v \in Volumes, NEW l \in Lbns PROVE NodeOK(v, l)
    BY <1>1 DEF NodeOK
  <2>. QED BY <2>1 DEF NodesOK
<1>4. InUseOK
  BY <1>1 DEF InUseOK
<1>5. WritersOK
  BY <1>1 DEF WritersOK, WriterSafe, Holding, Missing, Locking, Storing
<1>6. BalloonsOK
  BY <1>1 DEF BalloonsOK, BalloonSafe, AloneSafe, Looking, Invalidating
<1>7. FreeOK
  <2>1. \A v \in Volumes : ~ Taken(v)
    BY <1>1 DEF Taken
  <2>2. ASSUME NEW j \in FreeQueues PROVE FreeQueueOK(j)
    <3>1. freeq[j] = InitialFree(j) /\ Once(freeq[j])
      BY <1>1, InitialDeal
    <3>2. \A j2 \in FreeQueues : \A i \in In(freeq[j2]) : i \in Inodes /\ i % NumFree = j2
      BY <1>1, InitialDeal
    <3>3. \A i \in In(freeq[j]), v \in Volumes, l \in Lbns : node[v][l].inode # i
      BY <1>1, <3>2, Types
    <3>4. \A i \in In(freeq[j]), j2 \in FreeQueues : i \in In(freeq[j2]) => j2 = j
      BY <3>2
    <3>. QED BY <1>1, <2>1, <3>1, <3>2, <3>3, <3>4 DEF FreeQueueOK
  <2>3. ASSUME NEW i \in Inodes PROVE FreeFound(i)
    <3>1. i % NumFree \in FreeQueues
      BY Sizes DEF Inodes, FreeQueues
    <3>2. freeq[i % NumFree] = InitialFree(i % NumFree)
      BY <1>1, <3>1
    <3>3. i \in In(freeq[i % NumFree])
      BY <3>1, <3>2, InitialDeal
    <3>. QED BY <3>1, <3>3 DEF FreeFound
  <2>. QED BY <2>1, <2>2, <2>3 DEF FreeOK, TakenOK
<1>8. DirtyOK
  BY <1>1, <1>2 DEF DirtyOK, DirtyQueueOK, DirtyFound, Redirtied
<1>9. VolumesOK
  <2>1. NumVolumes \in Nat /\ Len(inuseq) = NumVolumes
    BY <1>1, Sizes
  <2>2. Once(inuseq)
    BY <1>1, <2>1 DEF Once
  <2>3. ASSUME NEW v \in Volumes PROVE v \in In(inuseq)
    <3>1. v + 1 \in 1 .. Len(inuseq) /\ inuseq[v + 1] = v
      BY <1>1, <2>1 DEF Volumes
    <3>. QED BY <3>1 DEF In
  <2>4. \A t \in Flushers : ~ Flushing(t)
    BY <1>1 DEF Flushing
  <2>. QED BY <2>2, <2>3, <2>4 DEF VolumesOK
<1>10. FlushersOK
  <2>1. ASSUME NEW t \in Flushers PROVE FlusherSafe(t)
    BY <1>1, <1>2 DEF FlusherSafe
  <2>. QED BY <2>1 DEF FlushersOK
<1>11. SyncersOK
  BY <1>1, <1>2 DEF SyncersOK, SyncQueueOK, SyncerSafe, SyncFound, Unlocking
<1>12. BlocksOK
  <2>1. \A i \in Inodes : HeldBy(i) = iblock[i]
    BY <1>1, Types DEF HeldBy, Swapping
  <2>2. \A v \in Volumes : ExchangeOK(v)
    BY <1>1 DEF ExchangeOK
  <2>. QED BY <2>1, <2>2 DEF BlocksOK, BlocksApart
<1>13. ContentsOK
  BY <1>1 DEF ContentsOK, InodeHolds, CopyHolds
<1>14. FreshOK
  BY <1>1 DEF FreshOK, FiledOK, SyncedOK, Unlocking
<1>. QED BY <1>3, <1>4, <1>5, <1>6, <1>7, <1>8, <1>9, <1>10, <1>11, <1>12, <1>13, <1>14
     DEF SafetyInv

LEMMA SafetyInit ==
    ASSUME Init
    PROVE  SafetyInv /\ FilesOK
<1>. USE DEF Init
<1>1. TypeInv
  BY TypeInit
<1>2. /\ \A i \in Inodes : iblock[i] = i
      /\ \A v \in Volumes : vblock[v] = NumInodes + v
      /\ \A v \in Volumes, l \in Lbns :
            file[v][l] = Blank /\ disk[v][l] = Blank /\ acked[v][l] = 0
  BY DEF InitShared, InitTables, InitWriter
<1>3. Booted
  BY DEF Booted, Halted, InitShared, InitTables, InitQueues, InitWriter, InitFlush, InitSync,
         InitBalloon, Idle, FlusherIdle, SyncerIdle, BalloonIdle, NoNode, FreeQueues
<1>4. BlocksApart
  <2>1. /\ \A u, v \in Volumes : vblock[u] = vblock[v] => u = v
        /\ \A i \in Inodes, v \in Volumes : i # vblock[v]
    BY <1>2, Sizes DEF Volumes, Inodes
  <2>2. ASSUME NEW x \in Blocks PROVE x \in Inodes \/ \E v \in Volumes : vblock[v] = x
    <3>1. x \in Inodes \/ (x - NumInodes \in Volumes /\ NumInodes + (x - NumInodes) = x)
      BY Sizes DEF Blocks, Inodes, Volumes
    <3>. QED BY <1>2, <3>1
  <2>. QED BY <1>2, <2>1, <2>2 DEF BlocksApart
<1>5. ASSUME NEW v \in Volumes, NEW l \in Lbns PROVE FileHolds(v, l)
  <2>1. ~ Stored(v, l)
    BY <1>3 DEF Stored, Booted, Halted
  <2>2. Latest(v, l) = Blank
    BY <1>2, <2>1 DEF Latest, Content
  <2>. QED BY <1>2, <2>2 DEF FileHolds
<1>. QED BY <1>1, <1>3, <1>4, <1>5, BootSafe DEF FilesOK

(***************************************************************************)
(* What the invariant says of the blocks, the inodes and the queues        *)
(***************************************************************************)

LEMMA BlocksFollow ==
    ASSUME TypeInv, SafetyInv
    PROVE  BlocksArePermuted
<1>1. ASSUME NEW i \in Inodes PROVE BlockOf(i) = HeldBy(i)
  <2>1. ASSUME NEW v \in Volumes, At(v, "swap_inode"), w[v].idx = i PROVE ivol[i] = v
    <3>1. Node(v).inode = i /\ Node(v) = node[v][w[v].lbn] /\ w[v].lbn \in Lbns
      BY <2>1, Types DEF SafetyInv, WritersOK, WriterSafe, Locking, At, Node, WriterRec
    <3>. QED BY <3>1, OnlyNode
  <2>2. CASE Swapping(i)
    <3>1. ivol[i] \in Volumes /\ At(ivol[i], "swap_inode") /\ w[ivol[i]].idx = i
      BY <2>2, Types DEF Swapping, At
    <3>2. (CHOOSE v \in Volumes : At(v, "swap_inode") /\ w[v].idx = i) = ivol[i]
      BY <2>1, <3>1
    <3>. QED BY <2>2, <3>1, <3>2 DEF BlockOf, HeldBy
  <2>3. CASE ~ Swapping(i)
    BY <2>1, <2>3 DEF Swapping, BlockOf, HeldBy, At
  <2>. QED BY <2>2, <2>3
<1>2. BlocksOK
  BY DEF SafetyInv
<1>3. ASSUME NEW i \in Inodes PROVE HeldBy(i) \in Blocks
  <2>1. w[ivol[i]].ownerless \in Blocks /\ iblock[i] \in Blocks
    BY Types DEF WriterRec
  <2>. QED BY <2>1 DEF HeldBy
<1>4. \A v \in Volumes : vblock[v] \in Blocks
  BY Types
<1>5. {BlockOf(i) : i \in Inodes} \cup {vblock[v] : v \in Volumes} = Blocks
  BY <1>1, <1>2, <1>3, <1>4 DEF BlocksOK
<1>6. \A i, j \in Inodes : BlockOf(i) = BlockOf(j) => i = j
  BY <1>1, <1>2 DEF BlocksOK
<1>. QED BY <1>5, <1>6 DEF BlocksArePermuted

LEMMA HashedFollows ==
    ASSUME TypeInv, SafetyInv
    PROVE  InUseIsHashed
<1>1. ASSUME NEW i \in Inodes, istate[i] # "FREE", ~ Unhooking(i)
      PROVE  node[ivol[i]][ilbn[i]].valid /\ node[ivol[i]][ilbn[i]].inode = i
  <2>1. ivol[i] \in Volumes /\ ilbn[i] \in Lbns /\ i # NoInode
    BY Types
  <2>2. node[ivol[i]][ilbn[i]].inode = i
    BY <1>1 DEF SafetyInv, InUseOK
  <2>3. NodeOK(ivol[i], ilbn[i])
    BY <2>1 DEF SafetyInv, NodesOK
  <2>. QED BY <2>1, <2>2, <2>3 DEF NodeOK
<1>. QED BY <1>1 DEF InUseIsHashed

LEMMA NoNullFollows ==
    ASSUME TypeInv, SafetyInv, NumBalloons = 1
    PROVE  NoNullInode
<1>1. Alive
  BY DEF SafetyInv, BalloonsOK, BalloonSafe, AloneSafe, Alive
<1>2. ASSUME NEW v \in Volumes, At(v, "lock_inode")
      PROVE  Node(v).mutex /\ Node(v).valid /\ Node(v).inode # NoInode
  <2>1. Node(v).mutex /\ Node(v).inode # NoInode
    BY <1>2 DEF SafetyInv, WritersOK, WriterSafe, Holding, At
  <2>2. NodeOK(v, w[v].lbn)
    BY Types DEF SafetyInv, NodesOK, WriterRec
  <2>. QED BY <2>1, <2>2 DEF NodeOK, Node
<1>. QED BY <1>1, <1>2 DEF NoNullInode

LEMMA FreesFollows ==
    ASSUME SafetyInv, NumBalloons = 1
    PROVE  FreesWhatItInvalidates
BY DEF SafetyInv, BalloonsOK, BalloonSafe, AloneSafe, Looking, FreesWhatItInvalidates

\* While an inode is clean, the node of its block leads to it, or to a FREE
\* one that replaces it.
LEMMA CleanIsAlone ==
    ASSUME TypeInv, SafetyInv, NEW i \in Inodes, istate[i] = "CLEAN"
    PROVE  /\ Pending(ivol[i], ilbn[i]) = {}
           /\ ~ Exchanging(ivol[i], ilbn[i])
<1>1. PICK v \in Volumes, l \in Lbns : v = ivol[i] /\ l = ilbn[i]
  BY Types
<1>2. ASSUME NEW j \in Inodes, node[v][l].inode = j
      PROVE  istate[j] \in {"FREE", "CLEAN"}
  <2>1. CASE Unhooking(i)
    <3>1. PICK k \in Balloons : b[k].pc = "free" /\ b[k].idx = i /\ BalloonSafe(k)
      BY <2>1 DEF Unhooking, SafetyInv, BalloonsOK
    <3>2. HashNode(k) = node[v][l] /\ j # NoInode
      BY <1>1, <3>1, Types DEF BalloonSafe, HashNode
    <3>. QED BY <1>2, <3>1, <3>2 DEF BalloonSafe
  <2>2. CASE ~ Unhooking(i)
    BY <1>1, <1>2, <2>2 DEF SafetyInv, InUseOK
  <2>. QED BY <2>1, <2>2
<1>3. ASSUME NEW j \in Pending(v, l) PROVE FALSE
  <2>1. j \in Inodes /\ istate[j] \in {"DIRTY", "SYNC"} /\ ivol[j] = v /\ ilbn[j] = l
    BY <1>3 DEF Pending
  <2>2. ~ Unhooking(j)
    BY <2>1 DEF Unhooking, SafetyInv, BalloonsOK, BalloonSafe
  <2>3. node[v][l].inode = j
    BY <2>1, <2>2 DEF SafetyInv, InUseOK
  <2>. QED BY <1>2, <2>1, <2>3
<1>4. ASSUME Exchanging(v, l) PROVE FALSE
  <2>1. w[v].lbn = l /\ w[v].pc \in Locking /\ w[v].pc \in Storing
    BY <1>4 DEF Exchanging, Locking, Storing
  <2>2. /\ w[v].idx \in Inodes /\ node[v][l].inode = w[v].idx
        /\ istate[w[v].idx] = "DIRTY"
    BY <2>1 DEF SafetyInv, WritersOK, WriterSafe, Node
  <2>. QED BY <1>2, <2>2
<1>. QED BY <1>1, <1>3, <1>4

LEMMA DurableFollows ==
    ASSUME TypeInv, SafetyInv, FilesOK
    PROVE  CleanIsDurable
<1>1. ASSUME NEW i \in Inodes, istate[i] = "CLEAN"
      PROVE  disk[ivol[i]][ilbn[i]] = data[iblock[i]]
  <2>1. PICK v \in Volumes, l \in Lbns : v = ivol[i] /\ l = ilbn[i]
    BY Types
  <2>2. Pending(v, l) = {} /\ ~ Exchanging(v, l)
    BY <1>1, <2>1, CleanIsAlone
  <2>3. FileHolds(v, l) /\ InodeHolds(i)
    BY DEF FilesOK, SafetyInv, ContentsOK
  <2>4. disk[v][l] = Latest(v, l)
    BY <2>2, <2>3 DEF FileHolds
  <2>5. data[iblock[i]] = Latest(v, l)
    BY <1>1, <2>1, <2>2, <2>3 DEF InodeHolds
  <2>. QED BY <2>1, <2>4, <2>5
<1>. QED BY <1>1 DEF CleanIsDurable

\* What recovery_start would write back for a block that is dirty.
LEMMA RecoveredFollows ==
    ASSUME TypeInv, SafetyInv, NEW v \in Volumes, NEW l \in Lbns, Pending(v, l) # {},
           ~ Exchanging(v, l)
    PROVE  Recovered(v, l) = Latest(v, l)
<1>1. ASSUME NEW i \in Pending(v, l)
      PROVE  /\ i \in Inodes /\ istate[i] \in {"DIRTY", "SYNC"} /\ ivol[i] = v /\ ilbn[i] = l
             /\ node[v][l].inode = i
  <2>1. i \in Inodes /\ istate[i] \in {"DIRTY", "SYNC"} /\ ivol[i] = v /\ ilbn[i] = l
    BY <1>1 DEF Pending
  <2>2. ~ Unhooking(i)
    BY <2>1 DEF Unhooking, SafetyInv, BalloonsOK, BalloonSafe
  <2>. QED BY <2>1, <2>2 DEF SafetyInv, InUseOK
<1>2. PICK i : i \in Pending(v, l)
  OBVIOUS
<1>3. \A j \in Pending(v, l) : j = i
  BY <1>1, <1>2
<1>4. i <= i
  BY <1>1, <1>2 DEF Inodes
<1>5. (CHOOSE x \in Pending(v, l) : \A j \in Pending(v, l) : j <= x) = i
  BY <1>2, <1>3, <1>4
<1>6. Recovered(v, l) = data[iblock[i]]
  BY <1>5 DEF Recovered
<1>7. data[iblock[i]] = Latest(v, l)
  BY <1>1, <1>2 DEF SafetyInv, ContentsOK, InodeHolds
<1>. QED BY <1>6, <1>7

LEMMA CrashFollows ==
    ASSUME TypeInv, SafetyInv, FilesOK
    PROVE  WritesSurviveCrash
<1>1. ASSUME NEW v \in Volumes, NEW l \in Lbns, ~ Exchanging(v, l)
      PROVE  Recovered(v, l) = Latest(v, l)
  <2>1. CASE Pending(v, l) = {}
    BY <2>1 DEF Recovered, FilesOK, FileHolds
  <2>. QED BY <1>1, <2>1, RecoveredFollows
<1>. QED BY <1>1 DEF WritesSurviveCrash, Latest

(***************************************************************************)
(* How long a queue is                                                     *)
(***************************************************************************)
LEMMA LengthOnce ==
    ASSUME NEW n \in Nat, NEW q \in Seq(0 .. n - 1), Once(q)
    PROVE  Len(q) <= n
<1>1. /\ Len(q) \in Nat /\ Len(q) \in Int /\ n - 1 \in Int /\ 0 \in Int /\ 1 \in Int
      /\ q \in [1 .. Len(q) -> 0 .. n - 1]
  BY LenProperties
<1>2. q \in Injection(1 .. Len(q), 0 .. n - 1)
  BY <1>1 DEF Once, Injection, IsInjective
<1>3. IsFiniteSet(0 .. n - 1)
  BY <1>1, FS_Interval
<1>4. Cardinality(1 .. Len(q)) <= Cardinality(0 .. n - 1)
  BY <1>2, <1>3, FS_Injection
<1>5. Cardinality(1 .. Len(q)) = Len(q)
  <2>1. Cardinality(1 .. Len(q)) = IF 1 > Len(q) THEN 0 ELSE Len(q) - 1 + 1
    BY <1>1, FS_Interval, Zenon
  <2>. QED BY <1>1, <2>1
<1>6. Cardinality(0 .. n - 1) = n
  <2>1. Cardinality(0 .. n - 1) = IF 0 > n - 1 THEN 0 ELSE n - 1 - 0 + 1
    BY <1>1, FS_Interval, Zenon
  <2>. QED BY <2>1
<1>. QED BY <1>4, <1>5, <1>6

LEMMA RoomFollows ==
    ASSUME TypeInv, SafetyInv
    PROVE  OtherQueuesHaveRoom
<1>. USE Sizes
<1>1. ASSUME NEW k \in FreeQueues PROVE Len(freeq[k]) <= NumInodes
  <2>1. freeq[k] \in Seq(0 .. NumInodes - 1) /\ Once(freeq[k])
    BY DEF TypeInv, TypeOK, SharedTypeOK, Inodes, FreeQueues, SafetyInv, FreeOK, FreeQueueOK
  <2>. QED BY <2>1, LengthOnce
<1>2. ASSUME NEW v \in Volumes PROVE Len(dirtyq[v]) <= NumInodes
  <2>1. dirtyq[v] \in Seq(0 .. NumInodes - 1) /\ Once(dirtyq[v])
    BY DEF TypeInv, TypeOK, SharedTypeOK, Inodes, SafetyInv, DirtyOK, DirtyQueueOK
  <2>. QED BY <2>1, LengthOnce
<1>3. ASSUME NEW k \in Syncers PROVE Len(syncq[k]) <= NumInodes
  <2>1. syncq[k] \in Seq(0 .. NumInodes - 1) /\ Once(syncq[k])
    BY DEF TypeInv, TypeOK, SharedTypeOK, Inodes, SafetyInv, SyncersOK, SyncQueueOK
  <2>. QED BY <2>1, LengthOnce
<1>4. Len(inuseq) <= NumVolumes
  <2>1. inuseq \in Seq(0 .. NumVolumes - 1) /\ Once(inuseq)
    BY DEF TypeInv, TypeOK, SharedTypeOK, Volumes, SafetyInv, VolumesOK
  <2>. QED BY <2>1, LengthOnce
<1>. QED BY <1>1, <1>2, <1>3, <1>4 DEF OtherQueuesHaveRoom, FreeQueues

(***************************************************************************)
(* How often an inode is queued                                            *)
(***************************************************************************)
LEMMA OnlyOne ==
    ASSUME NEW S, NEW x, S = {x}
    PROVE  Cardinality(S) = 1
<1>1. Cardinality({x}) = 1
  BY FS_Singleton, Zenon
<1>. QED BY <1>1

LEMMA CountZero ==
    ASSUME NEW q, NEW x, \A k \in DOMAIN q : x \notin In(q[k])
    PROVE  Count(q, x) = 0
<1>1. UNION {{k} \X {n \in 1 .. Len(q[k]) : q[k][n] = x} : k \in DOMAIN q} = {}
  BY DEF In
<1>. QED BY <1>1, FS_EmptySet DEF Count

LEMMA CountOne ==
    ASSUME NEW q, NEW x, NEW k \in DOMAIN q, Once(q[k]), x \in In(q[k]),
           \A j \in DOMAIN q : x \in In(q[j]) => j = k
    PROVE  Count(q, x) = 1
<1>1. PICK n \in 1 .. Len(q[k]) : q[k][n] = x
  BY DEF In
<1>. DEFINE C(j) == {j} \X {m \in 1 .. Len(q[j]) : q[j][m] = x}
<1>2. C(k) = {<<k, n>>}
  BY <1>1 DEF Once
<1>3. \A j \in DOMAIN q : j # k => C(j) = {}
  BY DEF In
<1>. HIDE DEF C
<1>4. UNION {C(j) : j \in DOMAIN q} = {<<k, n>>}
  BY <1>2, <1>3
<1>. QED BY <1>4, FS_Singleton DEF C, Count

(***************************************************************************)
(* Where an inode is                                                       *)
(***************************************************************************)
LEMMA FreePlace ==
    ASSUME TypeInv, SafetyInv, NEW i \in Inodes
    PROVE  IF istate[i] = "FREE"
           THEN Count(freeq, i) + Cardinality(FreeHolders(i)) = 1
           ELSE Count(freeq, i) = 0
<1>1. DOMAIN freeq = FreeQueues
  BY DEF TypeInv, TypeOK, SharedTypeOK, FreeQueues
<1>2. CASE istate[i] # "FREE"
  <2>1. \A j \in DOMAIN freeq : i \notin In(freeq[j])
    BY <1>1, <1>2 DEF SafetyInv, FreeOK, FreeQueueOK
  <2>2. Count(freeq, i) = 0
    BY <2>1, CountZero
  <2>. QED BY <1>2, <2>2
<1>3. CASE istate[i] = "FREE"
  <2>. DEFINE Takes(v) == Taken(v) /\ w[v].idx = i
              Holds(v) == Fresh(v) /\ Node(v).inode = i
              Frees(k) == b[k].pc = "enqueue" /\ b[k].idx = i
  <2>1. \A v \in Volumes :
           w[v].pc \in {"lock_new", "set_dirty"} => (w[v].idx = i <=> Node(v).inode = i)
    BY DEF SafetyInv, WritersOK, WriterSafe, Locking
  <2>2. FreeHolders(i) = {v \in Volumes : Takes(v) \/ Holds(v)}
                         \cup {NumVolumes + k : k \in {x \in Balloons : Frees(x)}}
    BY <2>1 DEF FreeHolders, Taken, Fresh, At
  <2>3. \A v \in Volumes : w[v].lbn \in Lbns /\ Node(v) = node[v][w[v].lbn]
    BY Types DEF Node, WriterRec
  <2>4. CASE \E j \in FreeQueues : i \in In(freeq[j])
    <3>1. PICK j \in FreeQueues : i \in In(freeq[j])
      BY <2>4
    <3>2. /\ FreeQueueOK(j) /\ (\A v \in Volumes : ~ Takes(v)) /\ (\A k \in Balloons : ~ Frees(k))
          /\ \A v \in Volumes, l \in Lbns : node[v][l].inode # i
      BY <3>1 DEF SafetyInv, FreeOK, FreeQueueOK
    <3>3. FreeHolders(i) = {}
      BY <2>2, <2>3, <3>2
    <3>4. Count(freeq, i) = 1
      BY <1>1, <3>1, <3>2, CountOne DEF FreeQueueOK
    <3>. QED BY <1>3, <3>3, <3>4, FS_EmptySet
  <2>5. CASE ~ \E j \in FreeQueues : i \in In(freeq[j])
    <3>1. Count(freeq, i) = 0
      BY <1>1, <2>5, CountZero
    <3>2. ASSUME NEW x, FreeHolders(i) = {x} PROVE Count(freeq, i) + Cardinality(FreeHolders(i)) = 1
      <4>1. Cardinality(FreeHolders(i)) = 1
        BY <3>2, OnlyOne
      <4>. QED BY <3>1, <4>1
    <3>4. CASE \E v \in Volumes : Takes(v)
      <4>1. PICK v \in Volumes : Takes(v)
        BY <3>4
      <4>2. /\ \A u \in Volumes, l \in Lbns : node[u][l].inode # i
            /\ \A u \in Volumes : Takes(u) => u = v
            /\ \A k \in Balloons : ~ Frees(k)
        BY <4>1 DEF SafetyInv, FreeOK, TakenOK
      <4>3. FreeHolders(i) = {v}
        BY <2>2, <2>3, <4>1, <4>2
      <4>. QED BY <1>3, <3>2, <4>3
    <3>5. CASE \E v \in Volumes, l \in Lbns : node[v][l].inode = i
      <4>1. PICK v \in Volumes, l \in Lbns : node[v][l].inode = i
        BY <3>5
      <4>2. w[v].lbn = l /\ Fresh(v)
        BY <1>3, <4>1, Types DEF SafetyInv, NodesOK, NodeOK
      <4>3. \A u \in Volumes : ~ Takes(u)
        BY <4>1 DEF SafetyInv, FreeOK, TakenOK
      <4>4. \A k \in Balloons : ~ Frees(k)
        BY <4>1 DEF SafetyInv, BalloonsOK, BalloonSafe
      <4>5. \A u \in Volumes : Holds(u) <=> u = v
        BY <2>3, <4>1, <4>2, OnlyNode
      <4>6. FreeHolders(i) = {v}
        BY <2>2, <4>3, <4>4, <4>5
      <4>. QED BY <1>3, <3>2, <4>6
    <3>6. CASE \E k \in Balloons : Frees(k)
      <4>1. PICK k \in Balloons : Frees(k)
        BY <3>6
      <4>2. \A v \in Volumes : ~ Takes(v)
        BY <4>1 DEF SafetyInv, FreeOK, TakenOK
      <4>3. /\ \A v \in Volumes, l \in Lbns : node[v][l].inode # i
            /\ \A j \in Balloons : Frees(j) => j = k
        BY <4>1 DEF SafetyInv, BalloonsOK, BalloonSafe
      <4>4. FreeHolders(i) = {NumVolumes + k}
        BY <2>2, <2>3, <4>1, <4>2, <4>3
      <4>. QED BY <1>3, <3>2, <4>4
    <3>7. FreeFound(i)
      BY DEF SafetyInv, FreeOK
    <3>. QED BY <1>3, <2>5, <3>4, <3>5, <3>6, <3>7 DEF FreeFound
  <2>. QED BY <2>4, <2>5
<1>. QED BY <1>2, <1>3

LEMMA DirtyPlace ==
    ASSUME TypeInv, SafetyInv, NEW i \in Inodes
    PROVE  Count(dirtyq, i) + Cardinality(DirtyHolders(i)) =
              (IF istate[i] = "DIRTY" THEN 1 ELSE 0)
<1>. DEFINE Writes(v) == Redirtied(v) /\ w[v].idx = i
            Flushes(t) == f[t].failed = i \/ i \in In(f[t].batch)
<1>1. DOMAIN dirtyq = Volumes
  BY DEF TypeInv, TypeOK, SharedTypeOK
<1>2. DirtyHolders(i) = {v \in Volumes : Writes(v)}
                        \cup {NumVolumes + t : t \in {x \in Flushers : Flushes(x)}}
  <2>1. \A t \in Flushers : (\E n \in DOMAIN f[t].batch : f[t].batch[n] = i) <=> i \in In(f[t].batch)
    <3>1. \A t \in Flushers : DOMAIN f[t].batch = 1 .. Len(f[t].batch)
      BY Types DEF FlusherRec
    <3>. QED BY <3>1 DEF In
  <2>. QED BY <2>1 DEF DirtyHolders, Redirtied
<1>3. ASSUME NEW v \in Volumes, Writes(v)
      PROVE  istate[i] = "DIRTY" /\ ivol[i] = v /\ i \notin In(dirtyq[v])
  <2>1. w[v].pc \in Storing /\ w[v].pc \in Locking
    BY <1>3 DEF Redirtied, Storing, Locking
  <2>2. istate[i] = "DIRTY" /\ Node(v).inode = i
    BY <1>3, <2>1 DEF SafetyInv, WritersOK, WriterSafe
  <2>3. w[v].lbn \in Lbns /\ Node(v) = node[v][w[v].lbn]
    BY Types DEF Node, WriterRec
  <2>4. ivol[i] = v
    BY <2>2, <2>3, OnlyNode
  <2>5. i \notin In(dirtyq[v])
    BY <1>3 DEF SafetyInv, DirtyOK, DirtyQueueOK
  <2>. QED BY <2>2, <2>4, <2>5
<1>4. ASSUME NEW t \in Flushers, Flushes(t)
      PROVE  /\ istate[i] = "DIRTY" /\ ivol[i] = f[t].v_idx /\ Flushing(t)
             /\ i \notin In(dirtyq[f[t].v_idx])
             /\ \A v \in Volumes : ~ Writes(v)
  <2>1. FlusherSafe(t) /\ i # NoInode
    BY Types DEF SafetyInv, FlushersOK
  <2>2. CASE f[t].failed = i
    BY <2>1, <2>2 DEF FlusherSafe, Flushing
  <2>3. CASE i \in In(f[t].batch)
    <3>1. Flushing(t)
      BY <2>1, <2>3 DEF FlusherSafe, Flushing, In
    <3>2. \A v \in Volumes : Redirtied(v) => w[v].pc \in Locking
      BY DEF Redirtied, Locking
    <3>. QED BY <2>1, <2>3, <3>1, <3>2 DEF FlusherSafe
  <2>. QED BY <1>4, <2>2, <2>3
<1>5. ASSUME NEW v \in Volumes, i \in In(dirtyq[v]) PROVE istate[i] = "DIRTY" /\ ivol[i] = v
  BY <1>5 DEF SafetyInv, DirtyOK, DirtyQueueOK
<1>. HIDE DEF Writes, Flushes
<1>6. CASE istate[i] # "DIRTY"
  <2>1. DirtyHolders(i) = {}
    BY <1>2, <1>3, <1>4, <1>6
  <2>2. Count(dirtyq, i) = 0
    BY <1>1, <1>5, <1>6, CountZero
  <2>. QED BY <1>6, <2>1, <2>2, FS_EmptySet
<1>7. CASE istate[i] = "DIRTY" /\ i \in In(dirtyq[ivol[i]])
  <2>1. DirtyHolders(i) = {}
    BY <1>2, <1>3, <1>4, <1>7
  <2>2. ivol[i] \in Volumes /\ Once(dirtyq[ivol[i]])
    BY Types DEF SafetyInv, DirtyOK, DirtyQueueOK
  <2>3. Count(dirtyq, i) = 1
    BY <1>1, <1>5, <1>7, <2>2, CountOne
  <2>. QED BY <1>7, <2>1, <2>3, FS_EmptySet
<1>8. CASE istate[i] = "DIRTY" /\ i \notin In(dirtyq[ivol[i]])
  <2>1. Count(dirtyq, i) = 0
    BY <1>1, <1>5, <1>8, CountZero
  <2>2. ASSUME NEW x, DirtyHolders(i) = {x}
        PROVE  Count(dirtyq, i) + Cardinality(DirtyHolders(i)) = 1
    <3>1. Cardinality(DirtyHolders(i)) = 1
      BY <2>2, OnlyOne
    <3>. QED BY <2>1, <3>1
  <2>3. CASE \E t \in Flushers : Flushes(t)
    <3>1. PICK t \in Flushers : Flushes(t)
      BY <2>3
    <3>2. \A x \in Flushers : Flushes(x) => x = t
      BY <1>4, <3>1 DEF SafetyInv, VolumesOK
    <3>3. DirtyHolders(i) = {NumVolumes + t}
      BY <1>2, <1>4, <3>1, <3>2
    <3>. QED BY <1>8, <2>2, <3>3
  <2>4. CASE \E v \in Volumes : Writes(v)
    <3>1. PICK v \in Volumes : Writes(v)
      BY <2>4
    <3>2. \A u \in Volumes : Writes(u) => u = v
      BY <1>3, <3>1
    <3>3. \A t \in Flushers : ~ Flushes(t)
      BY <1>4, <3>1
    <3>4. DirtyHolders(i) = {v}
      BY <1>2, <3>1, <3>2, <3>3
    <3>. QED BY <1>8, <2>2, <3>4
  <2>5. DirtyFound(i)
    BY DEF SafetyInv, DirtyOK
  <2>. QED BY <1>8, <2>3, <2>4, <2>5 DEF DirtyFound, Writes, Flushes
<1>. QED BY <1>6, <1>7, <1>8

LEMMA SyncPlace ==
    ASSUME TypeInv, SafetyInv, NEW i \in Inodes
    PROVE  Count(syncq, i) = (IF istate[i] = "SYNC" THEN 1 ELSE 0)
<1>1. DOMAIN syncq = Syncers
  BY DEF TypeInv, TypeOK, SharedTypeOK
<1>2. \A k \in Syncers : SyncQueueOK(k)
  BY DEF SafetyInv, SyncersOK
<1>3. CASE istate[i] = "SYNC"
  <2>1. PICK k \in Syncers : i \in In(syncq[k])
    BY <1>3 DEF SafetyInv, SyncersOK, SyncFound
  <2>2. Once(syncq[k]) /\ \A j \in Syncers : i \in In(syncq[j]) => j = k
    BY <1>2, <2>1 DEF SyncQueueOK
  <2>. QED BY <1>1, <1>3, <2>1, <2>2, CountOne
<1>4. CASE istate[i] # "SYNC"
  <2>1. \A k \in Syncers : i \notin In(syncq[k])
    BY <1>2, <1>4 DEF SyncQueueOK
  <2>. QED BY <1>1, <1>4, <2>1, CountZero
<1>. QED BY <1>3, <1>4

LEMMA PlaceFollows ==
    ASSUME TypeInv, SafetyInv
    PROVE  InOnePlace
BY FreePlace, DirtyPlace, SyncPlace DEF InOnePlace

(***************************************************************************)
(* The theorems                                                            *)
(***************************************************************************)

\* The invariant holds as long as no two balloons have reclaimed the same
\* inode: as long as every node that fill_free_inodes invalidates
\* (nvm0balloon.cc 88) is the node of the inode that it frees.
THEOREM SafetyHolds == Spec /\ []FreesWhatItInvalidates => [](TypeInv /\ SafetyInv /\ FilesOK)
<1>1. Init => SafetyInv /\ FilesOK
  BY SafetyInit
<1>2. /\ TypeInv /\ TypeInv' /\ SafetyInv /\ FilesOK /\ FreesWhatItInvalidates /\ [Next]_vars
      => SafetyInv' /\ FilesOK'
  BY SafetyStep, FilesStay
<1>. QED BY <1>1, <1>2, TypeInit, TypeStep, PTL DEF Spec

\* A single balloon thread invalidates the node of the inode it frees
\* (nvm0balloon.cc 65-66): it never works on an inode that is FREE.  With two
\* of them the run double_free shows how they come to free the wrong one.
THEOREM OneBalloonFrees == NumBalloons = 1 => (Spec => []FreesWhatItInvalidates)
<1>. SUFFICES ASSUME NumBalloons = 1 PROVE Spec => []FreesWhatItInvalidates
  OBVIOUS
<1>1. Init => SafetyInv
  BY SafetyInit
<1>2. SafetyInv => FreesWhatItInvalidates
  BY FreesFollows
<1>3. TypeInv /\ TypeInv' /\ SafetyInv /\ FreesWhatItInvalidates /\ [Next]_vars => SafetyInv'
  BY SafetyStep
<1>. QED BY <1>1, <1>2, <1>3, TypeInit, TypeStep, PTL DEF Spec

\* A crash at any moment leaves the last completed write of every block of
\* every volume for recovery_start to find (nvm0nvm.cc 353): in the block of
\* its one DIRTY or SYNC inode, or in the synced file.  Dirty before the copy,
\* written with the lock held, synced before clean, unhooked before free: no
\* step of the write path, of nvm_flush, nvm_sync or fill_free_inodes opens a
\* gap.
THEOREM WritesSurvive == Spec /\ []FreesWhatItInvalidates => []WritesSurviveCrash
<1>1. TypeInv /\ SafetyInv /\ FilesOK => WritesSurviveCrash
  BY CrashFollows
<1>. QED BY <1>1, SafetyHolds, PTL

\* nvm_sync turns an inode CLEAN only when the disk has what its block has
\* (nvm0sync.cc 54-58), and no writer changes the block before the inode is DIRTY
\* again.
THEOREM CleanStaysDurable == Spec /\ []FreesWhatItInvalidates => []CleanIsDurable
<1>1. TypeInv /\ SafetyInv /\ FilesOK => CleanIsDurable
  BY DurableFollows
<1>. QED BY <1>1, SafetyHolds, PTL

\* The hash node of a block leads to the one inode in use for it, from the
\* insert of get_hash_node_with_lock to the logical delete of the balloon.
THEOREM InUseStaysHashed == Spec /\ []FreesWhatItInvalidates => []InUseIsHashed
<1>1. TypeInv /\ SafetyInv => InUseIsHashed
  BY HashedFollows
<1>. QED BY <1>1, SafetyHolds, PTL

\* Every FREE, DIRTY or SYNC inode is in exactly one queue or in the hands of
\* exactly one thread: the retries of nvm_flush lose none, and no inode is
\* handed out twice.
THEOREM EveryInodeInOnePlace == Spec /\ []FreesWhatItInvalidates => []InOnePlace
<1>1. TypeInv /\ SafetyInv => InOnePlace
  BY PlaceFollows
<1>. QED BY <1>1, SafetyHolds, PTL

\* The exchanges of writeDataToNvmBlock (nvm0write.cc 50-51), one per volume
\* and any number of volumes at a time, lose no block and share none.
THEOREM ManyVolumesPermuteBlocks == Spec /\ []FreesWhatItInvalidates => []BlocksArePermuted
<1>1. TypeInv /\ SafetyInv => BlocksArePermuted
  BY BlocksFollow
<1>. QED BY <1>1, SafetyHolds, PTL

\* The enqueues of fill_free_inodes, nvm_write, nvm_flush and of the volumes
\* never meet a full ring (nvm0lfqueue.h 66-71): free, dirty and sync queues hold
\* no inode twice, and the queue of the volumes in use holds no volume twice.
THEOREM OnlyCleanQueuesFill == Spec /\ []FreesWhatItInvalidates => []OtherQueuesHaveRoom
<1>1. TypeInv /\ SafetyInv => OtherQueuesHaveRoom
  BY RoomFollows
<1>. QED BY <1>1, SafetyHolds, PTL

\* With one balloon thread the new node that get_hash_node_with_lock does not
\* look at again (nvm0write.cc 122) and the node and inode that the balloon
\* follows unchecked (nvm0balloon.cc 84, 105) are never null.
THEOREM NoNullFollowed == NumBalloons = 1 => (Spec => []NoNullInode)
<1>. SUFFICES ASSUME NumBalloons = 1 PROVE Spec => []NoNullInode
  OBVIOUS
<1>1. TypeInv /\ SafetyInv => NoNullInode
  BY NoNullFollows
<1>. QED BY <1>1, SafetyHolds, OneBalloonFrees, PTL

\* With one balloon thread, then, all of it holds without a condition.
THEOREM OneBalloonIsSafe ==
    NumBalloons = 1 =>
        (Spec => [](WritesSurviveCrash /\ CleanIsDurable /\ InUseIsHashed /\ InOnePlace
                    /\ BlocksArePermuted))
<1>. SUFFICES ASSUME NumBalloons = 1
              PROVE  Spec => [](WritesSurviveCrash /\ CleanIsDurable /\ InUseIsHashed /\ InOnePlace
                                /\ BlocksArePermuted)
  OBVIOUS
<1>. QED BY OneBalloonFrees, WritesSurvive, CleanStaysDurable, InUseStaysHashed,
            EveryInodeInOnePlace, ManyVolumesPermuteBlocks, PTL
=============================================================================
