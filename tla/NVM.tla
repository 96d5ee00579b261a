-------------------------------- MODULE NVM --------------------------------
(***************************************************************************)
(* The state that the threads of the burst buffer share: the inode, volume *)
(* and block tables in non-volatile memory, the hash tables, the queues of *)
(* inodes and volumes, the counters, and the files behind them.            *)
(*                                                                         *)
(* A queue is a sequence, which is what LFQueue implements: an enqueue     *)
(* takes its place at once, and returns when the ring has an element for   *)
(* it; a dequeue of an empty queue waits.                                  *)
(*                                                                         *)
(* Every volume is already open (alloc_volume_entry_idx is over) and has   *)
(* one writing thread, as in test/test_nvm_durable_write.cc, where thread  *)
(* tid writes volume tid and nothing else.  Hash nodes are never deleted   *)
(* physically, so the node of a block is the one the map of its volume     *)
(* holds under the block's number.                                         *)
(***************************************************************************)
EXTENDS Integers, Sequences, FiniteSets

CONSTANTS
    NumVolumes,     \* volumes in use, each with its writer
    NumLbns,        \* logical blocks of a volume
    NumInodes,      \* max_inode_entry
    NumFree,        \* DEFAULT_NUM_FREE
    NumSyncers,     \* DEFAULT_NUM_SYNCER
    NumBalloons,    \* DEFAULT_NUM_BALLOON
    NumFlushers,    \* NUM_FLUSH
    FreeMin,        \* DEFAULT_FREE_MIN_COUNT
    FlushLwm,       \* kFlushLwm
    FlushBatch,     \* FLUSH_BATCH_SIZE
    SyncLwm,        \* DEFAULT_SYNC_LWM
    MaxWrites       \* bound: how many block writes a volume is asked for

ASSUME SizeAssumption ==
    /\ {NumVolumes, NumLbns, NumInodes, NumFree, NumSyncers, NumBalloons, NumFlushers,
        FlushBatch, SyncLwm} \subseteq Nat \ {0}
    /\ {FreeMin, FlushLwm, MaxWrites} \subseteq Nat

Volumes == 0 .. NumVolumes - 1
Lbns == 0 .. NumLbns - 1
Inodes == 0 .. NumInodes - 1
Blocks == 0 .. NumInodes + NumVolumes - 1
Flushers == 0 .. NumFlushers - 1
Syncers == 0 .. NumSyncers - 1
Balloons == 0 .. NumBalloons - 1

NoInode == NumInodes        \* the null pointer in hash_node->inode

\* What a block holds: the n-th write of logical block l of volume v, or
\* whatever was there before the first one.
Blank == <<>>
Content(v, l, n) == IF n = 0 THEN Blank ELSE <<v, l, n>>
Contents == {Blank} \cup (Volumes \X Lbns \X (1 .. MaxWrites))

States == {"FREE", "DIRTY", "SYNC", "CLEAN"}

\* A hash node; `exists' is FALSE while search_hash_node finds nothing.
Nodes == [exists : BOOLEAN, inode : Inodes \cup {NoInode}, valid : BOOLEAN, mutex : BOOLEAN]

VARIABLES
    istate, ilbn, ivol, iblock, ilock,      \* inode_table
    vblock,                                 \* volume_table[v].block_index
    data,                                   \* block_table
    node,                                   \* the hash node of each logical block
    freeq, dirtyq, syncq, cleanq,           \* inode_*_lfqueue
    inuseq,                                 \* volume_inuse_lfqueue
    free_enqueue_idx, free_dequeue_idx, sync_queue_idx, clean_queue_idx,
    inode_free_count, inode_dirty_count,
    file,                                   \* what pwritev wrote to the files
    disk                                    \* what a sync() has made durable

inodeTable == <<istate, ilbn, ivol, iblock, ilock>>
queues == <<freeq, dirtyq, syncq, cleanq, inuseq>>
indices == <<free_enqueue_idx, free_dequeue_idx, sync_queue_idx, clean_queue_idx>>
counts == <<inode_free_count, inode_dirty_count>>
storage == <<file, disk>>

shared == <<inodeTable, vblock, data, node, queues, indices, counts, storage>>

(***************************************************************************)
(* nvm0hash.cc.  A node that was invalidated stays in the map, and is made *)
(* valid again with another inode; its mutex is left alone.                *)
(***************************************************************************)
NoNode == [exists |-> FALSE, inode |-> NoInode, valid |-> FALSE, mutex |-> FALSE]

new_hash_node(i) == [exists |-> TRUE, inode |-> i, valid |-> TRUE, mutex |-> FALSE]

validate_hash_node(n, i) == [n EXCEPT !.inode = i, !.valid = TRUE]

logical_delete_hash_node(n) == [n EXCEPT !.inode = NoInode, !.valid = FALSE]

(***************************************************************************)
(* nvm_structure_build and nvm_system_init: inode i has block i, volume v  *)
(* the ownerless block after those, and the free inodes are dealt to the   *)
(* free queues in turn.                                                    *)
(***************************************************************************)
InitialFree(k) ==
    [n \in 1 .. (NumInodes - k + NumFree - 1) \div NumFree |-> k + (n - 1) * NumFree]

InitTables ==
    /\ istate = [i \in Inodes |-> "FREE"]
    /\ ilbn = [i \in Inodes |-> 0]
    /\ ivol = [i \in Inodes |-> 0]
    /\ iblock = [i \in Inodes |-> i]
    /\ ilock = [i \in Inodes |-> FALSE]
    /\ vblock = [v \in Volumes |-> NumInodes + v]
    /\ data = [b \in Blocks |-> Blank]
    /\ node = [v \in Volumes |-> [l \in Lbns |-> NoNode]]

InitQueues ==
    /\ freeq = [k \in 0 .. NumFree - 1 |-> InitialFree(k)]
    /\ dirtyq = [v \in Volumes |-> <<>>]
    /\ syncq = [k \in Syncers |-> <<>>]
    /\ cleanq = [k \in Balloons |-> <<>>]
    /\ inuseq = [n \in 1 .. NumVolumes |-> n - 1]
    /\ free_enqueue_idx = 0
    /\ free_dequeue_idx = 0
    /\ sync_queue_idx = 0
    /\ clean_queue_idx = 0
    /\ inode_free_count = NumInodes
    /\ inode_dirty_count = 0

InitShared ==
    /\ InitTables
    /\ InitQueues
    /\ file = [v \in Volumes |-> [l \in Lbns |-> Blank]]
    /\ disk = file

\* A plausible bug: the index is used without the remainder.
Advance_NoRemainder(idx, n) == idx + 1

\* A queue is chosen with `idx++ % n'; only the remainder is kept.
Advance(idx, n) == (idx + 1) % n

Enqueue(q, k, x) == [q EXCEPT ![k] = Append(@, x)]
Dequeue(q, k) == [q EXCEPT ![k] = Tail(@)]

\* The enqueue of x has returned: its ticket is within the capacity of the ring,
\* max_inode_entry, of what was dequeued.  Only clean queues hold an inode more
\* than once, so that only they can be full.
Enqueued(q, x) == \A k \in DOMAIN q : \A n \in DOMAIN q[k] : q[k][n] = x => n <= NumInodes

(***************************************************************************)
(* The first pass of recovery_start: what it writes back for a block, if   *)
(* anything, when the machine stops now.  The inodes are visited in the    *)
(* order of their indices, so the last one wins.  Nothing but the          *)
(* non-volatile tables and the synced files is left.                       *)
(***************************************************************************)
Pending(v, l) == {i \in Inodes : istate[i] \in {"DIRTY", "SYNC"} /\ ivol[i] = v /\ ilbn[i] = l}

Recovered(v, l) ==
    IF Pending(v, l) = {}
    THEN disk[v][l]
    ELSE data[iblock[CHOOSE i \in Pending(v, l) : \A j \in Pending(v, l) : j <= i]]

SharedTypeOK ==
    /\ istate \in [Inodes -> States]
    /\ ilbn \in [Inodes -> Lbns]
    /\ ivol \in [Inodes -> Volumes]
    /\ iblock \in [Inodes -> Blocks]
    /\ ilock \in [Inodes -> BOOLEAN]
    /\ vblock \in [Volumes -> Blocks]
    /\ data \in [Blocks -> Contents]
    /\ node \in [Volumes -> [Lbns -> Nodes]]
    /\ freeq \in [0 .. NumFree - 1 -> Seq(Inodes)]
    /\ dirtyq \in [Volumes -> Seq(Inodes)]
    /\ syncq \in [Syncers -> Seq(Inodes)]
    /\ cleanq \in [Balloons -> Seq(Inodes)]
    /\ inuseq \in Seq(Volumes)
    /\ free_enqueue_idx \in 0 .. NumFree - 1
    /\ free_dequeue_idx \in 0 .. NumFree - 1
    /\ sync_queue_idx \in Syncers
    /\ clean_queue_idx \in Balloons
    /\ inode_free_count \in Int
    /\ inode_dirty_count \in Int
    /\ file \in [Volumes -> [Lbns -> Contents]]
    /\ disk \in [Volumes -> [Lbns -> Contents]]
=============================================================================
