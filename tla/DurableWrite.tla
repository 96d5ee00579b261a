---------------------------- MODULE DurableWrite ----------------------------
(***************************************************************************)
(* nvm_durable_write of nvm0write.cc, called by the writer of volume v:    *)
(* one iteration of its loop per logical block.  One action is one access  *)
(* to what other threads can see.                                          *)
(*                                                                         *)
(* A block is written into the ownerless block of the volume, which then   *)
(* changes places with the block of the inode (writeDataToNvmBlock).       *)
(***************************************************************************)
EXTENDS NVM

VARIABLES
    w,          \* the local variables of the writer of each volume
    acked,      \* ghost: how many writes of each block have been completed
    budget      \* bound: how many blocks the volume may still be asked to write

writerVars == <<w, acked, budget>>

WriterSteps ==
    {"idle", "search", "free_check", "take_ticket", "dequeue", "assign", "insert",
     "lock_new", "lock_node", "recheck", "lock_inode", "set_dirty", "copy", "swap_volume",
     "swap_inode", "count_dirty", "enqueue_dirty", "unlock_inode", "unlock_node"}

\* No call in progress: nothing is left of the local variables.
Idle ==
    [pc |-> "idle", lbn |-> 0, lbn_end |-> 0, free_idx |-> 0, idx |-> NoInode,
     old_state |-> "FREE", ownerless |-> 0]

InitWriter ==
    /\ w = [v \in Volumes |-> Idle]
    /\ acked = [v \in Volumes |-> [l \in Lbns |-> 0]]
    /\ budget = [v \in Volumes |-> MaxWrites]

At(v, step) == w[v].pc = step
Node(v) == node[v][w[v].lbn]

\* The content that the writer is storing.
NewContent(v) == Content(v, w[v].lbn, acked[v][w[v].lbn] + 1)

(***************************************************************************)
(* A call for the blocks first .. last.                                    *)
(***************************************************************************)
WriteStart(v, first, last) ==
    /\ At(v, "idle")
    /\ first <= last
    /\ budget[v] > last - first
    /\ budget' = [budget EXCEPT ![v] = @ - (last - first + 1)]
    /\ w' = [w EXCEPT ![v].pc = "search", ![v].lbn = first, ![v].lbn_end = last]
    /\ UNCHANGED <<shared, acked>>

(***************************************************************************)
(* get_hash_node_with_lock                                                 *)
(***************************************************************************)
isValidNode(n) == n.exists /\ n.valid

SearchNode(v) ==
    /\ At(v, "search")
    /\ w' = [w EXCEPT ![v].pc = IF isValidNode(Node(v)) THEN "lock_node" ELSE "free_check"]
    /\ UNCHANGED <<shared, acked, budget>>

isFreeLFQueueEnough == inode_free_count >= FreeMin

\* Too few free inodes: signal the balloons, none of which waits for it, and
\* start over.
FreeCheck(v) ==
    /\ At(v, "free_check")
    /\ w' = [w EXCEPT ![v].pc = IF isFreeLFQueueEnough THEN "take_ticket" ELSE "search"]
    /\ UNCHANGED <<shared, acked, budget>>

\* A plausible bug: a load and a store in place of the fetch_add, so that writers
\* that get here together take the same ticket.
TakeTicket_NotAtomic(v) ==
    /\ At(v, "take_ticket")
    /\ free_dequeue_idx' = IF \E u \in Volumes \ {v} : At(u, "take_ticket")
                           THEN free_dequeue_idx
                           ELSE Advance(free_dequeue_idx, NumFree)
    /\ w' = [w EXCEPT ![v].pc = "dequeue", ![v].free_idx = free_dequeue_idx]
    /\ UNCHANGED <<inodeTable, vblock, data, node, queues, free_enqueue_idx, sync_queue_idx,
                   clean_queue_idx, counts, storage, acked, budget>>

\* getFreeInodeFromFreeLFQueue
TakeTicket(v) ==
    /\ At(v, "take_ticket")
    /\ free_dequeue_idx' = Advance(free_dequeue_idx, NumFree)
    /\ w' = [w EXCEPT ![v].pc = "dequeue", ![v].free_idx = free_dequeue_idx]
    /\ UNCHANGED <<inodeTable, vblock, data, node, queues, free_enqueue_idx, sync_queue_idx,
                   clean_queue_idx, counts, storage, acked, budget>>

DequeueFree(v) ==
    LET k == w[v].free_idx IN
    /\ At(v, "dequeue")
    /\ freeq[k] # <<>>
    /\ freeq' = Dequeue(freeq, k)
    /\ w' = [w EXCEPT ![v].pc = "assign", ![v].idx = Head(freeq[k])]
    /\ UNCHANGED <<inodeTable, vblock, data, node, dirtyq, syncq, cleanq, inuseq, indices,
                   counts, storage, acked, budget>>

AssignInode(v) ==
    /\ At(v, "assign")
    /\ ilbn' = [ilbn EXCEPT ![w[v].idx] = w[v].lbn]
    /\ ivol' = [ivol EXCEPT ![w[v].idx] = v]
    /\ inode_free_count' = inode_free_count - 1
    /\ w' = [w EXCEPT ![v].pc = "insert"]
    /\ UNCHANGED <<istate, iblock, ilock, vblock, data, node, queues, indices,
                   inode_dirty_count, storage, acked, budget>>

\* insert_hash_node for a block that had no node; an invalid node is made valid
\* again without its mutex.
InsertNode(v) ==
    /\ At(v, "insert")
    /\ node' = [node EXCEPT ![v][w[v].lbn] =
                  IF @.exists THEN validate_hash_node(@, w[v].idx)
                              ELSE new_hash_node(w[v].idx)]
    /\ w' = [w EXCEPT ![v].pc = "lock_new"]
    /\ UNCHANGED <<inodeTable, vblock, data, queues, indices, counts, storage, acked, budget>>

\* pthread_mutex_lock of a node just inserted: not looked at again.
LockNewNode(v) ==
    /\ At(v, "lock_new")
    /\ ~ Node(v).mutex
    /\ node' = [node EXCEPT ![v][w[v].lbn].mutex = TRUE]
    /\ w' = [w EXCEPT ![v].pc = "lock_inode"]
    /\ UNCHANGED <<inodeTable, vblock, data, queues, indices, counts, storage, acked, budget>>

LockNode(v) ==
    /\ At(v, "lock_node")
    /\ ~ Node(v).mutex
    /\ node' = [node EXCEPT ![v][w[v].lbn].mutex = TRUE]
    /\ w' = [w EXCEPT ![v].pc = "recheck"]
    /\ UNCHANGED <<inodeTable, vblock, data, queues, indices, counts, storage, acked, budget>>

\* A plausible bug: the node is not looked at again once it is locked.
RecheckNode_Trusting(v) ==
    /\ At(v, "recheck")
    /\ w' = [w EXCEPT ![v].pc = "lock_inode"]
    /\ UNCHANGED <<shared, acked, budget>>

\* A balloon may have invalidated the node just before the lock.
RecheckNode(v) ==
    /\ At(v, "recheck")
    /\ \/ /\ Node(v).valid
          /\ w' = [w EXCEPT ![v].pc = "lock_inode"]
          /\ node' = node
       \/ /\ ~ Node(v).valid
          /\ w' = [w EXCEPT ![v].pc = "search"]
          /\ node' = [node EXCEPT ![v][w[v].lbn].mutex = FALSE]
    /\ UNCHANGED <<inodeTable, vblock, data, queues, indices, counts, storage, acked, budget>>

(***************************************************************************)
(* The body of the loop, with the node locked.                             *)
(***************************************************************************)
LockInode(v) ==
    LET i == Node(v).inode IN
    /\ At(v, "lock_inode")
    /\ i # NoInode
    /\ ~ ilock[i]
    /\ ilock' = [ilock EXCEPT ![i] = TRUE]
    /\ w' = [w EXCEPT ![v].pc = "set_dirty", ![v].idx = i]
    /\ UNCHANGED <<istate, ilbn, ivol, iblock, vblock, data, node, queues, indices, counts,
                   storage, acked, budget>>

SetDirty(v) ==
    /\ At(v, "set_dirty")
    /\ istate' = [istate EXCEPT ![w[v].idx] = "DIRTY"]
    /\ w' = [w EXCEPT ![v].pc = "copy", ![v].old_state = istate[w[v].idx]]
    /\ UNCHANGED <<ilbn, ivol, iblock, ilock, vblock, data, node, queues, indices, counts,
                   storage, acked, budget>>

\* writeDataToNvmBlock: memcpy, then the two halves of the exchange.
CopyToOwnerless(v) ==
    LET b == vblock[ivol[w[v].idx]] IN
    /\ At(v, "copy")
    /\ data' = [data EXCEPT ![b] = NewContent(v)]
    /\ w' = [w EXCEPT ![v].pc = "swap_volume", ![v].ownerless = b]
    /\ UNCHANGED <<inodeTable, vblock, node, queues, indices, counts, storage, acked, budget>>

SwapVolumeBlock(v) ==
    /\ At(v, "swap_volume")
    /\ vblock' = [vblock EXCEPT ![ivol[w[v].idx]] = iblock[w[v].idx]]
    /\ w' = [w EXCEPT ![v].pc = "swap_inode"]
    /\ UNCHANGED <<inodeTable, data, node, queues, indices, counts, storage, acked, budget>>

\* A plausible bug: the inode keeps its old block.
SwapInodeBlock_Forgotten(v) ==
    /\ At(v, "swap_inode")
    /\ w' = [w EXCEPT ![v].pc =
               IF w[v].old_state # "DIRTY" THEN "count_dirty" ELSE "unlock_inode"]
    /\ UNCHANGED <<shared, acked, budget>>

SwapInodeBlock(v) ==
    /\ At(v, "swap_inode")
    /\ iblock' = [iblock EXCEPT ![w[v].idx] = w[v].ownerless]
    /\ w' = [w EXCEPT ![v].pc =
               IF w[v].old_state # "DIRTY" THEN "count_dirty" ELSE "unlock_inode"]
    /\ UNCHANGED <<istate, ilbn, ivol, ilock, vblock, data, node, queues, indices, counts,
                   storage, acked, budget>>

CountDirty(v) ==
    /\ At(v, "count_dirty")
    /\ inode_dirty_count' = inode_dirty_count + 1
    /\ w' = [w EXCEPT ![v].pc = "enqueue_dirty"]
    /\ UNCHANGED <<inodeTable, vblock, data, node, queues, indices, inode_free_count, storage,
                   acked, budget>>

EnqueueDirty(v) ==
    /\ At(v, "enqueue_dirty")
    /\ dirtyq' = Enqueue(dirtyq, v, w[v].idx)
    /\ w' = [w EXCEPT ![v].pc = "unlock_inode"]
    /\ UNCHANGED <<inodeTable, vblock, data, node, freeq, syncq, cleanq, inuseq, indices,
                   counts, storage, acked, budget>>

\* A plausible bug: the inode stays locked.
UnlockInode_Forgotten(v) ==
    /\ At(v, "unlock_inode")
    /\ w' = [w EXCEPT ![v].pc = "unlock_node"]
    /\ UNCHANGED <<shared, acked, budget>>

UnlockInode(v) ==
    /\ At(v, "unlock_inode")
    /\ ilock' = [ilock EXCEPT ![w[v].idx] = FALSE]
    /\ w' = [w EXCEPT ![v].pc = "unlock_node"]
    /\ UNCHANGED <<istate, ilbn, ivol, iblock, vblock, data, node, queues, indices, counts,
                   storage, acked, budget>>

\* The block is written; lbn++ and the loop condition, or the return.
UnlockNode(v) ==
    LET l == w[v].lbn IN
    /\ At(v, "unlock_node")
    /\ node' = [node EXCEPT ![v][l].mutex = FALSE]
    /\ acked' = [acked EXCEPT ![v][l] = @ + 1]
    /\ w' = [w EXCEPT ![v] = IF l < w[v].lbn_end
                             THEN [Idle EXCEPT !.pc = "search", !.lbn = l + 1,
                                               !.lbn_end = w[v].lbn_end]
                             ELSE Idle]
    /\ UNCHANGED <<inodeTable, vblock, data, queues, indices, counts, storage, budget>>

\* The writer goes on with its call.
WriteStep(v) ==
    \/ SearchNode(v) \/ FreeCheck(v) \/ TakeTicket(v) \/ DequeueFree(v) \/ AssignInode(v)
    \/ InsertNode(v) \/ LockNewNode(v) \/ LockNode(v) \/ RecheckNode(v) \/ LockInode(v)
    \/ SetDirty(v) \/ CopyToOwnerless(v) \/ SwapVolumeBlock(v) \/ SwapInodeBlock(v)
    \/ CountDirty(v) \/ EnqueueDirty(v) \/ UnlockInode(v) \/ UnlockNode(v)

WriterTypeOK ==
    /\ w \in [Volumes -> [pc : WriterSteps, lbn : Lbns, lbn_end : Lbns,
                          free_idx : 0 .. NumFree - 1, idx : Inodes \cup {NoInode},
                          old_state : States, ownerless : Blocks]]
    /\ acked \in [Volumes -> [Lbns -> 0 .. MaxWrites]]
    /\ budget \in [Volumes -> 0 .. MaxWrites]
=============================================================================
