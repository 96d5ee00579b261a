------------------------------ MODULE Balloon ------------------------------
(***************************************************************************)
(* The balloon threads of nvm0balloon.cc: take clean inodes away from      *)
(* their blocks and return them to the free queues.                        *)
(***************************************************************************)
EXTENDS NVM

VARIABLE b      \* the local variables of each balloon thread

BalloonSteps == {"idle", "state", "search", "trylock", "check", "delete", "free", "enqueue",
                 "unlock", "fault"}

\* The hash node is known by its volume and logical block.
BalloonIdle == [pc |-> "idle", idx |-> NoInode, vol |-> 0, lbn |-> 0]

InitBalloon == b = [k \in Balloons |-> BalloonIdle]

HashNode(k) == node[b[k].vol][b[k].lbn]

\* fill_free_inodes: only this thread dequeues from its queue, so is_empty is
\* still false at the dequeue.
BalloonDequeue(k) ==
    /\ b[k].pc = "idle"
    /\ cleanq[k] # <<>>
    /\ cleanq' = Dequeue(cleanq, k)
    /\ b' = [b EXCEPT ![k].pc = "state", ![k].idx = Head(cleanq[k])]
    /\ UNCHANGED <<inodeTable, vblock, data, node, freeq, dirtyq, syncq, inuseq, indices,
                   counts, storage>>

\* An inode written again since it was queued is skipped.
BalloonState(k) ==
    /\ b[k].pc = "state"
    /\ b' = [b EXCEPT ![k] = IF istate[b[k].idx] = "CLEAN"
                             THEN [@ EXCEPT !.pc = "search"]
                             ELSE BalloonIdle]
    /\ UNCHANGED shared

\* search_hash_node, in the hash table that the inode belongs to by now.  A
\* node that is not there is a null pointer, whose mutex is tried next.
BalloonSearch(k) ==
    LET v == ivol[b[k].idx]
        l == ilbn[b[k].idx]
    IN
    /\ b[k].pc = "search"
    /\ b' = [b EXCEPT ![k].pc = IF node[v][l].exists THEN "trylock" ELSE "fault",
                      ![k].vol = v, ![k].lbn = l]
    /\ UNCHANGED shared

\* try_lock_hash_node: a locked node is left to the writer that holds it.
BalloonTryLock(k) ==
    /\ b[k].pc = "trylock"
    /\ \/ /\ HashNode(k).mutex
          /\ b' = [b EXCEPT ![k] = BalloonIdle]
          /\ node' = node
       \/ /\ ~ HashNode(k).mutex
          /\ b' = [b EXCEPT ![k].pc = "check"]
          /\ node' = [node EXCEPT ![b[k].vol][b[k].lbn].mutex = TRUE]
    /\ UNCHANGED <<inodeTable, vblock, data, queues, indices, counts, storage>>

\* A plausible bug: the state is not looked at again once the node is locked.
BalloonCheck_Trusting(k) ==
    /\ b[k].pc = "check"
    /\ b' = [b EXCEPT ![k].pc = "delete"]
    /\ UNCHANGED shared

\* The node's inode may have become dirty before the lock.  A node without an
\* inode is a null pointer here, and the process dies.
BalloonCheck(k) ==
    LET i == HashNode(k).inode IN
    /\ b[k].pc = "check"
    /\ \/ /\ i = NoInode
          /\ b' = [b EXCEPT ![k].pc = "fault"]
          /\ node' = node
       \/ /\ i # NoInode
          /\ istate[i] # "CLEAN"
          /\ b' = [b EXCEPT ![k] = BalloonIdle]
          /\ node' = [node EXCEPT ![b[k].vol][b[k].lbn].mutex = FALSE]
       \/ /\ i # NoInode
          /\ istate[i] = "CLEAN"
          /\ b' = [b EXCEPT ![k].pc = "delete"]
          /\ node' = node
    /\ UNCHANGED <<inodeTable, vblock, data, queues, indices, counts, storage>>

BalloonDelete(k) ==
    /\ b[k].pc = "delete"
    /\ node' = [node EXCEPT ![b[k].vol][b[k].lbn] = logical_delete_hash_node(@)]
    /\ b' = [b EXCEPT ![k].pc = "free"]
    /\ UNCHANGED <<inodeTable, vblock, data, queues, indices, counts, storage>>

\* A plausible bug: the freed inode is not counted.
BalloonFree_Uncounted(k) ==
    /\ b[k].pc = "free"
    /\ istate' = [istate EXCEPT ![b[k].idx] = "FREE"]
    /\ b' = [b EXCEPT ![k].pc = "enqueue"]
    /\ UNCHANGED <<ilbn, ivol, iblock, ilock, vblock, data, node, queues, indices, counts,
                   storage>>

BalloonFree(k) ==
    /\ b[k].pc = "free"
    /\ istate' = [istate EXCEPT ![b[k].idx] = "FREE"]
    /\ inode_free_count' = inode_free_count + 1
    /\ b' = [b EXCEPT ![k].pc = "enqueue"]
    /\ UNCHANGED <<ilbn, ivol, iblock, ilock, vblock, data, node, queues, indices,
                   inode_dirty_count, storage>>

BalloonEnqueue(k) ==
    /\ b[k].pc = "enqueue"
    /\ freeq' = Enqueue(freeq, free_enqueue_idx, b[k].idx)
    /\ free_enqueue_idx' = Advance(free_enqueue_idx, NumFree)
    /\ b' = [b EXCEPT ![k].pc = "unlock"]
    /\ UNCHANGED <<inodeTable, vblock, data, node, dirtyq, syncq, cleanq, inuseq,
                   free_dequeue_idx, sync_queue_idx, clean_queue_idx, counts, storage>>

BalloonUnlock(k) ==
    /\ b[k].pc = "unlock"
    /\ node' = [node EXCEPT ![b[k].vol][b[k].lbn].mutex = FALSE]
    /\ b' = [b EXCEPT ![k] = BalloonIdle]
    /\ UNCHANGED <<inodeTable, vblock, data, queues, indices, counts, storage>>

BalloonStep(k) ==
    \/ BalloonDequeue(k) \/ BalloonState(k) \/ BalloonSearch(k) \/ BalloonTryLock(k)
    \/ BalloonCheck(k) \/ BalloonDelete(k) \/ BalloonFree(k) \/ BalloonEnqueue(k)
    \/ BalloonUnlock(k)

BalloonTypeOK ==
    b \in [Balloons -> [pc : BalloonSteps, idx : Inodes \cup {NoInode}, vol : Volumes,
                        lbn : Lbns]]
=============================================================================
