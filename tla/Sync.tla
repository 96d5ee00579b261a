-------------------------------- MODULE Sync --------------------------------
(***************************************************************************)
(* The sync threads of nvm0sync.cc: count what is waiting, make the files  *)
(* durable, and turn that many inodes clean, releasing the locks that the  *)
(* flush threads took.                                                     *)
(***************************************************************************)
EXTENDS NVM

VARIABLE s      \* the local variables of each sync thread

SyncerSteps == {"idle", "sync", "clean", "enqueue", "unlock"}

SyncerIdle == [pc |-> "idle", n |-> 0, idx |-> NoInode]

InitSync == s = [k \in Syncers |-> SyncerIdle]

\* sync_thread_func and the head of nvm_sync: only this thread dequeues here,
\* so the size can only grow between the two calls of get_size.
SyncCount(k) ==
    /\ s[k].pc = "idle"
    /\ Len(syncq[k]) >= SyncLwm
    /\ s' = [s EXCEPT ![k].pc = "sync", ![k].n = Len(syncq[k])]
    /\ UNCHANGED shared

\* sync(2)
SyncFiles(k) ==
    /\ s[k].pc = "sync"
    /\ disk' = file
    /\ s' = [s EXCEPT ![k].pc = "clean"]
    /\ UNCHANGED <<inodeTable, vblock, data, node, queues, indices, counts, file>>

SyncClean(k) ==
    LET i == Head(syncq[k]) IN
    /\ s[k].pc = "clean"
    /\ syncq[k] # <<>>
    /\ syncq' = Dequeue(syncq, k)
    /\ istate' = [istate EXCEPT ![i] = "CLEAN"]
    /\ s' = [s EXCEPT ![k].pc = "enqueue", ![k].idx = i]
    /\ UNCHANGED <<ilbn, ivol, iblock, ilock, vblock, data, node, freeq, dirtyq, cleanq, inuseq,
                   indices, counts, storage>>

SyncEnqueue(k) ==
    /\ s[k].pc = "enqueue"
    /\ cleanq' = Enqueue(cleanq, clean_queue_idx, s[k].idx)
    /\ clean_queue_idx' = Advance(clean_queue_idx, NumBalloons)
    /\ s' = [s EXCEPT ![k].pc = "unlock"]
    /\ UNCHANGED <<inodeTable, vblock, data, node, freeq, dirtyq, syncq, inuseq,
                   free_enqueue_idx, free_dequeue_idx, sync_queue_idx, counts, storage>>

\* A plausible bug: the queue is drained, whatever was counted before sync().
SyncUnlock_Drains(k) ==
    /\ s[k].pc = "unlock"
    /\ Enqueued(cleanq, s[k].idx)
    /\ ilock' = [ilock EXCEPT ![s[k].idx] = FALSE]
    /\ s' = [s EXCEPT ![k] = IF syncq[k] # <<>>
                             THEN [pc |-> "clean", n |-> 1, idx |-> NoInode]
                             ELSE SyncerIdle]
    /\ UNCHANGED <<istate, ilbn, ivol, iblock, vblock, data, node, queues, indices, counts,
                   storage>>

\* A plausible bug: the lock that the flusher took is not released.
SyncUnlock_Forgotten(k) ==
    /\ s[k].pc = "unlock"
    /\ Enqueued(cleanq, s[k].idx)
    /\ s' = [s EXCEPT ![k] = IF s[k].n > 1
                             THEN [pc |-> "clean", n |-> s[k].n - 1, idx |-> NoInode]
                             ELSE SyncerIdle]
    /\ UNCHANGED shared

\* The enqueue has to return first: nobody takes an element of a full ring but
\* the balloon that it belongs to.
SyncUnlock(k) ==
    /\ s[k].pc = "unlock"
    /\ Enqueued(cleanq, s[k].idx)
    /\ ilock' = [ilock EXCEPT ![s[k].idx] = FALSE]
    /\ s' = [s EXCEPT ![k] = IF s[k].n > 1
                             THEN [pc |-> "clean", n |-> s[k].n - 1, idx |-> NoInode]
                             ELSE SyncerIdle]
    /\ UNCHANGED <<istate, ilbn, ivol, iblock, vblock, data, node, queues, indices, counts,
                   storage>>

SyncStep(k) ==
    \/ SyncCount(k) \/ SyncFiles(k) \/ SyncClean(k) \/ SyncEnqueue(k) \/ SyncUnlock(k)

SyncTypeOK ==
    s \in [Syncers -> [pc : SyncerSteps, n : Nat, idx : Inodes \cup {NoInode}]]
=============================================================================
