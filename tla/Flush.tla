------------------------------- MODULE Flush -------------------------------
(***************************************************************************)
(* The flush threads of nvm0flush.cc: take a volume out of use, lock and   *)
(* dequeue a batch of its dirty inodes, write their blocks to the file,    *)
(* hand them to the sync queues with their locks still held, and give the  *)
(* volume back.                                                            *)
(***************************************************************************)
EXTENDS NVM

VARIABLE f      \* the local variables of each flush thread

FlusherSteps == {"idle", "take", "size", "collect", "requeue", "write", "hand_off",
                 "give_back"}

\* batch is i_idxs[indexToWrite .. i-1]; run is what is left of batch_count.
FlusherIdle ==
    [pc |-> "idle", v_idx |-> 0, num |-> 0, write_size |-> 0, batch |-> <<>>, run |-> 0,
     failed |-> NoInode]

InitFlush == f = [t \in Flushers |-> FlusherIdle]

(***************************************************************************)
(* flush_thread_func                                                       *)
(***************************************************************************)
FlushCheck(t) ==
    /\ f[t].pc = "idle"
    /\ inode_dirty_count >= FlushLwm
    /\ inuseq # <<>>
    /\ f' = [f EXCEPT ![t].pc = "take"]
    /\ UNCHANGED shared

FlushTake(t) ==
    /\ f[t].pc = "take"
    /\ inuseq # <<>>
    /\ inuseq' = Tail(inuseq)
    /\ f' = [f EXCEPT ![t].pc = "size", ![t].v_idx = Head(inuseq)]
    /\ UNCHANGED <<inodeTable, vblock, data, node, freeq, dirtyq, syncq, cleanq, indices,
                   counts, storage>>

\* The last dirty inode of a volume is left alone.  The size is read again at
\* the head of nvm_flush; no other thread dequeues from this volume meanwhile.
FlushSize(t) ==
    LET n == Len(dirtyq[f[t].v_idx]) IN
    /\ f[t].pc = "size"
    /\ f' = [f EXCEPT ![t] =
               IF n > 1
               THEN [@ EXCEPT !.pc = "collect", !.num = n - 1,
                              !.write_size = IF n - 1 >= FlushBatch THEN FlushBatch ELSE n - 1]
               ELSE [@ EXCEPT !.pc = "give_back"]]
    /\ UNCHANGED shared

(***************************************************************************)
(* nvm_flush                                                               *)
(***************************************************************************)

\* Dequeue an inode; pthread_mutex_trylock succeeds, or the inode goes back.
FlushCollect(t) ==
    LET v == f[t].v_idx
        i == Head(dirtyq[v])
    IN
    /\ f[t].pc = "collect"
    /\ Len(f[t].batch) < f[t].write_size
    /\ dirtyq[v] # <<>>
    /\ dirtyq' = Dequeue(dirtyq, v)
    /\ \/ /\ ~ ilock[i]
          /\ ilock' = [ilock EXCEPT ![i] = TRUE]
          /\ f' = [f EXCEPT ![t].batch = Append(@, i)]
       \/ /\ ilock[i]
          /\ f' = [f EXCEPT ![t].pc = "requeue", ![t].failed = i]
          /\ ilock' = ilock
    /\ UNCHANGED <<istate, ilbn, ivol, iblock, vblock, data, node, freeq, syncq, cleanq,
                   inuseq, indices, counts, storage>>

\* A plausible bug: an inode whose lock was taken is not put back.
FlushRequeue_Dropped(t) ==
    /\ f[t].pc = "requeue"
    /\ f' = [f EXCEPT ![t] =
               [@ EXCEPT !.pc = "collect", !.failed = NoInode, !.num = f[t].num - 1,
                         !.write_size = f[t].write_size -
                                          IF f[t].num - 1 < FlushBatch THEN 1 ELSE 0]]
    /\ UNCHANGED shared

FlushRequeue(t) ==
    /\ f[t].pc = "requeue"
    /\ dirtyq' = Enqueue(dirtyq, f[t].v_idx, f[t].failed)
    /\ f' = [f EXCEPT ![t] =
               [@ EXCEPT !.pc = "collect", !.failed = NoInode, !.num = f[t].num - 1,
                         !.write_size = f[t].write_size -
                                          IF f[t].num - 1 < FlushBatch THEN 1 ELSE 0]]
    /\ UNCHANGED <<inodeTable, vblock, data, node, freeq, syncq, cleanq, inuseq, indices,
                   counts, storage>>

FlushCollected(t) ==
    /\ f[t].pc = "collect"
    /\ Len(f[t].batch) >= f[t].write_size
    /\ f' = [f EXCEPT ![t].pc = IF f[t].batch = <<>> THEN "give_back" ELSE "write"]
    /\ UNCHANGED shared

\* The batch begins with n inodes of consecutive logical blocks.
Consecutive(batch, n) ==
    /\ n \in 1 .. Len(batch)
    /\ \A k \in 1 .. n - 1 : ilbn[batch[k + 1]] = ilbn[batch[k]] + 1

\* Look ahead for the longest run and write it with one pwritev, at the block
\* of its first inode.  get_filesize, whose result is not used, and pwritev end
\* the process when they fail, which is a crash.
FlushWrite(t) ==
    LET batch == f[t].batch
        start == Head(batch)
        n == CHOOSE m \in 1 .. Len(batch) :
                /\ Consecutive(batch, m)
                /\ ~ Consecutive(batch, m + 1)
    IN
    /\ f[t].pc = "write"
    /\ file' = [file EXCEPT ![ivol[start]] =
                  [l \in Lbns |->
                     IF l - ilbn[start] \in 0 .. n - 1
                     THEN data[iblock[batch[l - ilbn[start] + 1]]]
                     ELSE @[l]]]
    /\ f' = [f EXCEPT ![t].pc = "hand_off", ![t].run = n]
    /\ UNCHANGED <<inodeTable, vblock, data, node, queues, indices, counts, disk>>

\* A plausible bug: the inode is called clean when the write has returned.
FlushHandOff_Clean(t) ==
    LET i == Head(f[t].batch)
        rest == Tail(f[t].batch)
    IN
    /\ f[t].pc = "hand_off"
    /\ inode_dirty_count' = inode_dirty_count - 1
    /\ istate' = [istate EXCEPT ![i] = "CLEAN"]
    /\ syncq' = Enqueue(syncq, sync_queue_idx, i)
    /\ sync_queue_idx' = Advance(sync_queue_idx, NumSyncers)
    /\ f' = [f EXCEPT ![t] =
               [@ EXCEPT !.batch = rest, !.run = f[t].run - 1,
                         !.pc = IF f[t].run > 1 THEN "hand_off"
                                ELSE IF rest # <<>> THEN "write" ELSE "give_back"]]
    /\ UNCHANGED <<ilbn, ivol, iblock, ilock, vblock, data, node, freeq, dirtyq, cleanq, inuseq,
                   free_enqueue_idx, free_dequeue_idx, clean_queue_idx, inode_free_count,
                   storage>>

\* Hands off dirty, hands on sync: the inode's lock is held throughout and is
\* not released here.
FlushHandOff(t) ==
    LET i == Head(f[t].batch)
        rest == Tail(f[t].batch)
    IN
    /\ f[t].pc = "hand_off"
    /\ inode_dirty_count' = inode_dirty_count - 1
    /\ istate' = [istate EXCEPT ![i] = "SYNC"]
    /\ syncq' = Enqueue(syncq, sync_queue_idx, i)
    /\ sync_queue_idx' = Advance(sync_queue_idx, NumSyncers)
    /\ f' = [f EXCEPT ![t] =
               [@ EXCEPT !.batch = rest, !.run = f[t].run - 1,
                         !.pc = IF f[t].run > 1 THEN "hand_off"
                                ELSE IF rest # <<>> THEN "write" ELSE "give_back"]]
    /\ UNCHANGED <<ilbn, ivol, iblock, ilock, vblock, data, node, freeq, dirtyq, cleanq, inuseq,
                   free_enqueue_idx, free_dequeue_idx, clean_queue_idx, inode_free_count,
                   storage>>

FlushGiveBack(t) ==
    /\ f[t].pc = "give_back"
    /\ inuseq' = Append(inuseq, f[t].v_idx)
    /\ f' = [f EXCEPT ![t] = FlusherIdle]
    /\ UNCHANGED <<inodeTable, vblock, data, node, freeq, dirtyq, syncq, cleanq, indices,
                   counts, storage>>

FlushStep(t) ==
    \/ FlushCheck(t) \/ FlushTake(t) \/ FlushSize(t) \/ FlushCollect(t) \/ FlushRequeue(t)
    \/ FlushCollected(t) \/ FlushWrite(t) \/ FlushHandOff(t) \/ FlushGiveBack(t)

FlushTypeOK ==
    f \in [Flushers -> [pc : FlusherSteps, v_idx : Volumes, num : Int, write_size : Int,
                        batch : Seq(Inodes), run : Nat, failed : Inodes \cup {NoInode}]]
=============================================================================
