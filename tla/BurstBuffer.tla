---------------------------- MODULE BurstBuffer ----------------------------
(***************************************************************************)
(* The running system: a writer per volume, the flush, sync and balloon    *)
(* threads, interleaved at every access to shared state.                   *)
(***************************************************************************)
EXTENDS DurableWrite, Flush, Sync, Balloon

vars == <<shared, writerVars, f, s, b>>

Init == InitShared /\ InitWriter /\ InitFlush /\ InitSync /\ InitBalloon

\* A null pointer dereference ends the process, and with it every thread.
Alive == \A k \in Balloons : b[k].pc # "fault"

Call(v) == \E first, last \in Lbns : WriteStart(v, first, last)

Writer(v) == Alive /\ (Call(v) \/ WriteStep(v)) /\ UNCHANGED <<f, s, b>>
Flusher(t) == Alive /\ FlushStep(t) /\ UNCHANGED <<writerVars, s, b>>
Syncer(k) == Alive /\ SyncStep(k) /\ UNCHANGED <<writerVars, f, b>>
BalloonThread(k) == Alive /\ BalloonStep(k) /\ UNCHANGED <<writerVars, f, s>>

Next ==
    \/ \E v \in Volumes : Writer(v)
    \/ \E t \in Flushers : Flusher(t)
    \/ \E k \in Syncers : Syncer(k)
    \/ \E k \in Balloons : BalloonThread(k)

Spec == Init /\ [][Next]_vars

(***************************************************************************)
(* Every thread keeps running.  Nothing obliges a client to call.          *)
(***************************************************************************)
Fairness ==
    /\ \A v \in Volumes : WF_vars(WriteStep(v) /\ UNCHANGED <<f, s, b>>)
    /\ \A t \in Flushers : WF_vars(Flusher(t))
    /\ \A k \in Syncers : WF_vars(Syncer(k))
    /\ \A k \in Balloons : WF_vars(BalloonThread(k))

FairSpec == Spec /\ Fairness
-----------------------------------------------------------------------------
\* Every variable keeps its type.
TypeOK == SharedTypeOK /\ WriterTypeOK /\ FlushTypeOK /\ SyncTypeOK /\ BalloonTypeOK

(***************************************************************************)
(* Blocks                                                                  *)
(***************************************************************************)

\* The block an inode will have once the exchange in progress is complete
\* (nvm0write.cc 50-51).
BlockOf(i) ==
    IF \E v \in Volumes : At(v, "swap_inode") /\ w[v].idx = i
    THEN w[CHOOSE v \in Volumes : At(v, "swap_inode") /\ w[v].idx = i].ownerless
    ELSE iblock[i]

\* No block of NVM ever belongs to two inodes, to two volumes, or to an inode
\* and a volume, and none is lost: the exchanges of writeDataToNvmBlock
\* permute the blocks.
BlocksArePermuted ==
    /\ {BlockOf(i) : i \in Inodes} \cup {vblock[v] : v \in Volumes} = Blocks
    /\ \A i, j \in Inodes : BlockOf(i) = BlockOf(j) => i = j

\* Writing the new content but not yet reachable through the inode.
Exchanging(v, l) == w[v].lbn = l /\ w[v].pc \in {"copy", "swap_volume", "swap_inode"}

\* The new content is in place, the call has not gone on.
Stored(v, l) ==
    /\ w[v].lbn = l
    /\ w[v].pc \in {"count_dirty", "enqueue_dirty", "unlock_inode", "unlock_node"}

\* A crash at any moment, outside the exchange itself, leaves the last
\* completed write of every block for recovery_start to find: in the block
\* of a dirty or sync inode, or else in the synced file.  Flushing, syncing,
\* ballooning and reuse of the inode never open a gap.
WritesSurviveCrash ==
    \A v \in Volumes : \A l \in Lbns :
        ~ Exchanging(v, l) =>
            Recovered(v, l) = Content(v, l, acked[v][l] + IF Stored(v, l) THEN 1 ELSE 0)

\* "this function guarantees that the data is durably written to the
\* non-volatile space" (nvm0write.cc 145): at every moment a crash leaves
\* the old or the new content of a block that is being written again.
WritesNeverTorn ==
    \A v \in Volumes : \A l \in Lbns :
        Recovered(v, l) \in {Content(v, l, acked[v][l]), Content(v, l, acked[v][l] + 1)}

\* An inode is CLEAN only when the synced file holds what its block holds:
\* nvm_sync counts the queue before it calls sync().
CleanIsDurable ==
    \A i \in Inodes : istate[i] = "CLEAN" => disk[ivol[i]][ilbn[i]] = data[iblock[i]]

(***************************************************************************)
(* Inodes and hash nodes                                                   *)
(***************************************************************************)

\* A balloon has unhooked inode i from its node and not yet marked it FREE.
Unhooking(i) == \E k \in Balloons : b[k].pc = "free" /\ b[k].idx = i

\* An inode in use is the one its block's hash node points to, so no block
\* has two inodes and no inode two blocks.
InUseIsHashed ==
    \A i \in Inodes :
        istate[i] # "FREE" /\ ~ Unhooking(i) =>
            /\ node[ivol[i]][ilbn[i]].valid
            /\ node[ivol[i]][ilbn[i]].inode = i

\* The writer that holds a node's mutex holds a valid node, although the
\* path of a new node does not look again after the lock (line 122); and no
\* balloon follows a null inode (nvm0balloon.cc 105).
NoNullInode ==
    /\ Alive
    /\ \A v \in Volumes :
          At(v, "lock_inode") => Node(v).mutex /\ Node(v).valid /\ Node(v).inode # NoInode

\* "invalidate the node in hash_table, and fill up the inode_free_lfqueue"
\* (nvm0balloon.cc 65-66): the node that a balloon invalidates is the node of
\* the inode that it frees.
FreesWhatItInvalidates ==
    \A k \in Balloons : b[k].pc = "delete" => HashNode(k).inode = b[k].idx

\* How often x occurs in the queues q.
Count(q, x) ==
    Cardinality(UNION {{k} \X {n \in 1 .. Len(q[k]) : q[k][n] = x} : k \in DOMAIN q})

\* Who is about to give a FREE inode a block, or to queue it.
FreeHolders(i) ==
    {v \in Volumes : w[v].idx = i /\ w[v].pc \in {"assign", "insert", "lock_new", "set_dirty"}}
    \cup {v \in Volumes : At(v, "lock_inode") /\ Node(v).inode = i}
    \cup {NumVolumes + k : k \in {x \in Balloons : b[x].idx = i /\ b[x].pc = "enqueue"}}

\* Who is about to queue a DIRTY inode, or to flush it.
DirtyHolders(i) ==
    {v \in Volumes : /\ w[v].idx = i
                     /\ w[v].old_state # "DIRTY"
                     /\ w[v].pc \in {"copy", "swap_volume", "swap_inode", "count_dirty",
                                     "enqueue_dirty"}}
    \cup {NumVolumes + t : t \in {x \in Flushers :
                                    f[x].failed = i \/ \E n \in DOMAIN f[x].batch :
                                                          f[x].batch[n] = i}}

\* Every inode on which work is pending is in exactly one place: a FREE one
\* in a free queue or with the thread that took it out, a DIRTY one in a dirty
\* queue or with a flusher or the writer that made it dirty, a SYNC one in a
\* sync queue.  No retry loses one and no inode is handed out twice.
InOnePlace ==
    \A i \in Inodes :
        /\ IF istate[i] = "FREE"
           THEN Count(freeq, i) + Cardinality(FreeHolders(i)) = 1
           ELSE Count(freeq, i) = 0
        /\ Count(dirtyq, i) + Cardinality(DirtyHolders(i)) =
              (IF istate[i] = "DIRTY" THEN 1 ELSE 0)
        /\ Count(syncq, i) = (IF istate[i] = "SYNC" THEN 1 ELSE 0)

\* The number of entries in a family of queues.
Total(q) == Cardinality(UNION {{k} \X (1 .. Len(q[k])) : k \in DOMAIN q})

\* What the flushers have collected.
Batches == [t \in Flushers |-> f[t].batch]

\* The counters the writers and the flushers steer by differ from the queues
\* only by the inodes in transit: the free count never promises an inode that
\* is neither queued nor about to be, and neither counter runs below zero.
CountersMatchQueues ==
    /\ inode_free_count =
          Total(freeq) + Cardinality({k \in Balloons : b[k].pc = "enqueue"})
                       + Cardinality({v \in Volumes : At(v, "assign")})
    /\ inode_dirty_count =
          Total(dirtyq) + Cardinality({v \in Volumes : At(v, "enqueue_dirty")})
                        + Total(Batches) + Cardinality({t \in Flushers : f[t].failed # NoInode})

\* A CLEAN inode is in a clean queue, or on its way in or out of one, or a
\* writer that holds its node "will make it dirty anyways"
\* (nvm0balloon.cc 100).
CleanIsReclaimable ==
    \A i \in Inodes :
        istate[i] = "CLEAN" =>
            \/ Count(cleanq, i) > 0
            \/ \E k \in Balloons : b[k].idx = i
            \/ \E k \in Syncers : s[k].idx = i /\ s[k].pc = "enqueue"
            \/ \E v \in Volumes : /\ w[v].pc \in {"recheck", "lock_inode", "set_dirty"}
                                  /\ Node(v).inode = i

\* Only clean queues, where an inode that was written again leaves a stale
\* entry behind, can hold more than max_inode_entry entries, the capacity of
\* their rings (nvm0nvm.cc 152-178): no other enqueue has to wait.
OtherQueuesHaveRoom ==
    /\ \A k \in 0 .. NumFree - 1 : Len(freeq[k]) <= NumInodes
    /\ \A v \in Volumes : Len(dirtyq[v]) <= NumInodes
    /\ \A k \in Syncers : Len(syncq[k]) <= NumInodes
    /\ Len(inuseq) <= NumVolumes

(***************************************************************************)
(* Progress                                                                *)
(***************************************************************************)

\* The lock of an inode, which a flusher takes and a syncer releases, is
\* always released.
InodeLocksReleased == \A i \in Inodes : ilock[i] ~> ~ ilock[i]

\* A writer that has the node of its block finishes the block.
LockedWritesFinish ==
    \A v \in Volumes : At(v, "lock_inode") ~> At(v, "unlock_node")

\* The call finds too few inodes in the free queues, or waits on an empty one.
\* The others are empty then too, at least if nvm_system_init dealt each of them
\* the same number: it starts free_enqueue_idx at 0 whatever it dealt last.
NeedsInode(v) ==
    \/ /\ w[v].pc \in {"search", "free_check"}
       /\ ~ isValidNode(Node(v))
       /\ Total(freeq) < FreeMin
    \/ /\ At(v, "dequeue")
       /\ freeq[w[v].free_idx] = <<>>
       /\ NumInodes % NumFree = 0 => Total(freeq) = 0

\* The background threads hold nothing, and find nothing to do in their queues.
OutOfWork ==
    /\ \A t \in Flushers : f[t].batch = <<>> /\ f[t].failed = NoInode
    /\ inode_dirty_count < FlushLwm \/ \A v \in Volumes : Len(dirtyq[v]) <= 1
    /\ \A k \in Syncers : s[k].pc = "idle" /\ Len(syncq[k]) < SyncLwm
    /\ \A k \in Balloons : b[k].pc = "idle" /\ cleanq[k] = <<>>

\* Every call returns, unless the inodes have run out for good: the background
\* threads are out of work, and no call is going on but such as need an inode.
\* No lock, counter or order of the free queues (nvm0write.cc 61-62, 104) keeps
\* a call waiting otherwise.
CallsReturnOrStarve ==
    \A v \in Volumes :
        ~ At(v, "idle") ~> \/ At(v, "idle")
                          \/ /\ OutOfWork
                             /\ NeedsInode(v)
                             /\ \A u \in Volumes : At(u, "idle") \/ NeedsInode(u)
=============================================================================
