---------------------------- MODULE SystemClose ----------------------------
(***************************************************************************)
(* nvm_system_close of nvm0nvm.cc on top of the running burst buffer: set  *)
(* sys_terminate, join the background threads, write what is still dirty   *)
(* to the files, sync, call every inode clean and close the volumes.       *)
(*                                                                         *)
(* "no user should be calling/running nvm_write at this point"             *)
(* (nvm0nvm.cc 229): the writers are between two calls and stay there.     *)
(***************************************************************************)
EXTENDS BurstBuffer

VARIABLES
    sys_terminate,
    inside,     \* threads that start another round without a test of sys_terminate
    gone,       \* threads that have returned
    c           \* where nvm_system_close is

closeVars == <<sys_terminate, inside, gone, c>>
allVars == <<shared, writerVars, f, s, b, closeVars>>

\* Each background thread, with the loop it runs.
FlushThread(t) == <<"flush", t>>
SyncThread(k) == <<"sync", k>>
ReclaimThread(k) == <<"balloon", k>>

FlushThreads == {FlushThread(t) : t \in Flushers}
SyncThreads == {SyncThread(k) : k \in Syncers}
ReclaimThreads == {ReclaimThread(k) : k \in Balloons}
BackgroundThreads == FlushThreads \cup SyncThreads \cup ReclaimThreads

\* At the head of its loop.
AtLoopHead(x) ==
    \/ \E t \in Flushers : x = FlushThread(t) /\ f[t].pc = "idle"
    \/ \E k \in Syncers : x = SyncThread(k) /\ s[k].pc = "idle"
    \/ \E k \in Balloons : x = ReclaimThread(k) /\ b[k].pc = "idle"

CloseInit ==
    /\ Init
    /\ sys_terminate = FALSE
    /\ inside = {}
    /\ gone = {}
    /\ c = "open"

\* In the loop of fill_free_inodes, with an inode in hand.
Reclaiming == {ReclaimThread(k) : k \in {x \in Balloons : b[x].pc # "idle"}}

\* sys_terminate = 1.  Any of the threads at the head of its loop may just
\* have read 0, and a balloon that has an inode in hand looks at its queue next.
CloseStart ==
    /\ c = "open"
    /\ \A v \in Volumes : At(v, "idle")
    /\ sys_terminate' = TRUE
    /\ \E read \in SUBSET {x \in BackgroundThreads : AtLoopHead(x)} :
          inside' = read \cup Reclaiming
    /\ c' = "join"
    /\ UNCHANGED <<shared, writerVars, f, s, b, gone>>

\* The thread is in the middle of a round, or goes into another one.
MayRun(x) == x \notin gone /\ (AtLoopHead(x) => x \in inside)

LastFlush(t) ==
    /\ sys_terminate
    /\ MayRun(FlushThread(t))
    /\ Flusher(t)
    /\ inside' = inside \ {FlushThread(t)}
    /\ UNCHANGED <<sys_terminate, gone, c>>

LastSync(k) ==
    /\ sys_terminate
    /\ MayRun(SyncThread(k))
    /\ Syncer(k)
    /\ inside' = inside \ {SyncThread(k)}
    /\ UNCHANGED <<sys_terminate, gone, c>>

\* fill_free_inodes does not look at sys_terminate until its queue is empty.
LastBalloon(k) ==
    /\ sys_terminate
    /\ MayRun(ReclaimThread(k))
    /\ BalloonThread(k)
    /\ UNCHANGED closeVars

\* A plausible bug: a flush thread returns only when there is nothing to flush.
ThreadReturns_WaitsForWork(x) ==
    /\ sys_terminate
    /\ x \notin gone
    /\ AtLoopHead(x)
    /\ \A k \in Balloons : x = ReclaimThread(k) /\ x \in inside => cleanq[k] = <<>>
    /\ x \in FlushThreads => inode_dirty_count = 0
    /\ gone' = gone \cup {x}
    /\ inside' = inside \ {x}
    /\ UNCHANGED <<shared, writerVars, f, s, b, sys_terminate, c>>

\* The thread finds sys_terminate set, and returns; a balloon inside
\* fill_free_inodes only when it has emptied its queue.
ThreadReturns(x) ==
    /\ sys_terminate
    /\ x \notin gone
    /\ AtLoopHead(x)
    /\ \A k \in Balloons : x = ReclaimThread(k) /\ x \in inside => cleanq[k] = <<>>
    /\ gone' = gone \cup {x}
    /\ inside' = inside \ {x}
    /\ UNCHANGED <<shared, writerVars, f, s, b, sys_terminate, c>>

\* A plausible bug: the flush threads are not waited for.
JoinThreads_NotFlush ==
    /\ c = "join"
    /\ SyncThreads \cup ReclaimThreads \subseteq gone
    /\ c' = "drain"
    /\ UNCHANGED <<shared, writerVars, f, s, b, sys_terminate, inside, gone>>

\* pthread_join of every thread.
JoinThreads ==
    /\ c = "join"
    /\ BackgroundThreads \subseteq gone
    /\ c' = "drain"
    /\ UNCHANGED <<shared, writerVars, f, s, b, sys_terminate, inside, gone>>

\* A plausible bug: the inodes are called clean before they are written.
DrainOne_CleanFirst(v) ==
    LET i == Head(dirtyq[v]) IN
    /\ c = "drain"
    /\ dirtyq[v] # <<>>
    /\ dirtyq' = Dequeue(dirtyq, v)
    /\ istate' = [istate EXCEPT ![i] = "CLEAN"]
    /\ file' = [file EXCEPT ![ivol[i]][ilbn[i]] = data[iblock[i]]]
    /\ UNCHANGED <<ilbn, ivol, iblock, ilock, vblock, data, node, freeq, syncq, cleanq, inuseq,
                   indices, counts, disk, writerVars, f, s, b, closeVars>>

\* Write one of the remaining dirty blocks to its file.
DrainOne(v) ==
    LET i == Head(dirtyq[v]) IN
    /\ c = "drain"
    /\ dirtyq[v] # <<>>
    /\ \A u \in Volumes : u < v => dirtyq[u] = <<>>
    /\ dirtyq' = Dequeue(dirtyq, v)
    /\ file' = [file EXCEPT ![ivol[i]][ilbn[i]] = data[iblock[i]]]
    /\ UNCHANGED <<inodeTable, vblock, data, node, freeq, syncq, cleanq, inuseq, indices,
                   counts, disk, writerVars, f, s, b, closeVars>>

\* A plausible bug: the last dirty block of a volume is left, as nvm_flush does.
SyncAll_LeavesLast ==
    /\ c = "drain"
    /\ \A v \in Volumes : Len(dirtyq[v]) <= 1
    /\ disk' = file
    /\ c' = "clean"
    /\ UNCHANGED <<inodeTable, vblock, data, node, queues, indices, counts, file, writerVars,
                   f, s, b, sys_terminate, inside, gone>>

SyncAll ==
    /\ c = "drain"
    /\ \A v \in Volumes : dirtyq[v] = <<>>
    /\ disk' = file
    /\ c' = "clean"
    /\ UNCHANGED <<inodeTable, vblock, data, node, queues, indices, counts, file, writerVars,
                   f, s, b, sys_terminate, inside, gone>>

MarkClean ==
    /\ c = "clean"
    /\ istate' = [i \in Inodes |-> IF istate[i] \in {"DIRTY", "SYNC"} THEN "CLEAN"
                                   ELSE istate[i]]
    /\ c' = "volumes"
    /\ UNCHANGED <<ilbn, ivol, iblock, ilock, vblock, data, node, queues, indices, counts,
                   storage, writerVars, f, s, b, sys_terminate, inside, gone>>

CloseVolume ==
    /\ c = "volumes"
    /\ inuseq # <<>>
    /\ inuseq' = Tail(inuseq)
    /\ UNCHANGED <<inodeTable, vblock, data, node, freeq, dirtyq, syncq, cleanq, indices,
                   counts, storage, writerVars, f, s, b, closeVars>>

CloseReturns ==
    /\ c = "volumes"
    /\ inuseq = <<>>
    /\ c' = "closed"
    /\ UNCHANGED <<shared, writerVars, f, s, b, sys_terminate, inside, gone>>

nvm_system_close ==
    \/ CloseStart \/ JoinThreads \/ SyncAll \/ MarkClean \/ CloseVolume \/ CloseReturns
    \/ \E v \in Volumes : DrainOne(v)

CloseNext ==
    \/ ~ sys_terminate /\ Next /\ UNCHANGED closeVars
    \/ \E t \in Flushers : LastFlush(t)
    \/ \E k \in Syncers : LastSync(k)
    \/ \E k \in Balloons : LastBalloon(k)
    \/ \E x \in BackgroundThreads : ThreadReturns(x)
    \/ nvm_system_close

(***************************************************************************)
(* The threads and nvm_system_close itself keep running; nothing obliges   *)
(* the program to call it.                                                 *)
(***************************************************************************)
CloseFairness ==
    /\ \A t \in Flushers : WF_allVars(LastFlush(t) \/ ThreadReturns(FlushThread(t)))
    /\ \A k \in Syncers : WF_allVars(LastSync(k) \/ ThreadReturns(SyncThread(k)))
    /\ \A k \in Balloons : WF_allVars(LastBalloon(k) \/ ThreadReturns(ReclaimThread(k)))
    /\ WF_allVars(sys_terminate /\ nvm_system_close)

CloseSpec == CloseInit /\ [][CloseNext]_allVars /\ CloseFairness
-----------------------------------------------------------------------------
\* What nvm_system_close has synced is everything that was ever written: no
\* dirty inode is left in the hands of a thread that has returned, and none
\* is overtaken by an older content of its block.
CloseIsDurable ==
    c \in {"clean", "volumes", "closed"} =>
        \A v \in Volumes : \A l \in Lbns : disk[v][l] = Content(v, l, acked[v][l])

\* Every volume is back in volume_inuse_lfqueue when the files are closed
\* (nvm0nvm.cc 308-314), once: no flush thread returned with one.
CloseFindsVolumes ==
    c = "clean" => /\ Len(inuseq) = NumVolumes
                   /\ \A v \in Volumes : \E n \in DOMAIN inuseq : inuseq[n] = v

\* A sync thread waits for an element of a full clean queue, whose balloon has
\* returned.
Abandoned(k) ==
    /\ s[k].pc = "unlock"
    /\ \E q \in Balloons : \E n \in DOMAIN cleanq[q] :
          ReclaimThread(q) \in gone /\ cleanq[q][n] = s[k].idx /\ n > NumInodes

\* Nothing else keeps nvm_system_close from returning (nvm0nvm.cc 249-265): no
\* thread it joins is left waiting on an empty queue that nobody fills any more,
\* nor on a lock, although no queue is ever close()d.
OnlyAFullQueueHangsClose == c = "join" ~> c = "closed" \/ \E k \in Syncers : Abandoned(k)
=============================================================================
