------------------------- MODULE SystemCloseProofs -------------------------
(***************************************************************************)
(* nvm_system_close loses nothing, for every number of volumes, blocks,    *)
(* inodes and threads: as long as FreesWhatItInvalidates holds, and always *)
(* with a single balloon (see BurstBufferSafety).                          *)
(*                                                                         *)
(* While the threads run, SafetyInv holds.  When they have all been joined *)
(* each is at the head of its loop, so that every dirty inode is in the    *)
(* queue of its volume and every volume in volume_inuse_lfqueue; from then *)
(* on the invariant only says what the files lack.                         *)
(***************************************************************************)
EXTENDS SystemClose, BurstBufferSafety

\* Everything that was ever written to block l of volume v.
Written(v, l) == Content(v, l, acked[v][l])

\* What the file of a volume lacks is in a dirty inode of its queue.
Draining ==
    /\ dirtyq \in [Volumes -> Seq(Inodes)]
    /\ file \in [Volumes -> [Lbns -> Contents]]
    /\ data \in [Blocks -> Contents] /\ iblock \in [Inodes -> Blocks]
    /\ \A v \in Volumes : \A i \in In(dirtyq[v]) :
          /\ ivol[i] = v /\ ilbn[i] \in Lbns
          /\ data[iblock[i]] = Written(v, ilbn[i])
    /\ \A v \in Volumes, l \in Lbns :
          file[v][l] = Written(v, l) \/ \E i \in In(dirtyq[v]) : ilbn[i] = l

Durable == \A v \in Volumes, l \in Lbns : disk[v][l] = Written(v, l)

\* Every volume is in volume_inuse_lfqueue, once.
Home ==
    /\ inuseq \in Seq(Volumes)
    /\ Once(inuseq)
    /\ \A v \in Volumes : v \in In(inuseq)

Running == c \in {"open", "join"}

CloseInv ==
    /\ sys_terminate \in BOOLEAN
    /\ sys_terminate <=> c # "open"
    /\ sys_terminate => \A v \in Volumes : At(v, "idle")
    /\ \A x \in gone : AtLoopHead(x)
    /\ c = "open" => gone = {}
    /\ ~ Running => BackgroundThreads \subseteq gone
    /\ Running => TypeInv /\ SafetyInv /\ FilesOK
    /\ ~ Running => WritesSurviveCrash /\ acked \in [Volumes -> [Lbns -> Nat]]
    /\ c = "drain" => Draining
    /\ c \in {"drain", "clean"} => Home
    /\ c \in {"clean", "volumes", "closed"} => Durable
    /\ c \in {"open", "join", "drain", "clean", "volumes", "closed"}

\* The threads are told apart.
LEMMA LoopHeads ==
    /\ \A t \in Flushers : AtLoopHead(FlushThread(t)) <=> f[t].pc = "idle"
    /\ \A k \in Syncers : AtLoopHead(SyncThread(k)) <=> s[k].pc = "idle"
    /\ \A k \in Balloons : AtLoopHead(ReclaimThread(k)) <=> b[k].pc = "idle"
BY DEF AtLoopHead, FlushThread, SyncThread, ReclaimThread

\* Whoever is not running has nothing in its hands.
LEMMA AllGone ==
    ASSUME CloseInv, BackgroundThreads \subseteq gone
    PROVE  /\ \A t \in Flushers : f[t].pc = "idle"
           /\ \A k \in Syncers : s[k].pc = "idle"
           /\ \A k \in Balloons : b[k].pc = "idle"
<1>1. \A x \in BackgroundThreads : AtLoopHead(x)
  BY DEF CloseInv
<1>. QED BY <1>1, LoopHeads DEF BackgroundThreads, FlushThreads, SyncThreads, ReclaimThreads

(***************************************************************************)
(* A round of a thread, while the threads run                              *)
(***************************************************************************)

\* A thread that is gone takes no step.
LEMMA GoneStays ==
    ASSUME CloseInv, Running,
           \/ \E t \in Flushers : FlushThread(t) \notin gone /\ Flusher(t)
           \/ \E k \in Syncers : SyncThread(k) \notin gone /\ Syncer(k)
           \/ \E k \in Balloons : ReclaimThread(k) \notin gone /\ BalloonThread(k)
    PROVE  \A x \in gone : AtLoopHead(x)'
<1>0. TypeInv /\ \A x \in gone : AtLoopHead(x)
  BY DEF CloseInv
<1>1. ASSUME NEW t \in Flushers, FlushThread(t) \notin gone, Flusher(t), NEW x \in gone
      PROVE  AtLoopHead(x)'
  <2>1. s' = s /\ b' = b /\ f \in [Flushers -> FlusherRec]
    BY <1>0, <1>1, Types DEF Flusher
  <2>2. \A t2 \in Flushers : t2 # t => f'[t2] = f[t2]
    BY <1>1, <2>1
       DEF Flusher, FlushStep, FlushCheck, FlushTake, FlushSize, FlushCollect, FlushRequeue,
           FlushCollected, FlushWrite, FlushHandOff, FlushGiveBack
  <2>. QED BY <1>0, <1>1, <2>1, <2>2 DEF AtLoopHead
<1>2. ASSUME NEW k \in Syncers, SyncThread(k) \notin gone, Syncer(k), NEW x \in gone
      PROVE  AtLoopHead(x)'
  <2>1. f' = f /\ b' = b /\ s \in [Syncers -> SyncerRec]
    BY <1>0, <1>2, Types DEF Syncer
  <2>2. \A k2 \in Syncers : k2 # k => s'[k2] = s[k2]
    BY <1>2, <2>1
       DEF Syncer, SyncStep, SyncCount, SyncFiles, SyncClean, SyncEnqueue, SyncUnlock
  <2>. QED BY <1>0, <1>2, <2>1, <2>2 DEF AtLoopHead
<1>3. ASSUME NEW k \in Balloons, ReclaimThread(k) \notin gone, BalloonThread(k), NEW x \in gone
      PROVE  AtLoopHead(x)'
  <2>1. f' = f /\ s' = s /\ \A k2 \in Balloons : k2 # k => b'[k2] = b[k2]
    BY <1>0, <1>3, MovesAlone DEF BalloonThread
  <2>. QED BY <1>0, <1>3, <2>1 DEF AtLoopHead
<1>. QED BY <1>1, <1>2, <1>3

\* The invariant of the running system.
LEMMA RunningStep ==
    ASSUME TypeInv, SafetyInv, FilesOK, FreesWhatItInvalidates, [Next]_vars
    PROVE  TypeInv' /\ SafetyInv' /\ FilesOK'
BY TypeStep, SafetyStep, FilesStay

LEMMA ThreadStep ==
    ASSUME CloseInv, Running => FreesWhatItInvalidates,
           \/ \E t \in Flushers : LastFlush(t)
           \/ \E k \in Syncers : LastSync(k)
           \/ \E k \in Balloons : LastBalloon(k)
    PROVE  CloseInv'
<1>1. Running
  <2>1. ~ BackgroundThreads \subseteq gone
    BY DEF LastFlush, LastSync, LastBalloon, MayRun, BackgroundThreads, FlushThreads, SyncThreads,
           ReclaimThreads
  <2>. QED BY <2>1 DEF CloseInv
<1>2. /\ gone' = gone /\ c' = c /\ sys_terminate' = sys_terminate
      /\ Next /\ w' = w
  BY DEF LastFlush, LastSync, LastBalloon, closeVars, Next, Flusher, Syncer, BalloonThread,
         writerVars
<1>3. \A x \in gone : AtLoopHead(x)'
  BY <1>1, GoneStays DEF LastFlush, LastSync, LastBalloon, MayRun
<1>4. TypeInv' /\ SafetyInv' /\ FilesOK'
  BY <1>1, <1>2, RunningStep DEF CloseInv
<1>5. Running'
  BY <1>1, <1>2 DEF Running
<1>. QED BY <1>1, <1>2, <1>3, <1>4, <1>5 DEF CloseInv, Running, At

(***************************************************************************)
(* nvm_system_close                                                        *)
(***************************************************************************)

\* When every thread is joined, what is not in a file is in a dirty queue.
LEMMA JoinedDrains ==
    ASSUME TypeInv, SafetyInv, FilesOK, \A v \in Volumes : At(v, "idle"),
           \A t \in Flushers : f[t].pc = "idle"
    PROVE  Draining /\ Home
<1>1. /\ dirtyq \in [Volumes -> Seq(Inodes)] /\ file \in [Volumes -> [Lbns -> Contents]]
      /\ inuseq \in Seq(Volumes)
      /\ data \in [Blocks -> Contents] /\ iblock \in [Inodes -> Blocks]
  BY DEF TypeInv, TypeOK, SharedTypeOK
<1>2. \A v \in Volumes, l \in Lbns : ~ Exchanging(v, l) /\ Latest(v, l) = Written(v, l)
  <2>1. ASSUME NEW v \in Volumes, NEW l \in Lbns
        PROVE  ~ Exchanging(v, l) /\ Latest(v, l) = Written(v, l)
    <3>1. ~ Exchanging(v, l) /\ ~ Stored(v, l)
      BY DEF At, Exchanging, Stored
    <3>2. acked[v][l] + 0 = acked[v][l]
      BY DEF TypeInv, TypeOK, WriterTypeOK
    <3>. QED BY <3>1, <3>2 DEF Latest, Written
  <2>. QED BY <2>1
<1>3. ASSUME NEW i \in Inodes, istate[i] # "FREE"
      PROVE  /\ ivol[i] \in Volumes /\ ilbn[i] \in Lbns
             /\ data[iblock[i]] = Written(ivol[i], ilbn[i])
  <2>1. ivol[i] \in Volumes /\ ilbn[i] \in Lbns
    BY Types
  <2>. QED BY <1>2, <1>3, <2>1 DEF SafetyInv, ContentsOK, InodeHolds
<1>4. ASSUME NEW v \in Volumes, NEW i \in In(dirtyq[v])
      PROVE  /\ ivol[i] = v /\ ilbn[i] \in Lbns
             /\ data[iblock[i]] = Written(v, ilbn[i])
  <2>1. i \in Inodes /\ istate[i] = "DIRTY" /\ ivol[i] = v
    BY <1>1, InType DEF SafetyInv, DirtyOK, DirtyQueueOK
  <2>. QED BY <1>3, <2>1
<1>5. ASSUME NEW v \in Volumes, NEW l \in Lbns, file[v][l] # Written(v, l)
      PROVE  \E i \in In(dirtyq[v]) : ilbn[i] = l
  <2>1. Pending(v, l) # {}
    BY <1>2, <1>5 DEF FilesOK, FileHolds
  <2>2. PICK i \in Inodes : istate[i] \in {"DIRTY", "SYNC"} /\ ivol[i] = v /\ ilbn[i] = l
    BY <2>1 DEF Pending
  <2>3. CASE istate[i] = "SYNC"
    BY <1>3, <1>5, <2>2, <2>3 DEF SafetyInv, FreshOK, Filed
  <2>4. CASE istate[i] = "DIRTY"
    <3>1. ASSUME NEW t \in Flushers PROVE f[t].failed # i /\ i \notin In(f[t].batch)
      <4>1. FlusherSafe(t) /\ f[t].pc = "idle"
        BY DEF SafetyInv, FlushersOK
      <4>2. f[t].batch = <<>> /\ f[t].failed = NoInode
        BY <4>1 DEF FlusherSafe
      <4>3. In(<<>>) = {}
        BY DEF In
      <4>. QED BY <4>2, <4>3, Types
    <3>2. \A u \in Volumes : ~ Redirtied(u)
      BY DEF At, Redirtied
    <3>. QED BY <2>2, <2>4, <3>1, <3>2 DEF SafetyInv, DirtyOK, DirtyFound
  <2>. QED BY <2>2, <2>3, <2>4
<1>6. \A v \in Volumes : v \in In(inuseq)
  BY DEF SafetyInv, VolumesOK, Flushing
<1>. QED BY <1>1, <1>4, <1>5, <1>6 DEF Draining, Home, SafetyInv, VolumesOK

\* What a crash leaves depends on these.
LEMMA CrashStays ==
    ASSUME WritesSurviveCrash, UNCHANGED <<istate, ivol, ilbn, iblock, data, disk, w, acked>>
    PROVE  WritesSurviveCrash'
<1>1. ASSUME NEW v \in Volumes, NEW l \in Lbns, ~ Exchanging(v, l)'
      PROVE  Recovered(v, l)' = Content(v, l, acked'[v][l] + IF Stored(v, l)' THEN 1 ELSE 0)
  <2>1. (Exchanging(v, l)' <=> Exchanging(v, l)) /\ (Stored(v, l)' <=> Stored(v, l))
    BY DEF Exchanging, Stored
  <2>2. Pending(v, l)' = Pending(v, l)
    BY DEF Pending
  <2>3. Recovered(v, l)' = Recovered(v, l)
    BY <2>2 DEF Recovered
  <2>. QED BY <1>1, <2>1, <2>3 DEF WritesSurviveCrash
<1>. QED BY <1>1 DEF WritesSurviveCrash

\* pthread_join has waited for every thread (nvm0nvm.cc 247-263).
LEMMA JoinStep ==
    ASSUME CloseInv, JoinThreads
    PROVE  CloseInv'
<1>1. /\ TypeInv /\ SafetyInv /\ FilesOK /\ BackgroundThreads \subseteq gone /\ sys_terminate
      /\ \A v \in Volumes : At(v, "idle")
  BY DEF JoinThreads, CloseInv, Running
<1>2. Draining /\ Home
  BY <1>1, AllGone, JoinedDrains
<1>3. WritesSurviveCrash /\ acked \in [Volumes -> [Lbns -> Nat]]
  <2>1. acked \in [Volumes -> [Lbns -> Nat]]
    BY <1>1 DEF TypeInv, TypeOK, WriterTypeOK
  <2>. QED BY <1>1, <2>1, CrashFollows
<1>4. UNCHANGED <<shared, w, acked, f, s, b, sys_terminate, gone>> /\ c' = "drain"
  BY DEF JoinThreads, writerVars
<1>5. UNCHANGED <<dirtyq, file, data, iblock, ivol, ilbn, inuseq, disk, istate, freeq, syncq>>
  BY <1>4 DEF shared, inodeTable, queues, storage
<1>6. Draining' /\ Home'
  BY <1>2, <1>4, <1>5 DEF Draining, Home, Written
<1>7. WritesSurviveCrash' /\ (acked \in [Volumes -> [Lbns -> Nat]])'
  BY <1>3, <1>4, <1>5, CrashStays
<1>8. (\A x \in gone : AtLoopHead(x))' /\ (\A v \in Volumes : At(v, "idle"))'
  BY <1>1, <1>4 DEF AtLoopHead, At, CloseInv
<1>. QED BY <1>1, <1>4, <1>6, <1>7, <1>8 DEF CloseInv, Running

\* What nvm_system_close leaves alone from then on.
Joined ==
    /\ sys_terminate /\ \A v \in Volumes : At(v, "idle")
    /\ \A x \in gone : AtLoopHead(x)
    /\ BackgroundThreads \subseteq gone
    /\ acked \in [Volumes -> [Lbns -> Nat]]

LEMMA JoinedStays ==
    ASSUME CloseInv, ~ Running, UNCHANGED <<w, acked, f, s, b, sys_terminate, gone>>
    PROVE  /\ Joined'
           /\ \A v \in Volumes, l \in Lbns :
                 /\ Written(v, l)' = Written(v, l)
                 /\ ~ Exchanging(v, l)' /\ ~ Stored(v, l)'
                 /\ Content(v, l, acked'[v][l] + 0) = Written(v, l)
<1>1. sys_terminate /\ c # "open"
  BY DEF CloseInv, Running
<1>2. Joined'
  BY <1>1 DEF CloseInv, Joined, AtLoopHead, At
<1>3. ASSUME NEW v \in Volumes, NEW l \in Lbns
      PROVE  /\ Written(v, l)' = Written(v, l)
             /\ ~ Exchanging(v, l)' /\ ~ Stored(v, l)'
             /\ Content(v, l, acked'[v][l] + 0) = Written(v, l)
  <2>1. Written(v, l)' = Written(v, l)
    BY DEF Written
  <2>2. w'[v].pc = "idle"
    BY <1>2 DEF Joined, At
  <2>3. acked'[v][l] + 0 = acked[v][l]
    BY DEF CloseInv
  <2>. QED BY <2>1, <2>2, <2>3 DEF Exchanging, Stored, Written
<1>. QED BY <1>2, <1>3

LEMMA DrainStep ==
    ASSUME CloseInv, NEW v \in Volumes, DrainOne(v)
    PROVE  CloseInv'
<1>. DEFINE i == Head(dirtyq[v])
<1>1. /\ c = "drain" /\ c' = "drain" /\ ~ Running /\ dirtyq[v] # <<>>
      /\ dirtyq' = Dequeue(dirtyq, v)
      /\ file' = [file EXCEPT ![ivol[i]][ilbn[i]] = data[iblock[i]]]
      /\ UNCHANGED <<w, acked, f, s, b, sys_terminate, gone>>
      /\ UNCHANGED <<istate, ivol, ilbn, iblock, data, disk, inuseq>>
  BY DEF DrainOne, writerVars, closeVars, inodeTable, Running
<1>2. Draining /\ Home /\ WritesSurviveCrash
  BY <1>1 DEF CloseInv
<1>3. /\ i \in In(dirtyq[v]) /\ i \in Inodes
      /\ In(dirtyq[v]) = In(dirtyq'[v]) \cup {i}
      /\ \A u \in Volumes : u # v => dirtyq'[u] = dirtyq[u]
      /\ dirtyq' \in [Volumes -> Seq(Inodes)]
  <2>1. dirtyq \in [Volumes -> Seq(Inodes)]
    BY <1>2 DEF Draining
  <2>. QED BY <1>1, <2>1, DequeueIn, QueueTypes
<1>4. ivol[i] = v /\ ilbn[i] \in Lbns /\ data[iblock[i]] = Written(v, ilbn[i])
  BY <1>2, <1>3 DEF Draining
<1>5. /\ data \in [Blocks -> Contents] /\ iblock \in [Inodes -> Blocks]
      /\ file \in [Volumes -> [Lbns -> Contents]]
  BY <1>2 DEF Draining
<1>6. /\ file' \in [Volumes -> [Lbns -> Contents]]
      /\ file'[v][ilbn[i]] = Written(v, ilbn[i])
      /\ \A u \in Volumes, l \in Lbns : u # v \/ l # ilbn[i] => file'[u][l] = file[u][l]
  <2>1. data[iblock[i]] \in Contents
    BY <1>3, <1>5
  <2>2. file' = [file EXCEPT ![v][ilbn[i]] = data[iblock[i]]]
    BY <1>1, <1>4
  <2>. QED BY <1>4, <1>5, <2>1, <2>2
<1>7. Joined' /\ \A u \in Volumes, l \in Lbns : Written(u, l)' = Written(u, l)
  BY <1>1, JoinedStays
<1>8. ASSUME NEW u \in Volumes, NEW j \in In(dirtyq'[u])
      PROVE  ivol[j] = u /\ ilbn[j] \in Lbns /\ data[iblock[j]] = Written(u, ilbn[j])
  <2>1. j \in In(dirtyq[u])
    BY <1>3, <1>8
  <2>. QED BY <1>2, <2>1 DEF Draining
<1>9. ASSUME NEW u \in Volumes, NEW l \in Lbns
      PROVE  file'[u][l] = Written(u, l) \/ \E j \in In(dirtyq'[u]) : ilbn[j] = l
  <2>1. CASE u = v /\ l = ilbn[i]
    BY <1>6, <2>1
  <2>2. CASE u # v \/ l # ilbn[i]
    <3>1. file'[u][l] = file[u][l]
      BY <1>6, <2>2
    <3>2. file[u][l] = Written(u, l) \/ \E j \in In(dirtyq[u]) : ilbn[j] = l
      BY <1>2 DEF Draining
    <3>. QED BY <1>3, <2>2, <3>1, <3>2
  <2>. QED BY <2>1, <2>2
<1>10. Draining'
  <2>1. UNCHANGED <<ivol, ilbn, iblock, data, acked>>
    BY <1>1
  <2>2. ASSUME NEW u \in Volumes, NEW j \in In(dirtyq'[u])
        PROVE  /\ ivol'[j] = u /\ ilbn'[j] \in Lbns
               /\ data'[iblock'[j]] = Content(u, ilbn'[j], acked'[u][ilbn'[j]])
    BY <1>8, <2>1, <2>2 DEF Written
  <2>3. ASSUME NEW u \in Volumes, NEW l \in Lbns
        PROVE  file'[u][l] = Content(u, l, acked'[u][l]) \/ \E j \in In(dirtyq'[u]) : ilbn'[j] = l
    BY <1>9, <2>1, <2>3 DEF Written
  <2>. QED BY <1>3, <1>5, <1>6, <2>1, <2>2, <2>3 DEF Draining, Written
<1>11. WritesSurviveCrash' /\ Home'
  BY <1>1, <1>2, CrashStays DEF Home
<1>. QED BY <1>1, <1>7, <1>10, <1>11 DEF CloseInv, Running, Joined

LEMMA SyncAllStep ==
    ASSUME CloseInv, SyncAll
    PROVE  CloseInv'
<1>1. /\ c = "drain" /\ c' = "clean" /\ ~ Running /\ disk' = file
      /\ \A v \in Volumes : dirtyq[v] = <<>>
      /\ UNCHANGED <<w, acked, f, s, b, sys_terminate, gone>>
      /\ UNCHANGED <<istate, ivol, ilbn, iblock, data, file, inuseq>>
  BY DEF SyncAll, writerVars, inodeTable, queues, Running
<1>2. Draining /\ Home /\ WritesSurviveCrash
  BY <1>1 DEF CloseInv
<1>3. /\ Joined'
      /\ \A v \in Volumes, l \in Lbns :
            /\ Written(v, l)' = Written(v, l)
            /\ ~ Exchanging(v, l)' /\ ~ Stored(v, l)'
            /\ Content(v, l, acked'[v][l] + 0) = Written(v, l)
  BY <1>1, JoinedStays
<1>4. ASSUME NEW v \in Volumes, NEW l \in Lbns PROVE disk'[v][l] = Written(v, l)
  <2>1. In(dirtyq[v]) = {}
    BY <1>1 DEF In
  <2>. QED BY <1>1, <1>2, <2>1 DEF Draining
<1>5. Durable'
  BY <1>3, <1>4 DEF Durable
<1>6. ASSUME NEW v \in Volumes, NEW l \in Lbns
      PROVE  Recovered(v, l)' = Written(v, l)
  <2>1. Pending(v, l)' = Pending(v, l)
    BY <1>1 DEF Pending
  <2>2. CASE Pending(v, l) = {}
    BY <1>4, <2>1, <2>2 DEF Recovered
  <2>3. CASE Pending(v, l) # {}
    <3>1. Recovered(v, l)' = Recovered(v, l)
      BY <1>1, <2>1, <2>3 DEF Recovered
    <3>2. ~ Exchanging(v, l) /\ ~ Stored(v, l)
      BY <1>1, <1>3 DEF Exchanging, Stored
    <3>. QED BY <1>1, <1>2, <1>3, <3>1, <3>2 DEF WritesSurviveCrash
  <2>. QED BY <2>2, <2>3
<1>7. WritesSurviveCrash'
  BY <1>3, <1>6 DEF WritesSurviveCrash
<1>8. Home'
  BY <1>1, <1>2 DEF Home
<1>. QED BY <1>1, <1>3, <1>5, <1>7, <1>8 DEF CloseInv, Running, Joined

\* The last steps change no storage.
LEMMA EndStep ==
    ASSUME CloseInv, MarkClean \/ CloseVolume \/ CloseReturns
    PROVE  CloseInv'
<1>1. /\ c \in {"clean", "volumes"} /\ c' \in {"volumes", "closed"} /\ ~ Running
      /\ UNCHANGED <<w, acked, f, s, b, sys_terminate, gone>>
      /\ UNCHANGED <<ivol, ilbn, iblock, data, disk>>
  BY DEF MarkClean, CloseVolume, CloseReturns, writerVars, closeVars, inodeTable, storage, shared,
         Running
<1>2. Durable /\ WritesSurviveCrash
  BY <1>1 DEF CloseInv
<1>3. /\ Joined'
      /\ \A v \in Volumes, l \in Lbns :
            /\ Written(v, l)' = Written(v, l)
            /\ ~ Exchanging(v, l)' /\ ~ Stored(v, l)'
            /\ Content(v, l, acked'[v][l] + 0) = Written(v, l)
  BY <1>1, JoinedStays
<1>4. Durable'
  BY <1>1, <1>2, <1>3 DEF Durable
<1>5. WritesSurviveCrash'
  <2>1. CASE MarkClean
    <3>1. ASSUME NEW v \in Volumes, NEW l \in Lbns PROVE Pending(v, l)' = {}
      BY <2>1 DEF MarkClean, Pending
    <3>. QED BY <1>3, <1>4, <3>1 DEF WritesSurviveCrash, Recovered, Durable
  <2>2. CASE CloseVolume \/ CloseReturns
    <3>1. istate' = istate
      BY <2>2 DEF CloseVolume, CloseReturns, inodeTable, shared
    <3>. QED BY <1>1, <1>2, <3>1, CrashStays
  <2>. QED BY <2>1, <2>2
<1>. QED BY <1>1, <1>3, <1>4, <1>5 DEF CloseInv, Running, Joined

LEMMA StartStep ==
    ASSUME CloseInv, CloseStart
    PROVE  CloseInv'
<1>1. /\ c = "open" /\ c' = "join" /\ sys_terminate' = TRUE /\ gone' = {}
      /\ TypeInv /\ SafetyInv /\ FilesOK /\ \A v \in Volumes : At(v, "idle")
      /\ UNCHANGED <<shared, writerVars, f, s, b>>
  BY DEF CloseStart, CloseInv, Running
<1>2. UNCHANGED vars
  BY <1>1 DEF vars
<1>3. TypeInv'
  BY <1>1, <1>2, TypeStep
<1>4. SafetyInv' /\ FilesOK'
  BY <1>1, <1>2, <1>3, SafetyStutter, FilesStay
<1>. QED BY <1>1, <1>3, <1>4 DEF CloseInv, Running, At, writerVars

\* A thread that returns was at the head of its loop.
LEMMA ReturnStep ==
    ASSUME CloseInv, NEW x \in BackgroundThreads, ThreadReturns(x)
    PROVE  CloseInv'
<1>1. /\ gone' = gone \cup {x} /\ AtLoopHead(x) /\ x \notin gone
      /\ sys_terminate /\ sys_terminate' = sys_terminate /\ c' = c
      /\ UNCHANGED <<shared, writerVars, f, s, b>>
  BY DEF ThreadReturns
<1>2. Running /\ c # "open" /\ TypeInv /\ SafetyInv /\ FilesOK
  BY <1>1 DEF CloseInv
<1>3. UNCHANGED vars
  BY <1>1 DEF vars
<1>4. TypeInv'
  BY <1>2, <1>3, TypeStep
<1>5. SafetyInv' /\ FilesOK'
  BY <1>2, <1>3, <1>4, SafetyStutter, FilesStay
<1>6. (\A y \in gone : AtLoopHead(y))'
  BY <1>1 DEF CloseInv, AtLoopHead
<1>7. (\A v \in Volumes : At(v, "idle"))'
  BY <1>1 DEF CloseInv, At, writerVars
<1>. QED BY <1>1, <1>2, <1>4, <1>5, <1>6, <1>7 DEF CloseInv, Running

\* Before nvm_system_close is called.
LEMMA OpenStep ==
    ASSUME CloseInv, FreesWhatItInvalidates, ~ sys_terminate, [Next]_vars, UNCHANGED closeVars
    PROVE  CloseInv'
<1>1. c = "open" /\ gone = {} /\ TypeInv /\ SafetyInv /\ FilesOK
  BY DEF CloseInv, Running
<1>2. TypeInv' /\ SafetyInv' /\ FilesOK'
  BY <1>1, RunningStep
<1>. QED BY <1>1, <1>2 DEF CloseInv, Running, closeVars

LEMMA CloseStutter ==
    ASSUME CloseInv, UNCHANGED allVars
    PROVE  CloseInv'
<1>1. CASE Running
  <2>1. TypeInv' /\ SafetyInv' /\ FilesOK'
    <3>1. TypeInv /\ SafetyInv /\ FilesOK /\ UNCHANGED vars
      BY <1>1 DEF CloseInv, allVars, vars
    <3>2. TypeInv'
      BY <3>1, TypeStep
    <3>. QED BY <3>1, <3>2, SafetyStutter, FilesStay
  <2>. QED BY <1>1, <2>1 DEF CloseInv, Running, allVars, closeVars, writerVars, At, AtLoopHead
<1>2. CASE ~ Running
  <2>1. /\ UNCHANGED <<w, acked, f, s, b, sys_terminate, gone, c>>
        /\ UNCHANGED <<ivol, ilbn, iblock, data, disk, istate, file, dirtyq, inuseq>>
    BY DEF allVars, closeVars, writerVars, shared, inodeTable, storage, queues
  <2>2. Joined' /\ \A v \in Volumes, l \in Lbns : Written(v, l)' = Written(v, l)
    BY <1>2, <2>1, JoinedStays
  <2>3. WritesSurviveCrash'
    BY <1>2, <2>1, CrashStays DEF CloseInv
  <2>4. Durable => Durable'
    BY <2>1, <2>2 DEF Durable
  <2>5. (Home => Home') /\ (Draining => Draining')
    BY <2>1 DEF Home, Draining, Written
  <2>. QED BY <1>2, <2>1, <2>2, <2>3, <2>4, <2>5 DEF CloseInv, Running, Joined
<1>. QED BY <1>1, <1>2

\* Once the threads are joined, nothing depends on them any more.
LEMMA CloseStep ==
    ASSUME CloseInv, Running => FreesWhatItInvalidates, [CloseNext]_allVars
    PROVE  CloseInv'
<1>1. CASE ~ sys_terminate /\ Next /\ UNCHANGED closeVars
  BY <1>1, OpenStep DEF CloseInv, Running
<1>2. CASE \/ \E t \in Flushers : LastFlush(t)
           \/ \E k \in Syncers : LastSync(k)
           \/ \E k \in Balloons : LastBalloon(k)
  BY <1>2, ThreadStep
<1>3. ASSUME NEW x \in BackgroundThreads, ThreadReturns(x) PROVE CloseInv'
  BY <1>3, ReturnStep
<1>4. CASE nvm_system_close
  BY <1>4, StartStep, JoinStep, DrainStep, SyncAllStep, EndStep DEF nvm_system_close
<1>5. CASE UNCHANGED allVars
  BY <1>5, CloseStutter
<1>. QED BY <1>1, <1>2, <1>3, <1>4, <1>5 DEF CloseNext

LEMMA CloseInitially == CloseInit => CloseInv
<1>. SUFFICES ASSUME CloseInit PROVE CloseInv
  OBVIOUS
<1>1. Init /\ sys_terminate = FALSE /\ gone = {} /\ c = "open"
  BY DEF CloseInit
<1>2. TypeInv /\ SafetyInv /\ FilesOK
  BY <1>1, TypeInit, SafetyInit
<1>. QED BY <1>1, <1>2 DEF CloseInv, Running

(***************************************************************************)
(* What nvm_system_close promises                                          *)
(***************************************************************************)

LEMMA ClosedFollows ==
    ASSUME CloseInv
    PROVE  CloseIsDurable /\ WritesSurviveCrash /\ (NumBalloons = 1 /\ Running => FreesWhatItInvalidates)
<1>1. CloseIsDurable
  BY DEF CloseInv, CloseIsDurable, Durable, Written
<1>2. WritesSurviveCrash
  BY CrashFollows DEF CloseInv
<1>3. NumBalloons = 1 /\ Running => FreesWhatItInvalidates
  BY FreesFollows DEF CloseInv
<1>. QED BY <1>1, <1>2, <1>3

\* A queue that holds each of n volumes once has n of them.
LEMMA HomeLength ==
    ASSUME Home
    PROVE  Len(inuseq) = NumVolumes
<1>1. /\ Len(inuseq) \in Nat /\ inuseq \in [1 .. Len(inuseq) -> Volumes]
      /\ Volumes = 0 .. NumVolumes - 1 /\ NumVolumes \in Nat \ {0}
  BY SizeAssumption DEF Home, Volumes, SizeAssumption
<1>2. inuseq \in Bijection(1 .. Len(inuseq), Volumes)
  <2>1. inuseq \in Injection(1 .. Len(inuseq), Volumes)
    BY <1>1 DEF Injection, IsInjective, Home, Once
  <2>2. inuseq \in Surjection(1 .. Len(inuseq), Volumes)
    BY <1>1 DEF Surjection, Home, In
  <2>. QED BY <2>1, <2>2 DEF Bijection
<1>3. Cardinality(1 .. Len(inuseq)) = Len(inuseq) /\ IsFiniteSet(1 .. Len(inuseq))
  <2>1. \A n \in Nat : IsFiniteSet(1 .. n) /\ Cardinality(1 .. n) = n
    <3>. TAKE n \in Nat
    <3>1. IsFiniteSet(1 .. n) /\ Cardinality(1 .. n) = IF 1 > n THEN 0 ELSE n - 1 + 1
      <4>1. 1 \in Int /\ n \in Int
        OBVIOUS
      <4>2. \A i, j \in Int : /\ IsFiniteSet(i .. j)
                              /\ Cardinality(i .. j) = IF i > j THEN 0 ELSE j - i + 1
        BY FS_Interval, Zenon
      <4>. QED BY <4>1, <4>2, Zenon
    <3>. QED BY <3>1
  <2>. QED BY <1>1, <2>1
<1>4. Cardinality(Volumes) = NumVolumes
  BY <1>1, FS_Interval
<1>. QED BY <1>2, <1>3, <1>4, FS_Bijection DEF ExistsBijection

LEMMA VolumesFollow ==
    ASSUME CloseInv
    PROVE  CloseFindsVolumes
<1>1. ASSUME Home, NEW v \in Volumes PROVE \E n \in DOMAIN inuseq : inuseq[n] = v
  BY <1>1 DEF Home, In
<1>. QED BY <1>1, HomeLength DEF CloseInv, CloseFindsVolumes

\* nvm_system_close (nvm0nvm.cc 278-306) writes and syncs everything that was
\* ever acknowledged, wherever the threads stopped, as long as no balloon
\* frees an inode whose node it did not invalidate.
THEOREM CloseKeepsWrites == CloseSpec /\ []FreesWhatItInvalidates => []CloseIsDurable
<1>1. CloseInv => CloseIsDurable
  BY ClosedFollows
<1>2. CloseInv /\ FreesWhatItInvalidates /\ [CloseNext]_allVars => CloseInv'
  BY CloseStep
<1>. QED BY <1>1, <1>2, CloseInitially, PTL DEF CloseSpec

\* No flush thread returns with a volume in its hands (nvm0nvm.cc 308-314):
\* all of them are there to be closed, each once.
THEOREM CloseFindsAll == CloseSpec /\ []FreesWhatItInvalidates => []CloseFindsVolumes
<1>1. CloseInv => CloseFindsVolumes
  BY VolumesFollow
<1>2. CloseInv /\ FreesWhatItInvalidates /\ [CloseNext]_allVars => CloseInv'
  BY CloseStep
<1>. QED BY <1>1, <1>2, CloseInitially, PTL DEF CloseSpec

\* A crash in the middle of nvm_system_close loses no more than any other:
\* until everything is in the synced files no inode stops being dirty.
THEOREM CloseSurvivesCrash == CloseSpec /\ []FreesWhatItInvalidates => []WritesSurviveCrash
<1>1. CloseInv => WritesSurviveCrash
  BY ClosedFollows
<1>2. CloseInv /\ FreesWhatItInvalidates /\ [CloseNext]_allVars => CloseInv'
  BY CloseStep
<1>. QED BY <1>1, <1>2, CloseInitially, PTL DEF CloseSpec

\* With a single balloon thread, nvm_system_close keeps all three promises
\* whatever happens before it.
THEOREM OneBalloonCloses ==
    NumBalloons = 1 => (CloseSpec => [](CloseIsDurable /\ CloseFindsVolumes /\ WritesSurviveCrash))
<1>. SUFFICES ASSUME NumBalloons = 1
              PROVE  CloseSpec => [](CloseIsDurable /\ CloseFindsVolumes /\ WritesSurviveCrash)
  OBVIOUS
<1>1. CloseInv => CloseIsDurable /\ CloseFindsVolumes /\ WritesSurviveCrash
  BY ClosedFollows, VolumesFollow
<1>2. CloseInv /\ [CloseNext]_allVars => CloseInv'
  BY ClosedFollows, CloseStep
<1>. QED BY <1>1, <1>2, CloseInitially, PTL DEF CloseSpec
=============================================================================
