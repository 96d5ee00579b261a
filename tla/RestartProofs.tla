---------------------------- MODULE RestartProofs ----------------------------
(***************************************************************************)
(* Theorems about the burst buffer through crashes and restarts.           *)
(*                                                                         *)
(* The invariant is LifeSafe.  While the system runs it is SafetyInv, the  *)
(* invariant of BurstBufferSafety, and every completed write is in a dirty *)
(* inode or in one of the files.  After a crash, until nvm_system_init is  *)
(* over, no thread runs, the blocks have one owner each, at most one inode *)
(* of a block is waiting to be written back, and it has what was written   *)
(* last; and what recovery_start has passed is in its file, first written, *)
(* then synced, before any inode is marked clean.                          *)
(***************************************************************************)
EXTENDS Restart, BurstBufferSafety

(***************************************************************************)
(* Types through a crash: the threads and the queues are made anew, and    *)
(* what the crash leaves of the tables and files is what was there.        *)
(***************************************************************************)
LEMMA CrashTypes == TypeInv /\ Crash => TypeInv'
<1>. USE Sizes
<1>. SUFFICES ASSUME TypeInv, Crash PROVE TypeInv'
  OBVIOUS
<1>1. NumFlushers \in Nat \ {0}
  BY SizeAssumption DEF SizeAssumption
<1>2. /\ 0 \in Volumes /\ 0 \in Lbns /\ 0 \in Blocks /\ 0 \in Syncers /\ 0 \in Balloons
      /\ 0 \in 0 .. NumFree - 1 /\ "FREE" \in States
  BY DEF Volumes, Lbns, Blocks, Syncers, Balloons, States
<1>3. SharedTypeOK /\ WriterTypeOK /\ WriterOK
  BY DEF TypeInv, TypeOK
<1>4. /\ UNCHANGED <<istate, ilbn, ivol, iblock, vblock, data, disk, budget>>
      /\ node' = [v \in Volumes |-> [l \in Lbns |-> NoNode]]
      /\ ilock' = [i \in Inodes |-> FALSE]
      /\ w' = [v \in Volumes |-> Idle] /\ f' = [t \in Flushers |-> FlusherIdle]
      /\ s' = [k \in Syncers |-> SyncerIdle] /\ b' = [k \in Balloons |-> BalloonIdle]
      /\ file' = file \/ file' = disk
      /\ FreshQueues
  BY DEF Crash
<1>5. SharedTypeOK'
  <2>1. node' \in [Volumes -> [Lbns -> Nodes]] /\ ilock' \in [Inodes -> BOOLEAN]
    <3>1. NoNode \in Nodes
      BY DEF NoNode, Nodes
    <3>. QED BY <1>4, <3>1
  <2>2. freeq' \in [0 .. NumFree - 1 -> Seq(Inodes)]
    BY <1>4, InitialFreeType DEF FreshQueues, FreshQueuesWith
  <2>3. inuseq' \in Seq(Volumes)
    <3>1. ASSUME NEW n \in 1 .. NumVolumes PROVE n - 1 \in Volumes
      BY DEF Volumes
    <3>. QED BY <1>4, <3>1 DEF FreshQueues, FreshQueuesWith
  <2>4. /\ dirtyq' \in [Volumes -> Seq(Inodes)] /\ syncq' \in [Syncers -> Seq(Inodes)]
        /\ cleanq' \in [Balloons -> Seq(Inodes)]
    BY <1>4, EmptySeq DEF FreshQueues, FreshQueuesWith
  <2>5. /\ free_enqueue_idx' \in 0 .. NumFree - 1 /\ free_dequeue_idx' \in 0 .. NumFree - 1
        /\ sync_queue_idx' \in Syncers /\ clean_queue_idx' \in Balloons
        /\ inode_free_count' \in Int /\ inode_dirty_count' \in Int
    BY <1>2, <1>4 DEF FreshQueues, FreshQueuesWith
  <2>6. file' \in [Volumes -> [Lbns -> Contents]]
    BY <1>3, <1>4 DEF SharedTypeOK
  <2>. QED BY <1>3, <1>4, <2>1, <2>2, <2>3, <2>4, <2>5, <2>6 DEF SharedTypeOK
<1>6. WriterTypeOK' /\ WriterOK'
  <2>1. Idle \in WriterRec /\ Idle.pc = "idle" /\ Idle.lbn = 0 /\ Idle.lbn_end = 0
    BY <1>2 DEF Idle, WriterRec, WriterSteps
  <2>2. w' \in [Volumes -> WriterRec] /\ \A v \in Volumes : w'[v] = Idle
    BY <1>4, <2>1
  <2>3. budget' = budget /\ budget \in [Volumes -> 0 .. MaxWrites]
    BY <1>3, <1>4 DEF WriterTypeOK
  <2>4. ASSUME NEW v \in Volumes, NEW l \in Lbns
        PROVE  acked'[v][l] \in 0 .. MaxWrites /\ acked'[v][l] + budget[v] <= MaxWrites
    <3>1. acked'[v][l] = acked[v][l] + IF Stored(v, l) \/ Exchanging(v, l) THEN 1 ELSE 0
      BY DEF Crash
    <3>2. /\ acked[v][l] + budget[v] + (IF ToWrite(v, l) THEN 1 ELSE 0) <= MaxWrites
          /\ acked[v][l] \in Nat /\ budget[v] \in Nat
      BY <1>3 DEF WriterTypeOK, WriterOK
    <3>3. Stored(v, l) \/ Exchanging(v, l) => ToWrite(v, l)
      BY <1>3 DEF Stored, Exchanging, ToWrite, WriterTypeOK, WriterOK, Lbns
    <3>. QED BY <3>1, <3>2, <3>3
  <2>5. acked' \in [Volumes -> [Lbns -> 0 .. MaxWrites]]
    <3>1. acked' = [v \in Volumes |-> [l \in Lbns |-> acked'[v][l]]]
      BY DEF Crash
    <3>. QED BY <2>4, <3>1
  <2>6. WriterTypeOK'
    BY <2>2, <2>3, <2>5 DEF WriterTypeOK, WriterRec
  <2>7. WriterOK'
    BY <2>1, <2>2, <2>3, <2>4 DEF WriterOK, ToWrite, HasInode
  <2>. QED BY <2>6, <2>7
<1>7. FlushTypeOK' /\ FlusherOK'
  <2>1. FlusherIdle \in FlusherRec /\ FlusherIdle.pc = "idle"
    BY <1>2, EmptySeq DEF FlusherIdle, FlusherRec, FlusherSteps
  <2>. QED BY <1>4, <2>1 DEF FlushTypeOK, FlusherRec, FlusherOK
<1>8. SyncTypeOK' /\ SyncerOK'
  <2>1. SyncerIdle \in SyncerRec /\ SyncerIdle.pc = "idle"
    BY DEF SyncerIdle, SyncerRec, SyncerSteps
  <2>. QED BY <1>4, <2>1 DEF SyncTypeOK, SyncerRec, SyncerOK
<1>9. BalloonTypeOK' /\ BalloonOK'
  <2>1. BalloonIdle \in BalloonRec /\ BalloonIdle.pc = "idle"
    BY <1>2 DEF BalloonIdle, BalloonRec, BalloonSteps
  <2>. QED BY <1>4, <2>1 DEF BalloonTypeOK, BalloonRec, BalloonOK
<1>. QED BY <1>5, <1>6, <1>7, <1>8, <1>9 DEF TypeInv, TypeOK

\* Recovery only changes the states of inodes and the files.
LEMMA RecoveryTypes ==
    ASSUME TypeInv, UNCHANGED <<memory, ilbn, ivol, iblock, ilock>>,
           istate' \in [Inodes -> States],
           file' \in [Volumes -> [Lbns -> Contents]], disk' \in [Volumes -> [Lbns -> Contents]]
    PROVE  TypeInv'
<1>1. SharedTypeOK'
  BY DEF memory, queues, indices, counts, TypeInv, TypeOK, SharedTypeOK
<1>2. WriterTypeOK' /\ WriterOK'
  BY DEF memory, writerVars, TypeInv, TypeOK, WriterTypeOK, WriterOK, ToWrite
<1>3. FlushTypeOK' /\ FlusherOK' /\ SyncTypeOK' /\ SyncerOK' /\ BalloonTypeOK' /\ BalloonOK'
  BY DEF memory, TypeInv, TypeOK, FlushTypeOK, FlusherOK, SyncTypeOK, SyncerOK,
         BalloonTypeOK, BalloonOK
<1>. QED BY <1>1, <1>2, <1>3 DEF TypeInv, TypeOK

\* The variables of Restart have types as well.
LifeTypes ==
    /\ TypeInv
    /\ cwdfile \in [Volumes -> [Lbns -> Contents]]
    /\ cwddisk \in [Volumes -> [Lbns -> Contents]]
    /\ rec \in 0 .. NumInodes
    /\ phase \in {"running", "write", "clean"}

LEMMA LifeTypesInit == RestartInit => LifeTypes
<1>. SUFFICES ASSUME RestartInit PROVE LifeTypes
  OBVIOUS
<1>1. Blank \in Contents
  BY DEF Contents
<1>2. 0 \in 0 .. NumInodes
  BY Sizes
<1>. QED BY <1>1, <1>2, TypeInit DEF RestartInit, LifeTypes

LEMMA LifeTypesStep == LifeTypes /\ [RestartNext]_lifeVars => LifeTypes'
<1>. SUFFICES ASSUME LifeTypes, [RestartNext]_lifeVars PROVE LifeTypes'
  OBVIOUS
<1>1. /\ TypeInv /\ SharedTypeOK
      /\ cwdfile \in [Volumes -> [Lbns -> Contents]] /\ cwddisk \in [Volumes -> [Lbns -> Contents]]
      /\ rec \in 0 .. NumInodes /\ NumInodes \in Nat \ {0}
      /\ "CLEAN" \in States /\ "FREE" \in States
  BY Sizes DEF LifeTypes, TypeInv, TypeOK, States
<1>2. CASE Run
  <2>1. Next /\ UNCHANGED <<phase, rec, cwdfile, cwddisk>>
    BY <1>2 DEF Run
  <2>. QED BY <2>1, TypeStep DEF LifeTypes
<1>3. CASE Crash
  <2>1. TypeInv'
    BY <1>1, <1>3, CrashTypes
  <2>. QED BY <1>1, <1>3, <2>1 DEF LifeTypes, Crash
<1>4. CASE RecoverWrite
  <2>1. UNCHANGED <<memory, inodeTable, storage>> /\ phase' = phase /\ cwddisk' = cwddisk
    BY <1>4 DEF RecoverWrite
  <2>2. TypeInv'
    BY <1>1, <2>1, RecoveryTypes DEF inodeTable, storage, SharedTypeOK
  <2>3. rec' \in 0 .. NumInodes
    BY <1>1, <1>4 DEF RecoverWrite
  <2>4. rec \in Inodes
    BY <1>1, <1>4 DEF RecoverWrite, Inodes
  <2>5. data[iblock[rec]] \in Contents /\ ivol[rec] \in Volumes
    BY <1>1, <2>4 DEF SharedTypeOK
  <2>6. cwdfile' \in [Volumes -> [Lbns -> Contents]]
    BY <1>1, <1>4, <2>5 DEF RecoverWrite
  <2>. QED BY <2>1, <2>2, <2>3, <2>6 DEF LifeTypes
<1>5. CASE RecoverSync
  <2>1. /\ UNCHANGED <<memory, inodeTable, file>> /\ disk' = file /\ cwddisk' = cwdfile
        /\ cwdfile' = cwdfile /\ rec' = 0 /\ phase' = "clean"
    BY <1>5 DEF RecoverSync
  <2>2. TypeInv'
    BY <1>1, <2>1, RecoveryTypes DEF inodeTable, SharedTypeOK
  <2>. QED BY <1>1, <2>1, <2>2 DEF LifeTypes
<1>6. CASE RecoverClean
  <2>1. /\ UNCHANGED <<memory, ilbn, ivol, iblock, ilock, storage, phase, cwdfile, cwddisk>>
        /\ istate' = istate \/ istate' = [istate EXCEPT ![rec] = "CLEAN"]
        /\ rec' = rec + 1 /\ rec < NumInodes
    BY <1>6 DEF RecoverClean
  <2>2. istate' \in [Inodes -> States]
    BY <1>1, <2>1 DEF SharedTypeOK
  <2>3. TypeInv'
    BY <1>1, <2>1, <2>2, RecoveryTypes DEF storage, SharedTypeOK
  <2>. QED BY <1>1, <2>1, <2>3 DEF LifeTypes
<1>7. CASE Boot
  <2>1. /\ UNCHANGED <<memory, ilbn, ivol, iblock, ilock, storage, cwdfile, cwddisk>>
        /\ istate' = [i \in Inodes |-> "FREE"] /\ rec' = 0 /\ phase' = "running"
    BY <1>7 DEF Boot
  <2>2. istate' \in [Inodes -> States]
    BY <1>1, <2>1
  <2>3. TypeInv'
    BY <1>1, <2>1, <2>2, RecoveryTypes DEF storage, SharedTypeOK
  <2>. QED BY <1>1, <2>1, <2>3 DEF LifeTypes
<1>8. CASE UNCHANGED lifeVars
  <2>1. UNCHANGED vars /\ UNCHANGED <<phase, rec, cwdfile, cwddisk>>
    BY <1>8 DEF lifeVars, restartVars
  <2>. QED BY <2>1, TypeStep DEF LifeTypes
<1>. QED BY <1>2, <1>3, <1>4, <1>5, <1>6, <1>7, <1>8 DEF RestartNext

(***************************************************************************)
(* The blocks of a single volume through crashes                           *)
(***************************************************************************)
LifeInv == LifeTypes /\ (cut = {} => BlocksInv)

LEMMA LifeStep ==
    ASSUME NumVolumes = 1, LifeInv, [RestartNext]_lifeVars
    PROVE  LifeInv'
<1>1. LifeTypes' /\ TypeInv
  BY LifeTypesStep DEF LifeInv, LifeTypes
<1>2. ASSUME UNCHANGED <<iblock, vblock, w, cut>> PROVE cut' = {} => BlocksInv'
  BY <1>2, NoExchange DEF LifeInv
<1>3. CASE Run
  <2>1. Next /\ cut' = cut
    BY <1>3 DEF Run
  <2>. QED BY <1>1, <2>1, BlocksStep DEF LifeInv
<1>4. CASE Crash
  <2>1. ASSUME cut' = {} PROVE BlocksInv'
    <3>1. 0 \in Volumes
      BY DEF Volumes
    <3>2. w[0].pc # "swap_inode" /\ cut = {}
      BY <1>4, <2>1, <3>1 DEF Crash, At
    <3>3. UNCHANGED <<iblock, vblock>> /\ w'[0].pc = "idle"
      BY <1>4, <3>1 DEF Crash, Idle
    <3>. QED BY <3>2, <3>3 DEF LifeInv, BlocksInv, Held, Permuted
  <2>. QED BY <1>1, <2>1 DEF LifeInv
<1>5. CASE RecoverWrite \/ RecoverSync \/ RecoverClean \/ Boot
  <2>1. UNCHANGED <<iblock, vblock, w, cut>>
    BY <1>5 DEF RecoverWrite, RecoverSync, RecoverClean, Boot, memory, inodeTable, writerVars
  <2>. QED BY <1>1, <1>2, <2>1 DEF LifeInv
<1>6. CASE UNCHANGED lifeVars
  <2>1. UNCHANGED <<iblock, vblock, w, cut>>
    BY <1>6 DEF lifeVars, restartVars, vars, shared, inodeTable, writerVars
  <2>. QED BY <1>1, <1>2, <2>1 DEF LifeInv
<1>. QED BY <1>3, <1>4, <1>5, <1>6 DEF RestartNext

\* With one volume, however often the system crashes, also during recovery,
\* the block indices that nvm_system_init finds in NVM are a permutation,
\* unless a crash fell between the two assignments of the exchange
\* (nvm0write.cc 50-51).
THEOREM CrashesKeepBlocks == NumVolumes = 1 => (RestartSpec => []OnlyACutBreaksThePermutation)
<1>. SUFFICES ASSUME NumVolumes = 1 PROVE RestartSpec => []OnlyACutBreaksThePermutation
  OBVIOUS
<1>1. RestartInit => LifeInv
  BY LifeTypesInit, BlocksInit DEF RestartInit, LifeInv
<1>2. LifeInv /\ [RestartNext]_lifeVars => LifeInv'
  BY LifeStep
<1>3. LifeInv => OnlyACutBreaksThePermutation
  BY BlocksInvImplies DEF LifeInv, LifeTypes, OnlyACutBreaksThePermutation
<1>. QED BY <1>1, <1>2, <1>3, PTL DEF RestartSpec

(***************************************************************************)
(* The counters: a crash deals the inodes anew, recovery touches nothing   *)
(* that is counted.                                                        *)
(***************************************************************************)
LEMMA CountersThroughCrash ==
    ASSUME LifeTypes, CountersInv, [RestartNext]_lifeVars
    PROVE  CountersInv'
<1>1. TypeInv /\ TypeInv'
  BY LifeTypesStep DEF LifeTypes
<1>2. ASSUME UNCHANGED <<queues, counts, writerVars, f, b>> PROVE CountersInv'
  <2>1. /\ Withdrawn' = Withdrawn /\ Counted' = Counted /\ Failing' = Failing
        /\ Batches' = Batches /\ Returning' = Returning /\ FlusherHolds'
    BY <1>2 DEF Withdrawn, Counted, Failing, Batches, Returning, At, writerVars, CountersInv,
                FlusherHolds
  <2>2. UNCHANGED <<freeq, dirtyq, counts>>
    BY <1>2 DEF queues
  <2>. QED BY <2>1, <2>2, NothingCounted DEF CountersInv
<1>3. CASE Run
  BY <1>1, <1>3, CountersStep DEF Run
<1>4. CASE Crash
  <2>1. JustDealt'
    BY <1>4 DEF Crash, FreshQueues, FreshQueuesWith, JustDealt
  <2>2. JustDealt' => CountersInv'
    BY CountersStart, PTL
  <2>. QED BY <2>1, <2>2
<1>5. CASE RecoverWrite \/ RecoverSync \/ RecoverClean \/ Boot
  BY <1>2, <1>5 DEF RecoverWrite, RecoverSync, RecoverClean, Boot, memory
<1>6. CASE UNCHANGED lifeVars
  BY <1>2, <1>6 DEF lifeVars, vars, shared
<1>. QED BY <1>3, <1>4, <1>5, <1>6 DEF RestartNext

\* nvm_system_init sets the counters (nvm0nvm.cc 171 and 182) to what the
\* queues hold that it makes, so they are right after every restart as well.
THEOREM RestartsKeepCounts == RestartSpec => []CountersMatchQueues
<1>1. RestartInit => LifeTypes /\ CountersInv
  BY LifeTypesInit, CountersInit DEF RestartInit
<1>2. LifeTypes /\ CountersInv /\ [RestartNext]_lifeVars => LifeTypes' /\ CountersInv'
  BY LifeTypesStep, CountersThroughCrash
<1>. QED BY <1>1, <1>2, CountersFollow, PTL DEF RestartSpec

(***************************************************************************)
(* Any number of volumes                                                   *)
(***************************************************************************)

\* A dirty inode that survives a crash is the only one of its block, and has
\* what was written last, unless that was being written when it crashed.
PendingApart ==
    \A i, j \in Inodes :
        NeedsRecovery(i) /\ NeedsRecovery(j) /\ ivol[i] = ivol[j] /\ ilbn[i] = ilbn[j] => i = j

Torn(v, l) == <<v, l>> \in torn

PendingHolds ==
    \A i \in Inodes :
        NeedsRecovery(i) /\ ~ Torn(ivol[i], ilbn[i]) => data[iblock[i]] = Latest(ivol[i], ilbn[i])

\* Where recovery_start is.
WrittenBack ==
    /\ \A i \in Inodes :
          NeedsRecovery(i) /\ ~ Torn(ivol[i], ilbn[i]) /\ (i < rec \/ phase = "clean") =>
              cwdfile[ivol[i]][ilbn[i]] = Latest(ivol[i], ilbn[i])
    /\ phase = "clean" =>
          \A i \in Inodes :
              NeedsRecovery(i) /\ ~ Torn(ivol[i], ilbn[i]) =>
                  cwddisk[ivol[i]][ilbn[i]] = Latest(ivol[i], ilbn[i])

CleanedUp == phase = "clean" => \A i \in Inodes : i < rec => ~ NeedsRecovery(i)

\* What was written last and is not pending is in one of the two files.
Filled(v, l) ==
    \/ file[v][l] = Latest(v, l) /\ disk[v][l] = Latest(v, l)
    \/ cwdfile[v][l] = Latest(v, l) /\ cwddisk[v][l] = Latest(v, l)

Kept(v, l) == Pending(v, l) = {} => Filled(v, l)

FilesKnown == \A v \in Volumes, l \in Lbns : ~ Torn(v, l) \/ Stored(v, l) => Kept(v, l)

\* Up, or on the way up.
UpOrDown ==
    IF phase = "running" THEN SafetyInv
    ELSE Halted /\ BlocksApart /\ PendingApart /\ CleanedUp

FilesFound ==
    /\ FilesKnown
    /\ phase # "running" => PendingHolds /\ WrittenBack

LifeSafe ==
    /\ LifeTypes
    /\ cut = {} => UpOrDown
    /\ cut = {} /\ NumLbns <= OffsetSpan => FilesFound

(***************************************************************************)
(* While the system runs                                                   *)
(***************************************************************************)

\* What counts as written last changes only when the block becomes reachable
\* through a dirty inode; what a writer has stored is acknowledged next.
LEMMA WriterLatest ==
    ASSUME TypeInv, SafetyInv, NEW v \in Volumes, Writer(v)
    PROVE  /\ \A u \in Volumes : u # v => w'[u] = w[u] /\ acked'[u] = acked[u]
           /\ \A l \in Lbns :
                 \/ /\ Latest(v, l)' = Latest(v, l)
                    /\ Stored(v, l)' => Stored(v, l)
                    /\ acked'[v][l] # acked[v][l] => Stored(v, l)
                 \/ Pending(v, l)' # {}
<1>0. /\ w \in [Volumes -> WriterRec] /\ acked \in [Volumes -> [Lbns -> 0 .. MaxWrites]]
      /\ w[v].lbn \in Lbns
  BY Types DEF WriterRec, TypeInv, TypeOK, WriterTypeOK
<1>1. CASE Call(v) \/ SearchNode(v) \/ FreeCheck(v) \/ TakeTicket(v) \/ DequeueFree(v)
           \/ AssignInode(v) \/ InsertNode(v) \/ LockNewNode(v) \/ LockNode(v) \/ RecheckNode(v)
           \/ LockInode(v) \/ SetDirty(v) \/ CopyToOwnerless(v) \/ SwapVolumeBlock(v)
  <2>1. /\ acked' = acked /\ \A u \in Volumes : u # v => w'[u] = w[u]
        /\ w[v].pc \notin {"count_dirty", "enqueue_dirty", "unlock_inode", "unlock_node"}
        /\ w'[v].pc \notin {"count_dirty", "enqueue_dirty", "unlock_inode", "unlock_node"}
    <3>1. CASE Call(v)
      <4>1. PICK first \in Lbns, last \in Lbns : WriteStart(v, first, last)
        BY <3>1 DEF Call
      <4>. QED BY <1>0, <4>1 DEF WriteStart, At, WriterRec
    <3>2. CASE SearchNode(v) \/ FreeCheck(v) \/ TakeTicket(v)
      BY <1>0, <3>2 DEF SearchNode, FreeCheck, TakeTicket, At, WriterRec
    <3>3. CASE DequeueFree(v) \/ AssignInode(v) \/ InsertNode(v)
      BY <1>0, <3>3 DEF DequeueFree, AssignInode, InsertNode, At, WriterRec
    <3>4. CASE LockNewNode(v) \/ LockNode(v) \/ RecheckNode(v)
      BY <1>0, <3>4 DEF LockNewNode, LockNode, RecheckNode, At, WriterRec
    <3>5. CASE LockInode(v) \/ SetDirty(v)
      BY <1>0, <3>5 DEF LockInode, SetDirty, At, WriterRec
    <3>6. CASE CopyToOwnerless(v) \/ SwapVolumeBlock(v)
      BY <1>0, <3>6 DEF CopyToOwnerless, SwapVolumeBlock, At, WriterRec
    <3>. QED BY <1>1, <3>1, <3>2, <3>3, <3>4, <3>5, <3>6
  <2>2. \A l \in Lbns : ~ Stored(v, l) /\ ~ Stored(v, l)'
    BY <2>1 DEF Stored
  <2>. QED BY <2>1, <2>2 DEF Latest
<1>2. CASE CountDirty(v) \/ EnqueueDirty(v) \/ UnlockInode(v)
  <2>1. /\ acked' = acked /\ \A u \in Volumes : u # v => w'[u] = w[u]
        /\ w[v].pc \in {"count_dirty", "enqueue_dirty", "unlock_inode", "unlock_node"}
        /\ w'[v].pc \in {"count_dirty", "enqueue_dirty", "unlock_inode", "unlock_node"}
        /\ w'[v].lbn = w[v].lbn
    BY <1>0, <1>2 DEF CountDirty, EnqueueDirty, UnlockInode, At, WriterRec
  <2>2. \A l \in Lbns : Stored(v, l)' <=> Stored(v, l)
    BY <2>1 DEF Stored
  <2>. QED BY <2>1, <2>2 DEF Latest
<1>3. CASE SwapInodeBlock(v)
  <2>1. /\ w[v].pc = "swap_inode" /\ w[v].pc \in Locking /\ w[v].pc \in Storing
        /\ UNCHANGED <<istate, ivol, ilbn, acked>>
        /\ \A u \in Volumes : u # v => w'[u] = w[u]
        /\ w'[v].lbn = w[v].lbn
    BY <1>0, <1>3 DEF SwapInodeBlock, At, WriterRec, Locking, Storing
  <2>2. /\ w[v].idx \in Inodes /\ ivol[w[v].idx] = v /\ ilbn[w[v].idx] = w[v].lbn
        /\ istate[w[v].idx] = "DIRTY"
    <3>1. WriterSafe(v)
      BY DEF SafetyInv, WritersOK
    <3>. QED BY <2>1, <3>1, LockedInode DEF WriterSafe
  <2>3. ASSUME NEW l \in Lbns, l = w[v].lbn PROVE Pending(v, l)' # {}
    <3>1. w[v].idx \in Pending(v, l)'
      BY <2>1, <2>2, <2>3 DEF Pending
    <3>. QED BY <3>1
  <2>4. ASSUME NEW l \in Lbns, l # w[v].lbn PROVE ~ Stored(v, l) /\ ~ Stored(v, l)'
    BY <2>1, <2>4 DEF Stored
  <2>. QED BY <2>1, <2>3, <2>4 DEF Latest
<1>4. CASE UnlockNode(v)
  <2>1. /\ acked' = [acked EXCEPT ![v][w[v].lbn] = @ + 1]
        /\ \A u \in Volumes : u # v => w'[u] = w[u]
        /\ w[v].pc = "unlock_node" /\ w'[v].pc \in {"idle", "search"}
    BY <1>0, <1>4 DEF UnlockNode, At, WriterRec, Idle
  <2>2. /\ \A u \in Volumes : u # v => acked'[u] = acked[u]
        /\ \A l \in Lbns : l # w[v].lbn => acked'[v][l] = acked[v][l]
        /\ acked'[v][w[v].lbn] = acked[v][w[v].lbn] + 1
    BY <1>0, <2>1
  <2>3. /\ \A l \in Lbns : ~ Stored(v, l)' /\ (Stored(v, l) <=> l = w[v].lbn)
    BY <2>1 DEF Stored
  <2>4. ASSUME NEW l \in Lbns PROVE Latest(v, l)' = Latest(v, l)
    <3>1. acked[v][l] \in Int /\ acked'[v][l] \in Int
      BY <1>0, <2>2
    <3>. QED BY <2>2, <2>3, <3>1 DEF Latest
  <2>. QED BY <2>1, <2>2, <2>3, <2>4
<1>. QED BY <1>1, <1>2, <1>3, <1>4 DEF Writer, WriteStep

LEMMA RunLatest ==
    ASSUME TypeInv, SafetyInv, Next, NEW v \in Volumes, NEW l \in Lbns
    PROVE  \/ /\ Latest(v, l)' = Latest(v, l)
              /\ Stored(v, l)' => Stored(v, l)
              /\ acked'[v][l] # acked[v][l] => Stored(v, l)
           \/ Pending(v, l)' # {}
<1>1. ASSUME w'[v] = w[v], acked'[v] = acked[v]
      PROVE  /\ Latest(v, l)' = Latest(v, l)
             /\ Stored(v, l)' => Stored(v, l)
             /\ acked'[v][l] # acked[v][l] => Stored(v, l)
  <2>1. Stored(v, l)' <=> Stored(v, l)
    BY <1>1 DEF Stored
  <2>. QED BY <1>1, <2>1 DEF Latest
<1>2. ASSUME NEW u \in Volumes, Writer(u), u # v PROVE w'[v] = w[v] /\ acked'[v] = acked[v]
  BY <1>2, WriterLatest
<1>3. CASE Writer(v)
  BY <1>3, WriterLatest
<1>4. ASSUME ~ \E u \in Volumes : Writer(u) PROVE w'[v] = w[v] /\ acked'[v] = acked[v]
  BY <1>4 DEF Next, Flusher, Syncer, BalloonThread, writerVars
<1>. QED BY <1>1, <1>2, <1>3, <1>4

LEMMA RunSafe ==
    ASSUME LifeSafe, LifeTypes', cut = {} => FreesWhatItInvalidates, Run
    PROVE  LifeSafe'
<1>1. /\ phase = "running" /\ phase' = "running" /\ Next
      /\ torn' = {x \in torn : acked'[x[1]][x[2]] = acked[x[1]][x[2]]}
      /\ UNCHANGED <<cwdfile, cwddisk, cut>>
      /\ TypeInv /\ TypeInv'
  BY DEF Run, LifeSafe, LifeTypes
<1>2. ASSUME cut = {} PROVE SafetyInv /\ SafetyInv' /\ FilesKept
  <2>1. SafetyInv /\ FreesWhatItInvalidates
    BY <1>1, <1>2 DEF LifeSafe, UpOrDown
  <2>. QED BY <1>1, <2>1, SafetyStep
<1>3. ASSUME cut = {}, FilesKnown, NEW v \in Volumes, NEW l \in Lbns,
             (~ Torn(v, l) \/ Stored(v, l))', (Pending(v, l) = {})'
      PROVE  Filled(v, l)'
  <2>1. /\ Latest(v, l)' = Latest(v, l) /\ (Stored(v, l)' => Stored(v, l))
        /\ acked'[v][l] # acked[v][l] => Stored(v, l)
    BY <1>1, <1>2, <1>3, RunLatest
  <2>2. ~ Torn(v, l) \/ Stored(v, l)
    BY <1>1, <1>3, <2>1 DEF Torn
  <2>3. Kept(v, l)
    BY <1>3, <2>2 DEF FilesKnown
  <2>4. CASE FileHolds(v, l)
    <3>1. FileHolds(v, l)'
      BY <1>2, <1>3, <2>4 DEF FilesKept
    <3>. QED BY <1>3, <3>1 DEF FileHolds, Filled
  <2>5. CASE ~ FileHolds(v, l)
    <3>1. cwdfile[v][l] = Latest(v, l) /\ cwddisk[v][l] = Latest(v, l)
      BY <2>3, <2>5 DEF Kept, Filled, FileHolds
    <3>. QED BY <1>1, <2>1, <3>1 DEF Filled
  <2>. QED BY <2>4, <2>5
<1>4. ASSUME cut = {}, FilesKnown PROVE FilesKnown'
  BY <1>3, <1>4 DEF FilesKnown, Kept
<1>. QED BY <1>1, <1>2, <1>4 DEF LifeSafe, UpOrDown, FilesFound

(***************************************************************************)
(* At a crash, and while nvm_system_init recovers                          *)
(***************************************************************************)

\* The tables that a crash finds, unless it cuts an exchange in two.
LEMMA TablesFound ==
    ASSUME TypeInv, SafetyInv
    PROVE  /\ (\A v \in Volumes : w[v].pc # "swap_inode") => BlocksApart
           /\ PendingApart
           /\ \A i \in Inodes :
                 NeedsRecovery(i) /\ ~ Exchanging(ivol[i], ilbn[i]) =>
                     data[iblock[i]] = Latest(ivol[i], ilbn[i])
<1>1. ASSUME \A v \in Volumes : w[v].pc # "swap_inode" PROVE BlocksApart
  <2>1. \A i \in Inodes : HeldBy(i) = iblock[i]
    BY <1>1, Types DEF HeldBy, Swapping
  <2>. QED BY <2>1 DEF SafetyInv, BlocksOK, BlocksApart
<1>2. ASSUME NEW i \in Inodes, NeedsRecovery(i) PROVE node[ivol[i]][ilbn[i]].inode = i
  <2>1. istate[i] # "FREE" /\ istate[i] # "CLEAN"
    BY <1>2 DEF NeedsRecovery
  <2>2. ~ Unhooking(i)
    BY <2>1 DEF Unhooking, SafetyInv, BalloonsOK, BalloonSafe
  <2>. QED BY <2>1, <2>2 DEF SafetyInv, InUseOK
<1>3. PendingApart
  BY <1>2 DEF PendingApart
<1>4. \A i \in Inodes : NeedsRecovery(i) => istate[i] # "FREE"
  BY DEF NeedsRecovery
<1>. QED BY <1>1, <1>3, <1>4 DEF SafetyInv, ContentsOK, InodeHolds

\* Nobody is writing.
LEMMA HaltedLatest ==
    ASSUME Halted, NEW v \in Volumes, NEW l \in Lbns
    PROVE  ~ Stored(v, l) /\ ~ Exchanging(v, l)
BY DEF Halted, Stored, Exchanging

LEMMA CrashHalts ==
    ASSUME Crash
    PROVE  Halted'
<1>1. /\ w' = [v \in Volumes |-> Idle] /\ f' = [t \in Flushers |-> FlusherIdle]
      /\ s' = [k \in Syncers |-> SyncerIdle] /\ b' = [k \in Balloons |-> BalloonIdle]
      /\ node' = [v \in Volumes |-> [l \in Lbns |-> NoNode]]
      /\ ilock' = [i \in Inodes |-> FALSE]
      /\ FreshQueues
  BY DEF Crash
<1>2. /\ \A v \in Volumes, l \in Lbns : node'[v][l].inode = NoInode /\ ~ node'[v][l].valid
      /\ \A v \in Volumes : w'[v].pc = "idle"
      /\ \A t \in Flushers : f'[t].pc = "idle" /\ f'[t].batch = <<>> /\ f'[t].failed = NoInode
      /\ \A k \in Syncers : s'[k].pc = "idle"
      /\ \A k \in Balloons : b'[k].pc = "idle"
  BY <1>1 DEF NoNode, Idle, FlusherIdle, SyncerIdle, BalloonIdle
<1>3. /\ freeq' = [j \in FreeQueues |-> InitialFree(j)]
      /\ \A v \in Volumes : dirtyq'[v] = <<>>
      /\ \A k \in Syncers : syncq'[k] = <<>>
      /\ inuseq' = [n \in 1 .. NumVolumes |-> n - 1]
  BY <1>1 DEF FreshQueues, FreshQueuesWith, FreeQueues
<1>. QED BY <1>1, <1>2, <1>3 DEF Halted

\* A write that a crash cut short counts as acknowledged: its content is the
\* one that must not be expected.
LEMMA CrashLatest ==
    ASSUME TypeInv, Crash, NEW v \in Volumes, NEW l \in Lbns, ~ Torn(v, l)'
    PROVE  /\ Latest(v, l)' = Latest(v, l)
           /\ ~ Torn(v, l) /\ ~ Exchanging(v, l)
<1>1. torn' = torn \cup {x \in Volumes \X Lbns : Exchanging(x[1], x[2])}
  BY DEF Crash
<1>2. ~ Torn(v, l) /\ ~ Exchanging(v, l)
  BY <1>1 DEF Torn
<1>3. ~ Stored(v, l)'
  BY HaltedLatest, CrashHalts DEF Crash, Stored, Idle
<1>4. acked'[v][l] = acked[v][l] + IF Stored(v, l) THEN 1 ELSE 0
  BY <1>2 DEF Crash
<1>5. acked'[v][l] + 0 = acked'[v][l]
  <2>1. acked[v][l] \in Int
    BY DEF TypeInv, TypeOK, WriterTypeOK
  <2>. QED BY <1>4, <2>1
<1>6. Latest(v, l)' = Content(v, l, acked'[v][l])
  BY <1>3, <1>5 DEF Latest
<1>. QED BY <1>2, <1>4, <1>6 DEF Latest

LEMMA CrashSafe ==
    ASSUME LifeSafe, LifeTypes', Crash
    PROVE  LifeSafe'
<1>1. /\ phase' = "write" /\ rec' = 0
      /\ cut' = cut \cup {v \in Volumes : At(v, "swap_inode")}
      /\ (file' = file /\ cwdfile' = cwdfile) \/ (file' = disk /\ cwdfile' = cwddisk)
      /\ UNCHANGED <<istate, ilbn, ivol, iblock, vblock, data, disk, cwddisk>>
      /\ TypeInv /\ TypeInv'
  BY DEF Crash, LifeSafe, LifeTypes
<1>2. \A i \in Inodes : NeedsRecovery(i)' <=> NeedsRecovery(i)
  BY <1>1 DEF NeedsRecovery
<1>3. ASSUME cut' = {}
      PROVE  BlocksApart /\ PendingApart
  <2>1. cut = {} /\ \A v \in Volumes : w[v].pc # "swap_inode"
    BY <1>1, <1>3 DEF At
  <2>. QED BY <1>1, <2>1, TablesFound DEF LifeSafe, UpOrDown
<1>4. ASSUME cut' = {} PROVE UpOrDown'
  <2>1. BlocksApart' /\ PendingApart'
    BY <1>1, <1>2, <1>3, <1>4 DEF BlocksApart, PendingApart
  <2>. QED BY <1>1, <2>1, CrashHalts DEF UpOrDown, CleanedUp
<1>5. ASSUME cut' = {}, NumLbns <= OffsetSpan PROVE FilesFound'
  <2>1. cut = {} /\ UpOrDown /\ FilesFound
    BY <1>1, <1>5 DEF LifeSafe
  <2>2. ASSUME NEW v \in Volumes, NEW l \in Lbns, (~ Torn(v, l) \/ Stored(v, l))'
        PROVE  Kept(v, l)'
    <3>1. ~ Torn(v, l)'
      BY <2>2, CrashHalts DEF Stored, Crash, Idle
    <3>2. Latest(v, l)' = Latest(v, l) /\ ~ Torn(v, l)
      BY <1>1, <3>1, CrashLatest
    <3>3. Kept(v, l)
      BY <2>1, <3>2 DEF FilesFound, FilesKnown
    <3>4. Filled(v, l) => Filled(v, l)'
      BY <1>1, <3>2 DEF Filled
    <3>5. Pending(v, l)' = Pending(v, l)
      BY <1>1 DEF Pending
    <3>. QED BY <3>3, <3>4, <3>5 DEF Kept
  <2>3. ASSUME NEW i \in Inodes, NeedsRecovery(i), NEW v \in Volumes, NEW l \in Lbns,
               v = ivol[i], l = ilbn[i], ~ Torn(v, l)'
        PROVE  data[iblock[i]] = Latest(v, l)'
    <3>1. Latest(v, l)' = Latest(v, l) /\ ~ Torn(v, l) /\ ~ Exchanging(v, l)
      BY <1>1, <2>3, CrashLatest
    <3>2. CASE phase = "running"
      BY <1>1, <2>1, <2>3, <3>1, <3>2, TablesFound DEF UpOrDown
    <3>3. CASE phase # "running"
      BY <2>1, <2>3, <3>1, <3>3 DEF FilesFound, PendingHolds
    <3>. QED BY <3>2, <3>3
  <2>4. FilesKnown'
    BY <2>2 DEF FilesKnown
  <2>5. PendingHolds'
    <3>1. \A i \in Inodes : ivol[i] \in Volumes /\ ilbn[i] \in Lbns
      BY <1>1, Types
    <3>. QED BY <1>1, <1>2, <2>3, <3>1 DEF PendingHolds, Torn, Latest, Stored
  <2>6. WrittenBack'
    BY <1>1 DEF WrittenBack, Inodes
  <2>. QED BY <2>4, <2>5, <2>6 DEF FilesFound
<1>. QED BY <1>4, <1>5 DEF LifeSafe

\* Recovery moves no thread and no block.
LEMMA RecoveryKeeps ==
    ASSUME UNCHANGED <<memory, ivol, ilbn, iblock, ilock, torn>>
    PROVE  /\ (Halted => Halted') /\ (BlocksApart => BlocksApart')
           /\ \A v \in Volumes, l \in Lbns :
                 /\ Latest(v, l)' = Latest(v, l)
                 /\ (Stored(v, l)' <=> Stored(v, l)) /\ (Torn(v, l)' <=> Torn(v, l))
<1>1. UNCHANGED <<ivol, ilbn, iblock, ilock, torn, vblock, node, freeq, dirtyq, syncq, inuseq,
                  w, acked, f, s, b>>
  BY DEF memory, queues, writerVars
<1>2. (Halted => Halted') /\ (BlocksApart => BlocksApart')
  BY <1>1 DEF Halted, BlocksApart
<1>3. ASSUME NEW v \in Volumes, NEW l \in Lbns
      PROVE  /\ Latest(v, l)' = Latest(v, l)
             /\ (Stored(v, l)' <=> Stored(v, l)) /\ (Torn(v, l)' <=> Torn(v, l))
  BY <1>1 DEF Latest, Stored, Torn
<1>. QED BY <1>2, <1>3

LEMMA RecoverWriteSafe ==
    ASSUME LifeSafe, LifeTypes', RecoverWrite
    PROVE  LifeSafe'
<1>1. /\ phase = "write" /\ phase' = "write" /\ rec \in Inodes /\ rec' = rec + 1
      /\ UNCHANGED <<memory, inodeTable, storage, cwddisk, cut, torn>>
      /\ TypeInv
  BY Sizes DEF RecoverWrite, LifeSafe, LifeTypes, Inodes
<1>2. UNCHANGED <<istate, ivol, ilbn, iblock, ilock, data, file, disk>>
  BY <1>1 DEF memory, inodeTable, storage
<1>3. /\ (Halted => Halted') /\ (BlocksApart => BlocksApart')
      /\ \A v \in Volumes, l \in Lbns :
            /\ Latest(v, l)' = Latest(v, l)
            /\ (Stored(v, l)' <=> Stored(v, l)) /\ (Torn(v, l)' <=> Torn(v, l))
  BY <1>1, <1>2, RecoveryKeeps
<1>4. \A i \in Inodes : NeedsRecovery(i)' <=> NeedsRecovery(i)
  BY <1>2 DEF NeedsRecovery
<1>5. ASSUME cut = {} PROVE UpOrDown'
  <2>1. Halted /\ BlocksApart /\ PendingApart
    BY <1>1, <1>5 DEF LifeSafe, UpOrDown
  <2>2. PendingApart'
    BY <1>2, <1>4, <2>1 DEF PendingApart
  <2>. QED BY <1>1, <1>3, <2>1, <2>2 DEF UpOrDown, CleanedUp
<1>6. ASSUME cut = {}, NumLbns <= OffsetSpan PROVE FilesFound'
  <2>1. FilesKnown /\ PendingHolds /\ WrittenBack /\ PendingApart
    BY <1>1, <1>6 DEF LifeSafe, FilesFound, UpOrDown
  <2>2. \A i \in Inodes : ivol[i] \in Volumes /\ ilbn[i] \in Lbns /\ ilbn[i] % OffsetSpan = ilbn[i]
    <3>1. ASSUME NEW i \in Inodes PROVE ilbn[i] % OffsetSpan = ilbn[i]
      <4>1. ilbn[i] \in 0 .. NumLbns - 1 /\ NumLbns \in Nat /\ OffsetSpan \in Nat \ {0}
        BY <1>1, Types, Sizes, CrashAssumption DEF Lbns
      <4>. QED BY <1>6, <4>1
    <3>. QED BY <1>1, <3>1, Types
  <2>3. /\ NeedsRecovery(rec) => cwdfile'[ivol[rec]][ilbn[rec]] = data[iblock[rec]]
        /\ \A v \in Volumes, l \in Lbns :
              ~ (NeedsRecovery(rec) /\ v = ivol[rec] /\ l = ilbn[rec]) =>
                  cwdfile'[v][l] = cwdfile[v][l]
    <3>1. cwdfile \in [Volumes -> [Lbns -> Contents]]
      BY DEF LifeSafe, LifeTypes
    <3>2. cwdfile' = IF NeedsRecovery(rec)
                     THEN [cwdfile EXCEPT ![ivol[rec]][ilbn[rec]] = data[iblock[rec]]]
                     ELSE cwdfile
      BY <1>1, <2>2 DEF RecoverWrite
    <3>. QED BY <1>1, <2>2, <3>1, <3>2
  <2>4. ASSUME NEW v \in Volumes, NEW l \in Lbns, (~ Torn(v, l) \/ Stored(v, l))'
        PROVE  Kept(v, l)'
    <3>1. Kept(v, l) /\ Pending(v, l)' = Pending(v, l)
      BY <1>2, <1>3, <2>1, <2>4 DEF FilesKnown, Pending
    <3>2. ASSUME Pending(v, l) = {} PROVE cwdfile'[v][l] = cwdfile[v][l]
      <4>1. ~ (NeedsRecovery(rec) /\ v = ivol[rec] /\ l = ilbn[rec])
        BY <1>1, <3>2 DEF Pending, NeedsRecovery
      <4>. QED BY <2>3, <4>1
    <3>. QED BY <1>1, <1>2, <1>3, <3>1, <3>2 DEF Kept, Filled
  <2>5. ASSUME NEW i \in Inodes, NeedsRecovery(i), ~ Torn(ivol[i], ilbn[i]), i < rec + 1
        PROVE  cwdfile'[ivol[i]][ilbn[i]] = Latest(ivol[i], ilbn[i])
    <3>1. CASE i = rec
      BY <2>1, <2>3, <2>5, <3>1 DEF PendingHolds
    <3>2. CASE i # rec
      <4>1. i < rec
        BY <1>1, <2>5, <3>2 DEF Inodes
      <4>2. cwdfile[ivol[i]][ilbn[i]] = Latest(ivol[i], ilbn[i])
        BY <2>1, <2>5, <4>1 DEF WrittenBack
      <4>3. ~ (NeedsRecovery(rec) /\ ivol[i] = ivol[rec] /\ ilbn[i] = ilbn[rec])
        BY <1>1, <2>1, <2>5, <3>2 DEF PendingApart
      <4>. QED BY <2>2, <2>3, <4>2, <4>3
    <3>. QED BY <3>1, <3>2
  <2>6. WrittenBack'
    <3>1. \A i \in Inodes :
             NeedsRecovery(i)' /\ ~ Torn(ivol[i], ilbn[i]) /\ i < rec' =>
                 cwdfile'[ivol[i]][ilbn[i]] = Latest(ivol[i], ilbn[i])
      BY <1>1, <1>4, <2>5
    <3>. QED BY <1>1, <1>2, <1>3, <2>2, <3>1 DEF WrittenBack, Torn, Latest, Stored
  <2>7. PendingHolds'
    BY <1>2, <1>3, <1>4, <2>1, <2>2 DEF PendingHolds, Torn, Latest, Stored
  <2>. QED BY <2>4, <2>6, <2>7 DEF FilesFound, FilesKnown
<1>. QED BY <1>1, <1>5, <1>6 DEF LifeSafe

LEMMA RecoverSyncSafe ==
    ASSUME LifeSafe, LifeTypes', RecoverSync
    PROVE  LifeSafe'
<1>1. /\ phase = "write" /\ phase' = "clean" /\ rec = NumInodes /\ rec' = 0
      /\ disk' = file /\ cwddisk' = cwdfile
      /\ UNCHANGED <<memory, inodeTable, file, cwdfile, cut, torn>>
      /\ TypeInv
  BY DEF RecoverSync, LifeSafe, LifeTypes
<1>2. UNCHANGED <<istate, ivol, ilbn, iblock, ilock, data>>
  BY <1>1 DEF memory, inodeTable
<1>3. /\ (Halted => Halted') /\ (BlocksApart => BlocksApart')
      /\ \A v \in Volumes, l \in Lbns :
            /\ Latest(v, l)' = Latest(v, l)
            /\ (Stored(v, l)' <=> Stored(v, l)) /\ (Torn(v, l)' <=> Torn(v, l))
  BY <1>1, <1>2, RecoveryKeeps
<1>4. \A i \in Inodes : (NeedsRecovery(i)' <=> NeedsRecovery(i)) /\ i < rec /\ ~ (i < rec')
  BY <1>1, <1>2, Sizes DEF NeedsRecovery, Inodes
<1>5. ASSUME cut = {} PROVE UpOrDown'
  <2>1. Halted /\ BlocksApart /\ PendingApart
    BY <1>1, <1>5 DEF LifeSafe, UpOrDown
  <2>2. PendingApart'
    BY <1>2, <1>4, <2>1 DEF PendingApart
  <2>. QED BY <1>1, <1>3, <1>4, <2>1, <2>2 DEF UpOrDown, CleanedUp
<1>6. ASSUME cut = {}, NumLbns <= OffsetSpan PROVE FilesFound'
  <2>1. FilesKnown /\ PendingHolds /\ WrittenBack
    BY <1>1, <1>6 DEF LifeSafe, FilesFound
  <2>2. \A i \in Inodes : ivol[i] \in Volumes /\ ilbn[i] \in Lbns
    BY <1>1, Types
  <2>3. ASSUME NEW v \in Volumes, NEW l \in Lbns, (~ Torn(v, l) \/ Stored(v, l))'
        PROVE  Kept(v, l)'
    <3>1. Kept(v, l) /\ Pending(v, l)' = Pending(v, l)
      BY <1>2, <1>3, <2>1, <2>3 DEF FilesKnown, Pending
    <3>. QED BY <1>1, <1>3, <3>1 DEF Kept, Filled
  <2>4. \A i \in Inodes :
           NeedsRecovery(i) /\ ~ Torn(ivol[i], ilbn[i]) =>
               cwdfile[ivol[i]][ilbn[i]] = Latest(ivol[i], ilbn[i])
    BY <1>4, <2>1 DEF WrittenBack
  <2>5. WrittenBack'
    BY <1>1, <1>2, <1>3, <1>4, <2>2, <2>4 DEF WrittenBack, Torn, Latest, Stored
  <2>6. PendingHolds'
    BY <1>2, <1>3, <1>4, <2>1, <2>2 DEF PendingHolds, Torn, Latest, Stored
  <2>. QED BY <2>3, <2>5, <2>6 DEF FilesFound, FilesKnown
<1>. QED BY <1>1, <1>5, <1>6 DEF LifeSafe

\* A block that is no longer pending was written back and synced before.
LEMMA RecoverCleanSafe ==
    ASSUME LifeSafe, LifeTypes', RecoverClean
    PROVE  LifeSafe'
<1>1. /\ phase = "clean" /\ phase' = "clean" /\ rec \in Inodes /\ rec' = rec + 1
      /\ UNCHANGED <<memory, ilbn, ivol, iblock, ilock, storage, cwdfile, cwddisk, cut, torn>>
      /\ TypeInv
  BY Sizes DEF RecoverClean, LifeSafe, LifeTypes, Inodes
<1>2. UNCHANGED <<data, file, disk>>
  BY <1>1 DEF memory, storage
<1>3. /\ (Halted => Halted') /\ (BlocksApart => BlocksApart')
      /\ \A v \in Volumes, l \in Lbns :
            /\ Latest(v, l)' = Latest(v, l)
            /\ (Stored(v, l)' <=> Stored(v, l)) /\ (Torn(v, l)' <=> Torn(v, l))
  BY <1>1, RecoveryKeeps
<1>4. \A i \in Inodes : NeedsRecovery(i)' <=> NeedsRecovery(i) /\ i # rec
  <2>1. istate' = IF NeedsRecovery(rec) THEN [istate EXCEPT ![rec] = "CLEAN"] ELSE istate
    BY DEF RecoverClean
  <2>2. istate \in [Inodes -> States]
    BY <1>1, Types
  <2>. QED BY <1>1, <2>1, <2>2 DEF NeedsRecovery
<1>5. ASSUME cut = {} PROVE UpOrDown'
  <2>1. Halted /\ BlocksApart /\ PendingApart /\ CleanedUp
    BY <1>1, <1>5 DEF LifeSafe, UpOrDown
  <2>2. PendingApart'
    BY <1>1, <1>4, <2>1 DEF PendingApart
  <2>3. \A i \in Inodes : i < rec + 1 => i < rec \/ i = rec
    BY <1>1 DEF Inodes
  <2>4. CleanedUp'
    BY <1>1, <1>4, <2>1, <2>3 DEF CleanedUp
  <2>. QED BY <1>1, <1>3, <2>1, <2>2, <2>4 DEF UpOrDown
<1>6. ASSUME cut = {}, NumLbns <= OffsetSpan PROVE FilesFound'
  <2>1. FilesKnown /\ PendingHolds /\ WrittenBack
    BY <1>1, <1>6 DEF LifeSafe, FilesFound
  <2>2. \A i \in Inodes : ivol[i] \in Volumes /\ ilbn[i] \in Lbns
    BY <1>1, Types
  <2>3. ASSUME NEW v \in Volumes, NEW l \in Lbns, (~ Torn(v, l) \/ Stored(v, l))'
        PROVE  Kept(v, l)'
    <3>1. Kept(v, l)
      BY <1>3, <2>1, <2>3 DEF FilesKnown
    <3>2. ~ Torn(v, l)
      <4>1. Halted
        BY <1>1, <1>6 DEF LifeSafe, UpOrDown
      <4>2. ~ Stored(v, l)
        BY <4>1, HaltedLatest
      <4>. QED BY <1>3, <2>3, <4>2
    <3>3. ASSUME Pending(v, l)' = {}, Pending(v, l) # {} PROVE Filled(v, l)
      <4>1. PICK i \in Inodes : NeedsRecovery(i) /\ ivol[i] = v /\ ilbn[i] = l
        BY <3>3 DEF Pending, NeedsRecovery
      <4>. QED BY <1>1, <2>1, <3>2, <4>1 DEF WrittenBack, Filled
    <3>4. Filled(v, l)' <=> Filled(v, l)
      BY <1>1, <1>2, <1>3 DEF Filled
    <3>. QED BY <3>1, <3>3, <3>4 DEF Kept
  <2>4. WrittenBack'
    BY <1>1, <1>3, <1>4, <2>1, <2>2 DEF WrittenBack, Torn, Latest, Stored
  <2>5. PendingHolds'
    BY <1>1, <1>2, <1>3, <1>4, <2>1, <2>2 DEF PendingHolds, Torn, Latest, Stored
  <2>. QED BY <2>3, <2>4, <2>5 DEF FilesFound, FilesKnown
<1>. QED BY <1>1, <1>5, <1>6 DEF LifeSafe

\* nvm_system_init ends as nvm_structure_build did, but for the blocks and the
\* files: the running system relies on neither being as new.
LEMMA BootLifeSafe ==
    ASSUME LifeSafe, LifeTypes', Boot
    PROVE  LifeSafe'
<1>1. /\ phase = "clean" /\ phase' = "running" /\ rec = NumInodes
      /\ istate' = [i \in Inodes |-> "FREE"]
      /\ UNCHANGED <<memory, ilbn, ivol, iblock, ilock, storage, cwdfile, cwddisk, cut, torn>>
      /\ TypeInv /\ TypeInv'
  BY DEF Boot, LifeSafe, LifeTypes
<1>2. UNCHANGED <<data, file, disk>>
  BY <1>1 DEF memory, storage
<1>3. /\ (Halted => Halted') /\ (BlocksApart => BlocksApart')
      /\ \A v \in Volumes, l \in Lbns :
            /\ Latest(v, l)' = Latest(v, l)
            /\ (Stored(v, l)' <=> Stored(v, l)) /\ (Torn(v, l)' <=> Torn(v, l))
  BY <1>1, RecoveryKeeps
<1>4. ASSUME cut = {} PROVE SafetyInv'
  <2>1. Halted' /\ BlocksApart'
    BY <1>1, <1>3, <1>4 DEF LifeSafe, UpOrDown
  <2>2. Booted'
    BY <1>1, <2>1 DEF Booted
  <2>. QED BY <1>1, <2>1, <2>2, BootSafe, PTL
<1>5. ASSUME cut = {}, NumLbns <= OffsetSpan PROVE FilesKnown'
  <2>1. FilesKnown /\ CleanedUp
    BY <1>1, <1>5 DEF LifeSafe, FilesFound, UpOrDown
  <2>2. \A i \in Inodes : ~ NeedsRecovery(i)
    BY <1>1, <2>1, Sizes DEF CleanedUp, Inodes
  <2>3. ASSUME NEW v \in Volumes, NEW l \in Lbns, (~ Torn(v, l) \/ Stored(v, l))'
        PROVE  Kept(v, l)'
    <3>1. Kept(v, l) /\ Pending(v, l) = {}
      BY <1>3, <2>1, <2>2, <2>3 DEF FilesKnown, Pending, NeedsRecovery
    <3>. QED BY <1>1, <1>2, <1>3, <3>1 DEF Kept, Filled
  <2>. QED BY <2>3 DEF FilesKnown
<1>. QED BY <1>1, <1>4, <1>5 DEF LifeSafe, UpOrDown, FilesFound

LEMMA LifeStutter ==
    ASSUME LifeSafe, LifeTypes', UNCHANGED lifeVars
    PROVE  LifeSafe'
<1>1. UNCHANGED vars /\ UNCHANGED <<phase, rec, cwdfile, cwddisk, cut, torn>> /\ TypeInv /\ TypeInv'
  BY DEF lifeVars, restartVars, LifeSafe, LifeTypes
<1>2. SafetyInv => SafetyInv'
  BY <1>1, SafetyStutter
<1>3. UNCHANGED <<memory, inodeTable, storage>>
  BY <1>1 DEF vars, shared, memory, writerVars, queues, indices, counts, inodeTable, storage
<1>4. UNCHANGED <<istate, ivol, ilbn, iblock, ilock, data, file, disk>>
  BY <1>3 DEF memory, inodeTable, storage
<1>5. /\ (Halted => Halted') /\ (BlocksApart => BlocksApart')
      /\ \A v \in Volumes, l \in Lbns :
            /\ Latest(v, l)' = Latest(v, l)
            /\ (Stored(v, l)' <=> Stored(v, l)) /\ (Torn(v, l)' <=> Torn(v, l))
  BY <1>1, <1>3, <1>4, RecoveryKeeps
<1>6. \A i \in Inodes : NeedsRecovery(i)' <=> NeedsRecovery(i)
  BY <1>4 DEF NeedsRecovery
<1>7. (PendingApart => PendingApart') /\ (CleanedUp => CleanedUp')
  BY <1>1, <1>4, <1>6 DEF PendingApart, CleanedUp
<1>8. \A i \in Inodes : ivol[i] \in Volumes /\ ilbn[i] \in Lbns
  BY <1>1, Types
<1>9. (PendingHolds => PendingHolds') /\ (WrittenBack => WrittenBack')
  <2>1. PendingHolds => PendingHolds'
    BY <1>4, <1>5, <1>6, <1>8 DEF PendingHolds, Torn, Latest, Stored
  <2>2. WrittenBack => WrittenBack'
    BY <1>1, <1>4, <1>5, <1>6, <1>8 DEF WrittenBack, Torn, Latest, Stored
  <2>. QED BY <2>1, <2>2
<1>10. FilesKnown => FilesKnown'
  <2>1. ASSUME NEW v \in Volumes, NEW l \in Lbns PROVE Kept(v, l)' <=> Kept(v, l)
    BY <1>1, <1>4, <1>5 DEF Kept, Filled, Pending
  <2>. QED BY <1>5, <2>1 DEF FilesKnown
<1>. QED BY <1>1, <1>2, <1>5, <1>7, <1>9, <1>10 DEF LifeSafe, UpOrDown, FilesFound

LEMMA LifeSafeStep ==
    ASSUME LifeSafe, cut = {} /\ phase = "running" => FreesWhatItInvalidates,
           [RestartNext]_lifeVars
    PROVE  LifeSafe'
<1>1. LifeTypes'
  BY LifeTypesStep DEF LifeSafe
<1>2. CASE Run
  <2>1. cut = {} => FreesWhatItInvalidates
    BY <1>2 DEF Run
  <2>. QED BY <1>1, <1>2, <2>1, RunSafe
<1>3. CASE Crash \/ RecoverWrite \/ RecoverSync \/ RecoverClean \/ Boot
  BY <1>1, <1>3, CrashSafe, RecoverWriteSafe, RecoverSyncSafe, RecoverCleanSafe, BootLifeSafe
<1>4. CASE UNCHANGED lifeVars
  BY <1>1, <1>4, LifeStutter
<1>. QED BY <1>2, <1>3, <1>4 DEF RestartNext

LEMMA LifeSafeInit == RestartInit => LifeSafe
<1>. SUFFICES ASSUME RestartInit PROVE LifeSafe
  OBVIOUS
<1>1. Init /\ phase = "running"
  BY DEF RestartInit
<1>2. TypeInv /\ SafetyInv /\ FilesOK
  BY <1>1, TypeInit, SafetyInit
<1>3. FilesKnown
  BY <1>2 DEF FilesOK, FileHolds, FilesKnown, Kept, Filled
<1>. QED BY <1>1, <1>2, <1>3, LifeTypesInit DEF LifeSafe, UpOrDown, FilesFound

(***************************************************************************)
(* What survives                                                           *)
(***************************************************************************)
LEMMA RestartsFollow ==
    ASSUME LifeSafe
    PROVE  WritesSurviveRestarts
<1>. SUFFICES ASSUME cut = {}, NumLbns <= OffsetSpan, NEW v \in Volumes, NEW l \in Lbns,
                     ~ Exchanging(v, l), ~ Torn(v, l)
              PROVE  IF Pending(v, l) = {} THEN Latest(v, l) \in {disk[v][l], cwddisk[v][l]}
                     ELSE Latest(v, l) = Recovered(v, l)
  BY DEF WritesSurviveRestarts, LastWritesFound, Latest, Torn
<1>1. TypeInv /\ UpOrDown /\ FilesFound
  BY DEF LifeSafe, LifeTypes
<1>2. CASE Pending(v, l) = {}
  BY <1>1, <1>2 DEF FilesFound, FilesKnown, Kept, Filled
<1>3. CASE Pending(v, l) # {} /\ phase = "running"
  BY <1>1, <1>3, RecoveredFollows DEF UpOrDown
<1>4. CASE Pending(v, l) # {} /\ phase # "running"
  <2>1. PICK i : i \in Pending(v, l)
    BY <1>4
  <2>2. PendingApart /\ PendingHolds
    BY <1>1, <1>4 DEF UpOrDown, FilesFound
  <2>3. i \in Inodes /\ NeedsRecovery(i) /\ ivol[i] = v /\ ilbn[i] = l
    BY <2>1 DEF Pending, NeedsRecovery
  <2>4. \A j \in Pending(v, l) : j = i
    BY <2>2, <2>3 DEF Pending, NeedsRecovery, PendingApart
  <2>5. i <= i
    BY <2>3 DEF Inodes
  <2>6. (CHOOSE x \in Pending(v, l) : \A j \in Pending(v, l) : j <= x) = i
    BY <2>1, <2>4, <2>5
  <2>. QED BY <1>4, <2>2, <2>3, <2>6 DEF Recovered, PendingHolds
<1>. QED BY <1>2, <1>3, <1>4

LEMMA PermutationFollows ==
    ASSUME LifeSafe
    PROVE  OnlyACutBreaksThePermutation
<1>. SUFFICES ASSUME cut = {} PROVE BlocksArePermuted
  BY DEF OnlyACutBreaksThePermutation
<1>1. TypeInv /\ UpOrDown
  BY DEF LifeSafe, LifeTypes
<1>2. CASE phase = "running"
  BY <1>1, <1>2, BlocksFollow DEF UpOrDown
<1>3. CASE phase # "running"
  <2>1. Halted /\ BlocksApart
    BY <1>1, <1>3 DEF UpOrDown
  <2>2. \A i \in Inodes : BlockOf(i) = iblock[i]
    BY <2>1 DEF Halted, BlockOf, At
  <2>3. /\ \A i \in Inodes : iblock[i] \in Blocks
        /\ \A v \in Volumes : vblock[v] \in Blocks
    BY <1>1, Types
  <2>. QED BY <2>1, <2>2, <2>3 DEF BlocksApart, BlocksArePermuted
<1>. QED BY <1>2, <1>3

LEMMA FreesWhenUp ==
    ASSUME NumBalloons = 1, LifeSafe, cut = {}, phase = "running"
    PROVE  FreesWhatItInvalidates
BY FreesFollows DEF LifeSafe, UpOrDown

\* Whenever and however often the system crashes, also in the middle of
\* recovery_start (nvm0nvm.cc 352-383), the last completed write of every block
\* is in NVM or in a synced file, unless a crash cut an exchange in two or a
\* volume is too large for the offset: the writing back, sync() and the marking
\* of inodes as clean come in the order that makes a repetition harmless.
THEOREM RestartsKeepWrites ==
    RestartSpec /\ []FreesWhatItInvalidates => []WritesSurviveRestarts
<1>1. LifeSafe /\ FreesWhatItInvalidates /\ [RestartNext]_lifeVars => LifeSafe'
  BY LifeSafeStep
<1>2. LifeSafe => WritesSurviveRestarts
  BY RestartsFollow
<1>. QED BY <1>1, <1>2, LifeSafeInit, PTL DEF RestartSpec

\* The same for the block indices of any number of volumes: only a crash
\* between the two assignments of an exchange (nvm0write.cc 50-51) gives a
\* block two owners.
THEOREM RestartsKeepBlocks ==
    RestartSpec /\ []FreesWhatItInvalidates => []OnlyACutBreaksThePermutation
<1>1. LifeSafe /\ FreesWhatItInvalidates /\ [RestartNext]_lifeVars => LifeSafe'
  BY LifeSafeStep
<1>2. LifeSafe => OnlyACutBreaksThePermutation
  BY PermutationFollows
<1>. QED BY <1>1, <1>2, LifeSafeInit, PTL DEF RestartSpec

\* With one balloon thread both hold without a condition on what it frees.
THEOREM OneBalloonRestarts ==
    NumBalloons = 1 =>
        (RestartSpec => [](WritesSurviveRestarts /\ OnlyACutBreaksThePermutation))
<1>. SUFFICES ASSUME NumBalloons = 1
              PROVE  RestartSpec => [](WritesSurviveRestarts /\ OnlyACutBreaksThePermutation)
  OBVIOUS
<1>1. LifeSafe /\ [RestartNext]_lifeVars => LifeSafe'
  BY LifeSafeStep, FreesWhenUp
<1>2. LifeSafe => WritesSurviveRestarts /\ OnlyACutBreaksThePermutation
  BY RestartsFollow, PermutationFollows
<1>. QED BY <1>1, <1>2, LifeSafeInit, PTL DEF RestartSpec
=============================================================================
