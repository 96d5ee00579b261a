------------------------------ MODULE Restart ------------------------------
(***************************************************************************)
(* Crashes of the burst buffer, and what nvm_system_init does after one:   *)
(* recovery_start, then fresh queues, counters and threads over the inode, *)
(* volume and block tables that were in non-volatile memory.               *)
(*                                                                         *)
(* nvm_structure_build is "called ONCE when the NVM system is first        *)
(* created" (nvm0nvm.cc 63): a restart finds the tables as they were.      *)
(***************************************************************************)
EXTENDS BurstBuffer

CONSTANTS
    MaxCrashes,     \* bound: how often the system may crash
    OffsetSpan      \* blocks in 2^32 bytes, what recovery_start can seek to

ASSUME CrashAssumption == MaxCrashes \in Nat /\ OffsetSpan \in Nat \ {0}

VARIABLES
    phase,              \* where nvm_system_init is, or "running"
    rec,                \* the inode at which a loop of recovery_start is
    cwdfile, cwddisk,   \* the VOL_<vid>.txt that recovery_start opens: written, synced
    crashes,
    cut,                \* ghost: volumes whose exchange a crash cut in two
    torn                \* ghost: blocks that were being written at a crash

restartVars == <<phase, rec, cwdfile, cwddisk, crashes, cut, torn>>
lifeVars == <<vars, restartVars>>

RestartInit ==
    /\ Init
    /\ phase = "running"
    /\ rec = 0
    /\ cwdfile = [v \in Volumes |-> [l \in Lbns |-> Blank]]
    /\ cwddisk = cwdfile
    /\ crashes = 0
    /\ cut = {}
    /\ torn = {}

Run ==
    /\ phase = "running"
    /\ Next
    /\ torn' = {x \in torn : acked'[x[1]][x[2]] = acked[x[1]][x[2]]}
    /\ UNCHANGED <<phase, rec, cwdfile, cwddisk, crashes, cut>>

\* The queues, indices and counters that nvm_system_init makes.
FreshQueuesWith(free) ==
    /\ freeq' = [k \in 0 .. NumFree - 1 |-> InitialFree(k)]
    /\ dirtyq' = [v \in Volumes |-> <<>>]
    /\ syncq' = [k \in Syncers |-> <<>>]
    /\ cleanq' = [k \in Balloons |-> <<>>]
    /\ inuseq' = [n \in 1 .. NumVolumes |-> n - 1]
    /\ free_enqueue_idx' = 0 /\ free_dequeue_idx' = 0
    /\ sync_queue_idx' = 0 /\ clean_queue_idx' = 0
    /\ inode_free_count' = free /\ inode_dirty_count' = 0

\* A plausible bug: the count of free inodes is kept.
FreshQueues_KeepsCount == FreshQueuesWith(inode_free_count)

FreshQueues == FreshQueuesWith(NumInodes)

\* The process dies, at any moment, of a null pointer for example; or the
\* machine goes down and what was not synced is gone.  Nothing reads the
\* volatile state before nvm_system_init overwrites it, so that is done here.
\* The number of a write that the crash cut short is not used again.
Crash ==
    /\ crashes < MaxCrashes
    /\ crashes' = crashes + 1
    /\ \/ UNCHANGED <<file, cwdfile>>
       \/ file' = disk /\ cwdfile' = cwddisk
    /\ cut' = cut \cup {v \in Volumes : At(v, "swap_inode")}
    /\ torn' = torn \cup {x \in Volumes \X Lbns : Exchanging(x[1], x[2])}
    /\ phase' = "write"
    /\ rec' = 0
    /\ acked' = [v \in Volumes |-> [l \in Lbns |->
                    acked[v][l] + IF Stored(v, l) \/ Exchanging(v, l) THEN 1 ELSE 0]]
    /\ w' = [v \in Volumes |-> Idle]
    /\ f' = [t \in Flushers |-> FlusherIdle]
    /\ s' = [k \in Syncers |-> SyncerIdle]
    /\ b' = [k \in Balloons |-> BalloonIdle]
    /\ FreshQueues
    /\ node' = [v \in Volumes |-> [l \in Lbns |-> NoNode]]
    /\ ilock' = [i \in Inodes |-> FALSE]
    /\ UNCHANGED <<istate, ilbn, ivol, iblock, vblock, data, disk, cwddisk, budget>>

(***************************************************************************)
(* recovery_start                                                          *)
(***************************************************************************)
memory == <<vblock, data, node, queues, indices, counts, writerVars, f, s, b>>

\* A plausible bug: what was handed to a sync thread is taken for written.
NeedsRecovery_DirtyOnly(i) == istate[i] = "DIRTY"

NeedsRecovery(i) == istate[i] \in {"DIRTY", "SYNC"}

\* The file is opened in the working directory, where the volumes of
\* get_filename are not; block_size * lbn is computed in 32 bits.
RecoverWrite ==
    /\ phase = "write"
    /\ rec < NumInodes
    /\ cwdfile' = IF NeedsRecovery(rec)
                  THEN [cwdfile EXCEPT ![ivol[rec]][ilbn[rec] % OffsetSpan] =
                                     data[iblock[rec]]]
                  ELSE cwdfile
    /\ rec' = rec + 1
    /\ UNCHANGED <<memory, inodeTable, storage, phase, cwddisk, crashes, cut, torn>>

RecoverSync ==
    /\ phase = "write"
    /\ rec = NumInodes
    /\ disk' = file
    /\ cwddisk' = cwdfile
    /\ phase' = "clean"
    /\ rec' = 0
    /\ UNCHANGED <<memory, inodeTable, file, cwdfile, crashes, cut, torn>>

RecoverClean ==
    /\ phase = "clean"
    /\ rec < NumInodes
    /\ istate' = IF NeedsRecovery(rec) THEN [istate EXCEPT ![rec] = "CLEAN"] ELSE istate
    /\ rec' = rec + 1
    /\ UNCHANGED <<memory, ilbn, ivol, iblock, ilock, storage, phase, cwdfile, cwddisk,
                   crashes, cut, torn>>

\* A plausible bug: the inodes are built anew as well, but not the volumes.
Boot_RebuildsInodes ==
    /\ phase = "clean"
    /\ rec = NumInodes
    /\ istate' = [i \in Inodes |-> "FREE"]
    /\ iblock' = [i \in Inodes |-> i]
    /\ phase' = "running"
    /\ rec' = 0
    /\ UNCHANGED <<memory, ilbn, ivol, ilock, storage, cwdfile, cwddisk, crashes, cut, torn>>

\* The rest of nvm_system_init: the inodes are free, whatever they were; their
\* blocks stay with them.
Boot ==
    /\ phase = "clean"
    /\ rec = NumInodes
    /\ istate' = [i \in Inodes |-> "FREE"]
    /\ phase' = "running"
    /\ rec' = 0
    /\ UNCHANGED <<memory, ilbn, ivol, iblock, ilock, storage, cwdfile, cwddisk, crashes, cut,
                   torn>>

RestartNext ==
    \/ Run \/ Crash \/ RecoverWrite \/ RecoverSync \/ RecoverClean \/ Boot

RestartSpec == RestartInit /\ [][RestartNext]_lifeVars
-----------------------------------------------------------------------------
\* The block indices survive in NVM, and through every crash and restart they
\* stay a permutation; only a crash between the two halves of an exchange
\* (nvm0write.cc 50-51) gives a block two owners.
OnlyACutBreaksThePermutation == cut = {} => BlocksArePermuted

\* The last completed write of a block, one that a crash cut short aside, can be
\* found: in the dirty or sync inode that recovery_start writes back, and
\* otherwise in the synced file of the volume or in the one that recovery_start
\* wrote.
LastWritesFound ==
    \A v \in Volumes : \A l \in Lbns :
        LET last == Content(v, l, acked[v][l] + IF Stored(v, l) THEN 1 ELSE 0) IN
        ~ Exchanging(v, l) /\ <<v, l>> \notin torn =>
            IF Pending(v, l) = {}
            THEN last \in {disk[v][l], cwddisk[v][l]}
            ELSE last = Recovered(v, l)

\* While the block indices are a permutation, this holds through any number of
\* crashes, also during recovery, as long as a volume is not larger than the
\* offset that recovery_start can seek to.
WritesSurviveRestarts == cut = {} /\ NumLbns <= OffsetSpan => LastWritesFound

\* "Writes the corresponding data block to its destination" (nvm0nvm.cc 349):
\* when the system is up again, the file of the volume holds, synced, what
\* was written before the crash.
RecoveredReachTheirFile ==
    phase = "clean" /\ cut = {} =>
        \A v \in Volumes : \A l \in Lbns :
            <<v, l>> \notin torn => disk[v][l] = Content(v, l, acked[v][l])
=============================================================================
