# A specification of the NVM burst buffer

The repository is a write buffer in non-volatile memory (NVM). A client calls
`nvm_durable_write`; the data is copied into an NVM block and is durable from
then on. Background threads later write the blocks to the volume's file
(*flush*), make the files durable (*sync*) and return the inodes to the free
pool (*balloon*). All of them talk through lock-free queues of indices.

This directory models that machinery in TLA+, its crashes and restarts included,
and the data structures beside it; model-checks it with TLC; and proves with
TLAPS, for any number of threads, volumes, blocks and inodes, that the queue is
a queue, that no completed write is lost by a crash, a shutdown or a restart as
long as balloons do not get into each other's way, that blocks and inodes keep
their owners and counters their meaning, and what the volume table, the two
linked lists, the AVL tree and the arithmetic of a write promise.

## Inventory

| Component | Source (`src/`) | State | Operations | Correct when |
|---|---|---|---|---|
| lock-free queue | `include/nvm0lfqueue.h` | ring of elements, two global and two per-element ticket counters, `is_closed` | `enqueue`, `dequeue`, `get_size`, `is_empty`, `close` | a FIFO queue without races on the plain elements; `get_size` never too large; nobody stranded |
| tables, queues, counters | `include/nvm0nvm.h`, `src/nvm0nvm.cc` | inode, volume and block tables in NVM; free, dirty, sync, clean and in-use queues; two counters; round-robin indices | `nvm_structure_build`, `nvm_system_init` | each block has one owner; each inode is in one place |
| durable write | `src/nvm0write.cc` | local variables of a call | `nvm_durable_write`, `get_hash_node_with_lock`, `getFreeInodeFromFreeLFQueue`, `writeDataToNvmBlock` | a completed write survives a crash; the call returns |
| flush | `src/nvm0flush.cc` | batch of locked inodes | `flush_thread_func`, `nvm_flush` | no dirty inode lost, duplicated or written stale |
| sync | `src/nvm0sync.cc` | the count taken before `sync()` | `sync_thread_func`, `nvm_sync` | CLEAN means durable; locks are released |
| balloon | `src/nvm0balloon.cc` | the inode in hand | `fill_free_inodes`, `try_lock_hash_node` | only clean inodes are freed, each once |
| hash table | `src/nvm0hash.cc` | node per logical block: inode, validity, mutex | insert, search, validate, logical delete | an inode in use is the one its node names |
| shutdown, recovery | `src/nvm0nvm.cc` | `sys_terminate` | `nvm_system_close`, `recovery_start`, `nvm_system_init` | everything written is in the synced files; the call returns; no completed write is lost by a crash |
| volume table | `src/nvm0volume.cc` | `vid`, `fd`, `hash_table` of each entry | find or allocate a volume | one entry per volume, complete before use |
| invalid list | `src/nvm0list.cc` | doubly linked list of invalidated nodes | push, pop, remove | a well-formed list |
| lock-free list | `src/ut0lflist.cc` | nodes with marked next pointers, the tail | `append`, `search`, `remove`; used by its unit test only | no live node cut off, no removal undone, no false "not found" |
| AVL tree | `src/nvm0avltree.cc` | nodes, two counters | insert, search, logical and physical deletion, sweep; used by its unit test only | balanced, and an index of its keys |
| monitor, random, drivers, shared memory | `src/nvm0monitor.cc`, ... | counters and workloads | display, I/O | -- |

Interaction: the writer takes inodes from the **free** queues (two, round
robin) and puts dirty ones on the **dirty** queue of its volume; a flusher takes
a volume off the **in-use** queue, moves a batch of its dirty inodes, locked, to
the **sync** queues and gives the volume back; a syncer moves them to the
**clean** queues and unlocks them; a balloon moves them to the free queues. The
inode lock is thus taken by one thread and released by another. A hash node has
a mutex of its own, which writers lock and balloons only try.

What is hard: every one of these threads runs at the same time, re-checks what
another may have changed (`write.cc` 130, `balloon.cc` 105) or does not
(`write.cc` 122), and a crash may come between any two accesses. The list of
hazards, each at its line, is in `PROJECT.json`.

Some hazards come true: a failing run then shows it, or, where nothing in the
repository says that it must not happen, the hazard is listed without a
property. Properties that except such a case by name (the half-done exchange,
`cut`, `raced`, `twice`) do not catch it; they show that there is no other way to
the same harm.

## Modules

| Module | What it is |
|---|---|
| `LFQueue` | the lock-free queue, one action per access to shared memory |
| `FIFO` | what a queue promises: values in a line, a dequeue claims the next place and is answered with what stands there |
| `LFQueueRefinement` | the mapping from `LFQueue` to `FIFO` |
| `LFQueueProofs` | theorems about both |
| `NVM` | the shared state of the burst buffer, its initial value, the hash-node operations, and what `recovery_start` would restore |
| `DurableWrite`, `Flush`, `Sync`, `Balloon` | one kind of thread each, over `NVM` |
| `BurstBuffer` | the running system: all threads, fairness, properties |
| `SystemClose` | `nvm_system_close` on top of `BurstBuffer` |
| `Restart` | crashes, `recovery_start` and the next `nvm_system_init`, on top of `BurstBuffer` |
| `BurstBufferProofs` | theorems about the running system: types, counters, the blocks of one volume |
| `BurstBufferSafety` | theorems about the running system: durability, places, owners, null pointers |
| `SystemCloseProofs`, `RestartProofs` | the same through a shutdown, and through crashes and restarts |
| `VolumeTable` | finding or making the entry of a volume, by any number of clients |
| `WriteRange` | the byte and block arithmetic of `nvm_durable_write` |
| `VolumeProofs` | theorems about both |
| `InvalidList` | the list of invalid hash nodes |
| `LFList` | the latch-free list, one action per access to shared memory |
| `ListProofs` | theorems about the two lists |
| `OrderedIndex` | what the tree promises: keys that are absent, valid or invalid, and two counters |
| `AVLTree` | the tree as functions on values, with the mapping to `OrderedIndex` |
| `TreeProofs` | theorems about the tree |
| `MC*` | the modules TLC runs; `MCStructures` puts the five structures that stand alone next to each other, and its initial state chooses one |

Names follow the source (`p_count`, `inode_free_count`, `isValidNode`,
`validate_hash_node`). Operators whose names end in `_Something` and that are
introduced as *a plausible bug* are wrong variants of the operator that follows
them; each breaks one property and shows that the property can fail.

### LFQueue

`ticket[t]` is the local counter of an operation, `Slot` the `% capacity`.
`enqueue` is `EnqTicket` (fetch_add), `EnqSpin` (the comparison), `EnqRetry` /
`EnqGiveUp` (the test of `is_closed`), `EnqStore`, `EnqPublish`; `dequeue` is
symmetrical; `get_size` is two loads. The initial elements are arbitrary, since
`new T[capacity]` is not zeroed. `log` is a ghost: the values in ticket order.
The 64-bit tickets are taken as unbounded; `MaxTicket` bounds them for TLC and
is a parameter of the proofs.

### The burst buffer

A queue is a sequence (justified by the refinement below): an enqueue takes its
place at once, and a dequeue of an empty queue waits. An enqueue returns when
the ring, whose capacity is `max_inode_entry`, has an element for it
(`Enqueued`). Only clean queues can be full, where an inode that was written
again leaves a stale entry behind (theorem `OnlyCleanQueuesFill`), so only the
step that follows their enqueue, `SyncUnlock`, has this guard. The counters and
round-robin indices keep only the remainder that the code uses. Each action
is one access that another thread can observe; accesses are merged only where
nothing between them can be told apart by another thread (for example
`inode_dirty_count--`, the state SYNC and the enqueue in `FlushHandOff`: the
inode is locked, no other thread compares its state with anything but CLEAN, and
the queue is the only way to reach it). `FlushSize` and `SyncCount` read a size
once where the code reads it twice, because the thread is the only consumer of
that queue and the size can only grow.

A block content is `<<volume, block, n>>`, the n-th write of that block; `acked`
is a ghost that counts completed writes. `file` is what `pwritev` wrote, `disk`
what a `sync()` has made durable. The kernel may write a file earlier than
`sync()`; that only matters for blocks that some DIRTY or SYNC inode still
covers, and recovery writes those again. A crash is not an action: `Recovered`
says what the first pass of `recovery_start` would leave if the machine stopped
in the current state, and the properties say what that must be in every state.

Assumptions taken from how the code is used: every volume is open, and has one
writing thread (`test/test_nvm_durable_write.cc`: thread *tid* writes volume
*tid*); a call writes whole blocks; `SYNC_OPTION` is on; unlocking a mutex from
another thread works, as it does with the default glibc mutex. Writers signal
the balloons' condition variables, but `balloon_wait` is commented out, so the
signal changes nothing. `nvm_flush` calls `get_filesize` for each block and does
not use the result (`flush.cc` 111); when that fails, or `pwritev` does, the
process ends, which is a crash.

A null node (`balloon.cc` 79-80) or a null inode (105) that a balloon follows
ends the process: the balloon's step is `fault` and `Alive` stops everything.

### SystemClose

`CloseStart` sets `sys_terminate` while the writers are between calls. `inside`
is the set of threads that start another round without testing it: those that
had just read 0, and the balloons with an inode in hand, which go on until their
queue is empty (`Reclaiming`). `JoinThreads` waits for all; then the dirty
queues are written out one block at a time, one `sync`, all inodes clean, the
volumes closed.

### Restart

`Crash` may come at any moment, also during a recovery: either the process dies
(a null pointer, an assertion, `exit`) and the files keep what was written, or
the machine goes down and they keep what was synced. NVM keeps the inode, volume
and block tables. Then come the two loops of `recovery_start`, one inode per
step, with the `sync()` calls between them (`RecoverWrite`, `RecoverSync`,
`RecoverClean`), and `Boot`, which frees every inode and leaves its block with
it. `recovery_start` opens `VOL_<vid>.txt` in the working directory (`nvm.cc`
365), so the model has a second file per volume, `cwdfile`; and its offset is a
product of 32-bit numbers, taken modulo `OffsetSpan`.

Three things the code leaves open are assumed. Only `nvm_structure_build`
attaches the segment, and it builds the tables anew; its comment says that it is
"called ONCE when the NVM system is first created", so the model lets a restart
find the tables. `recovery_start` follows the `volume` pointer of an inode, which
the model takes as an index that is still good. And the volumes are in use again
at once, in the order of their numbers, as if each had been written once.

### The structures

* `VolumeTable`: one action per round of the search and per access of
  `alloc_volume_entry_idx`; `assert(0)` is `aborted`. The ghost `raced` holds
  the volumes for which two calls were on their way at the same time before the
  entry existed: the code does not synchronise the search with the allocation,
  and two entries for one volume, or an entry without its hash table, are then
  possible. `OneEntryPerVolume` and `EntryIsComplete` say that nothing else can
  make it happen; `InUseIsComplete` holds in any case.
* `WriteRange`: the arithmetic of a call, modulo 2^64 and 2^32 in the code and
  small moduli for TLC. `WriteRound` is one round of the loop.
* `InvalidList`: a hash node is invalidated, pushed, validated again (it stays in
  the list), popped or removed; the ghost `held` is the queue that the list stands
  for. After a node has been pushed while it was in the list (the ghost `twice`)
  its pointers describe no list any more, so `ListIsQueue` speaks of the time
  before; the burst buffer would get there at the second invalidation of a node
  (`hash.cc` 74), but nothing reads the list yet.
* `LFList`: `search` reads one next pointer at a time, unlinks the marked nodes it
  passed with one compare-and-swap and starts over when it fails; `append` swaps
  the tail and links the old one afterwards; `remove` marks. Two things the
  code does and the properties allow: a search of a list to which nothing was
  appended never returns (a null next pointer is taken for an append on its
  way), and `remove` leaves the last node alone (line 136).
* `AVLTree`: a tree is a value, and each function of the code a function on
  trees. `Recursion` is what its functions have in common: the result for a
  node, from the node and the results for its two children, as a recursive
  function over the subtrees, about which theorems can be stated. `Node` is a
  node whose height was just brought up to date. `physical_delete_tree_node`
  deletes another key, the successor's, below the place of the one it was called
  with, so the result for a subtree is what remains by the key deleted. The
  client inserts a key only after a search, as the test does.

## What TLC checks

Each passing run enumerates its whole state space. `CHECK_DEADLOCK FALSE`
stands in the burst-buffer configurations because the writers have a bounded
number of writes and the background threads then poll without effect.

| Run | Instance | Shows |
|---|---|---|
| `lfqueue` | 3 threads in all roles, 2 elements, 4 tickets | `TypeOK`, `NoSlotRace`, `DequeuesItsTicket`, `SizeNeverOverstates`, `ImplementsFIFO` |
| `lfqueue_live` | the same with one value, fair | `ClaimedPairsFinish`, `CloseReleases` |
| `one_volume` | 3 blocks, 3 inodes, 4 writes, 2 syncers, batches of 2 | all safety properties of `BurstBuffer` |
| `two_volumes` | 2 volumes of 2 blocks, 2 shared inodes in 2 free queues, 2 writes each, fair | `BlocksArePermuted`, `InOnePlace`, `CallsReturnOrStarve` |
| `live` | 3 blocks, 2 inodes, 4 writes, fair | `InodeLocksReleased`, `LockedWritesFinish`, `CallsReturnOrStarve` |
| `close` | 2 blocks, 2 inodes, 2 flushers, 4 writes, fair | `WritesSurviveCrash`, `CloseIsDurable`, `CloseFindsVolumes`, `OnlyAFullQueueHangsClose` |
| `restart` | 2 blocks, 3 inodes, 2 balloons, 4 writes, 2 crashes | `OnlyACutBreaksThePermutation`, `WritesSurviveRestarts`, `CountersMatchQueues` |
| `structures` | tree: 7 keys; list: 2 threads, 3 data; invalid list: 3 nodes; table: 3 clients, 3 volumes, 2 entries; calls: blocks of 4 in an address space of 64 bytes, 8 block numbers | `StaysBalanced`, `ImplementsIndex`, `LiveNodesAreLinked`, `DenialsAreRight`, `RemovalIsFinal`, `ListIsQueue`, `OneEntryPerVolume`, `EntryIsComplete`, `InUseIsComplete`, `WritesItsBlocks`, `ReturnsCount`, `StaysInBlock` |
| `leak` | as `one_volume`, 2 blocks | `CleanIsReclaimable` fails |
| `torn` | as `one_volume`, 2 blocks | `WritesNeverTorn` fails |
| `double_free` | 2 balloons, 6 writes | `FreesWhatItInvalidates` fails |
| `recovery_path` | as `restart`, 1 balloon, 1 crash | `RecoveredReachTheirFile` fails |

The bounds are the smallest at which the interesting cases happen. Two elements
and four tickets take the ring round twice with a producer and a consumer on the
same element. Three inodes are the least for a batch of two, because `nvm_flush`
leaves the last dirty inode of a volume. Two inodes for three blocks (`live`), or
for two volumes, force an inode to move from one block to another, and let the
inodes run out. Four writes of one volume are enough to rewrite a block while its
inode is being flushed, synced and ballooned, and to put three entries into the
clean queue of two elements (`live`, `close`: TLC reaches that state). In
`two_volumes` both writers can pass the check of the free count with one inode
left, and then one waits at an empty queue. Two crashes are the least for
one to fall into the recovery from the other. Seven keys are the least for a
tree of four levels, where a deletion at the bottom can unbalance nodes at two
levels above it; three data let
one thread unlink a node while its neighbour is removed or appended to; three
volumes for two entries exhaust the table; and an address space of 16 blocks
with 8 block numbers lets the block numbers of a call wrap.

### What the failing runs show

* **`leak`.** `balloon.cc` 100 drops a clean inode when the node is locked,
  because the "writer will make it dirty anyways". The writer may have done so
  already, and the inode have been flushed and synced since, before the writer
  unlocks the node (`write.cc` 222-223). The inode is then CLEAN in no queue
  until its block is written again.
* **`torn`.** The state is DIRTY (`write.cc` 212) before the data is in the
  block. A crash in between makes recovery write the stale block over content
  that a completed write had put in the file. `WritesSurviveCrash` therefore
  leaves out the block that is in the middle of its exchange, and only that one.
* **`double_free`.** An inode that was cleaned, rewritten and cleaned again has
  entries in two clean queues. With more than one balloon (the default is 8) one
  of them may free it between the other's reads and its trylock: the other meets
  a null pointer, or invalidates the node of the inode that took its place and
  frees the old one twice. This is why the other runs have one balloon; only
  `restart` has two, and shows what holds even so: blocks, counters, and writes
  through the crash that the null pointer is.
* **`recovery_path`.** `recovery_start` "writes the corresponding data block to
  its destination" (`nvm.cc` 349), but opens `VOL_<vid>.txt` in the working
  directory, while `MULTIPLE_STORAGE_ON` puts the volumes under `/opt/nvm1` and
  `/opt/nvm2` (`volume.cc` 81-90). The volume's file never gets the block, and
  the inode is then freed. `WritesSurviveRestarts` therefore accepts either file.

### What the properties except

Some properties have a premise or an exception. Each stands for something that
TLC shows when it is taken away, and the property says that nothing else of the
kind can happen:

* **A call that starves** (`CallsReturnOrStarve`). When no inodes are left to
  spare, a call that needs one never returns: one inode has leaked (`leak`), one is
  the last dirty one that `nvm_flush` leaves where it is, and the free count stays
  below the minimum. Running out like this is the *only* way for a call not to
  return: the background threads are out of work (`OutOfWork`), and every call
  that is going on needs an inode (`NeedsInode`). The property says it of the
  time when no client calls any more, as the bound on the writes sees to: a call
  of another volume could still make the next dirty inode that sets the flushers
  going. `NeedsInode` excepts one thing more: `nvm_system_init` deals inode *i* to
  free queue *i* % 2 and then starts `free_enqueue_idx` at 0 (`nvm.cc` 186, 198).
  When `max_inode_entry` is odd, the next freed inode goes to the other queue than
  the one whose turn it is, and with three inodes TLC finds a writer that waits at
  an empty queue for ever while the other queue has an inode. With the 100 free
  inodes of `DEFAULT_FREE_MIN_COUNT` it would take about a hundred writers at once.
* **A close that hangs** (`OnlyAFullQueueHangsClose`). `nvm_system_close` sets
  `sys_terminate`, and a balloon that finds its queue empty returns. A syncer in
  its last round may then put more entries into that clean queue than the ring
  has elements, stale ones of inodes that were written again among them, and
  spins in `enqueue` (`sync.cc` 60): nobody takes anything out any more, and nobody
  calls `close()` on a queue (`Abandoned`). TLC reaches this in `close`.
* **A crash that cuts an exchange** (`OnlyACutBreaksThePermutation`,
  `WritesSurviveRestarts`). The exchange of two block indices is two stores
  (`write.cc` 50-51). A crash in between leaves the volume and the inode with the
  same block, and the recovery does not look for that. The next write through this
  inode completes in the shared block, and the next write of the volume copies its
  data over it: without the premise `cut = {}`, `WritesSurviveRestarts` fails
  after a single crash. `BlocksArePermuted` counts an exchange in
  progress as complete, and so cannot see this case either.
* **A volume beyond the offset of recovery** (`WritesSurviveRestarts`, `OffsetSpan`),
  **a volume or node that was raced for** (`raced`) and **a second push** (`twice`):
  see Restart and The structures above.
* **The edges of a call** (`ReturnsCount`, `WritesItsBlocks`). A call that ends
  before the end of its first block is taken to fill it (`write.cc` 202), copies
  that much from `buf` and returns it, not the `count` it was given (`Reaches`). A
  call of no bytes at offset 0 has `lbn_end` = 2^32 - 1, as has one that ends in
  the last block that a `uint32_t` can name, and then `lbn <= lbn_end` is always
  true and the loop never ends (`Fits`). `StaysInBlock` needs no premise. Two
  things are below the level of the model: `memcpy` puts the data at the beginning
  of the block whatever `local_offset` is, and every round reads `buf` from its
  beginning (`write.cc` 44-48, 214).

### Fairness

`FairSpec` of the queue: a thread inside an operation is not stopped for ever;
nothing makes a thread begin one. `FairSpec` of the burst buffer: the same for
every background thread, which run unconditional loops, and for a writer inside
a call; nothing makes a client call. Weak fairness is enough: wherever a lock is
contended, TLC finds the waiting thread's step continuously enabled in the end.
A thread that spins, on a lock or on a queue, takes no step in the model: its
rounds change nothing.
`CloseSpec` adds the steps of `nvm_system_close` once it has been called. No
strong fairness is assumed anywhere.

## What is proved

Each theorem holds for every value of the constants that satisfies the named
`ASSUME` of the module, which only says that sizes are positive and bounds are
numbers. Each property was checked by TLC first, and so was each inductive
invariant.

### The queue (`LFQueueProofs`)

For every set of threads, every capacity, every set of values and every bound on
the tickets:

* `TypeCorrect`: `Spec => []TypeOK`;
* `SlotRaceFree`: `Spec => []NoSlotRace`;
* `DequeueCorrect`: `Spec => []DequeuesItsTicket`;
* `SizeIsSafe`: `Spec => SizeNeverOverstates`;
* `Refinement`: `Spec => ImplementsFIFO`.

None of the safety properties is inductive: that two threads are not on one
element follows from what its counters say, and that from who holds which
ticket. `RingInv` has three parts besides the types. `Tickets`: a ticket is
claimed once and lies between the capacity and its counter. `Elements`: an
element is empty (`p_counts = c_counts - Capacity`) or full (`p_counts =
c_counts`); if empty, the dequeue of its ticket is over, if full, the enqueue is
over and the element holds that ticket's value. `Owners`: a thread past its spin
loop still sees the element as it found it. `RingStep` shows that each action
preserves each part; the theorems then follow. `SizeIsSafe` needs only that
`p_count` never decreases after it is loaded. `FIFOStep` maps each action to a
step of `FIFO` or to a stutter: `EnqTicket` puts the value in the line,
`DeqTicket` claims a place, `DeqRelease` answers, `DeqGiveUp` gives up.

### The running system (`BurstBufferProofs`)

For every number of volumes, blocks, inodes, queues and threads of each kind:

* `TypesHold`: `Spec => []TypeOK`. The types alone are not inductive: that an
  action stores an inode depends on who has one in hand. `TypeInv` adds
  `WriterOK` (which steps have an inode, that a call's first block is not behind
  its last, and that the writes done and the writes to come stay within the
  bound), `FlusherOK` (a batch to write is not empty and its run not longer than
  it), `SyncerOK` and `BalloonOK`.
* `OneVolumePermutesBlocks`: `NumVolumes = 1 => (Spec => []BlocksArePermuted)`.
  `BlocksInv` says that the volume's block and the blocks that the inodes hold
  (`Held`: the one that is being exchanged counted where it is going) are all
  different and are all there are, and that what the writer loaded from the
  volume is still there when it stores. `ExchangePermutes` is the lemma that an
  exchange keeps this so. One writer cannot collide with another, so this
  holds whatever the balloons do; `ManyVolumesPermuteBlocks` below is about any
  number of volumes.
* `CountersAreRight`: `Spec => []CountersMatchQueues`, for any number of
  balloons too. A queue's total is the number of its places, and one enqueue or
  dequeue makes it one larger or smaller (`EnqueueTotal`, `DequeueTotal`).
  `CountersInv` says in addition where a flusher has a batch or a refused inode
  in hand, without which the step that gives the hands up would not balance.
  Initially, `nvm_system_init` deals all inodes round robin: places and inodes
  correspond one to one (`DealTotal`).

### What the running system promises (`BurstBufferSafety`)

Again for every number of everything. One race breaks these promises: two
balloons reclaim one inode, and one of them frees what it did not invalidate.
The code runs `DEFAULT_NUM_BALLOON` = 8 of them (`nvm.h` 20), and `double_free`
shows the race with two. So the theorems have the hypothesis
`[]FreesWhatItInvalidates`, and since `Spec` lets a behaviour stop anywhere,
they say: *up to the first such race* the promise is kept. With one balloon
there is no hypothesis left: `OneBalloonFrees` is `NumBalloons = 1 => (Spec =>
[]FreesWhatItInvalidates)`.

* `WritesSurvive`: `[]WritesSurviveCrash`, a crash at any moment loses no
  completed write;
* `CleanStaysDurable`: `[]CleanIsDurable`;
* `InUseStaysHashed`: `[]InUseIsHashed`;
* `EveryInodeInOnePlace`: `[]InOnePlace`;
* `ManyVolumesPermuteBlocks`: `[]BlocksArePermuted`;
* `OnlyCleanQueuesFill`: `[]OtherQueuesHaveRoom`, no free, dirty or sync queue
  and no queue of volumes is ever longer than its ring, because none holds
  anything twice (`LengthOnce`); of all enqueues only those of a clean queue can
  find the ring full;
* `NoNullFollowed`: `NumBalloons = 1 => (Spec => []NoNullInode)`;
* `OneBalloonIsSafe`: with one balloon, the first five without the hypothesis.

They rest on one inductive invariant, `TypeInv /\ SafetyInv /\ FilesOK`
(`SafetyHolds`). No smaller one would do, because the promises lean on each
other: a file is up to date because the inode was locked while it was written;
that this lock is the syncer's to release depends on the queue the inode is in;
that on nobody else having it in hand; and that on the hash table. The parts:

| Part | Says |
|---|---|
| `NodesOK`, `InUseOK` | a valid node leads to an inode of its block, and every inode in use, one that a balloon is unhooking aside, has its node |
| `WritersOK` | which mutex and which lock a writer holds at each step, and what state its inode is in |
| `BalloonsOK` | nobody else holds the node a balloon invalidates, or frees its inode; `AloneSafe`, a single balloon looks at inodes that stay in use |
| `FreeOK`, `DirtyOK`, `SyncersOK`, `VolumesOK` | each free, dirty and sync inode, and each volume, is in one place |
| `FlushersOK` | a batch is dirty, locked and out of its queue |
| `BlocksOK` | every block has one owner, an exchange counted as complete |
| `ContentsOK` | the block of an inode in use has the latest content |
| `FreshOK` | what was written, and what was synced, is still what the block has |
| `FilesOK` | when no inode of a block is DIRTY or SYNC, its file has the latest content, on disk |

`FilesOK` stands apart from `SafetyInv` because no thread relies on it, and a
restart may find a volume's file without what recovery put elsewhere
(`recovery_path`). For each action of `Next` a lemma shows each part that the
action can disturb; frame lemmas such as `NodesSame` and `LocksSame` carry the
rest.

### Shutdown (`SystemCloseProofs`)

With the same hypothesis: `CloseKeepsWrites` (`[]CloseIsDurable`),
`CloseFindsAll` (`[]CloseFindsVolumes`) and `CloseSurvivesCrash`
(`[]WritesSurviveCrash` under `CloseSpec`); and `OneBalloonCloses`, all three
without it. `CloseInv` goes through the phases: while threads run, the
invariant above; when all are joined, each is at the head of its loop, so that
every volume is in its queue (`Home`) and what a file lacks is in a dirty inode
of its queue (`Draining`); then everything is in the synced files (`Durable`).
`FreesWhatItInvalidates` matters only until the balloons are joined.

### Restarts (`RestartProofs`)

For any number of crashes, during recovery too:

* `CrashesKeepBlocks`: `NumVolumes = 1 => (RestartSpec =>
  []OnlyACutBreaksThePermutation)`, whatever the balloons do. The invariant is
  `TypeInv` together with `BlocksInv` as long as no crash has cut an exchange:
  a crash elsewhere leaves `Held` equal to the block indices in NVM, and no step
  of the recovery touches those.
* `RestartsKeepCounts`: `RestartSpec => []CountersMatchQueues`.
* `RestartsKeepWrites` and `RestartsKeepBlocks`: with the hypothesis
  `[]FreesWhatItInvalidates`, `[]WritesSurviveRestarts` and
  `[]OnlyACutBreaksThePermutation` for any number of volumes;
  `OneBalloonRestarts`: both without it. `LifeSafe` is `SafetyInv` while the
  system runs, together with: each completed write is in a dirty inode or in one
  of the two files. During recovery: at most one inode of a block is waiting, it
  has what was written last, and those passed by the first loop have it in the
  file, synced before the second loop marks anything clean. Both carry on only
  while no crash has cut an exchange; afterwards the properties promise nothing
  either.

### The volume table (`VolumeProofs`)

For every number of clients, volumes and entries:

* `FlushersGetWholeVolumes`: `VolumeSpec => []InUseIsComplete`. `UseInv`:
  `Owned`, an entry is in one queue or in the hands of one client, and
  `FilledIn`, what each step of that client has already stored.
* `VolumesHaveOneEntry` and `CallsGetWholeEntries`: `VolumeSpec =>
  []OneEntryPerVolume` and `[]EntryIsComplete`. `RaceInv`: `Placed`, an entry
  with a volume's id is in use or being filled in; `Recorded`, the ghost has
  every volume that two calls are after; and `Sought`, what the search of a
  client whose volume was not raced for has seen is still so.

### The arithmetic of a write (`VolumeProofs`)

For every block size, address space, offset and count:

* `RoundsStayInBlock`: `RangeSpec => []StaysInBlock`, from the ranges alone.
* `CallWritesItsBlocks` and `CallReturnsCount`: `RangeSpec =>
  []WritesItsBlocks` and `[]ReturnsCount`. `Positions`: after n rounds the call
  is at its n-th block. `Bytes`: after the first round the bytes written reach a
  block boundary or the end of the call, and `count` is the rest, so that no
  subtraction wraps.

### The lists (`ListProofs`)

For every number of threads and nodes, with `ListInv` for the latch-free list
and `InvalidInv` for the list of invalid nodes:

* `RemovalStays`: `ListSpec => RemovalIsFinal`, `DenialsStayRight`: `ListSpec =>
  []DenialsAreRight`, and `LiveNodesStayLinked`: `ListSpec =>
  []LiveNodesAreLinked`. Nodes are numbered in the order of the tail, which the
  swap of `append` fixes before the node is linked. `Chain`: a next pointer leads
  onwards, and every node it passes is marked; only the last node, and one whose
  successor is in the hands of a thread at `link`, have none; a marked node has
  one. That is why the plain store of `append` (line 167) overwrites nothing, and
  why the compare-and-swap of a search takes out marked nodes only. `SearchOK`
  says the same of what a search keeps in its locals: everything between
  `left_node` and where it is was removed. `DenialOK`: a search whose data was in
  the list all along is not past it. `LiveNodesAreLinked` then needs a walk: from
  the last node before the live one that `Follow` starts from, each step comes at
  least one node closer and never passes it, so `MaxData` steps are enough.
* `QueueIsKept`: `InvalidSpec => []ListIsQueue`. `Queued` says of the pointers,
  without a walk, that the nodes of `held` differ and that each one's neighbours
  are its neighbours there; `InvalidateKeeps`, `PopFrontKeeps` and `RemoveKeeps`
  carry it through the three operations, the removal at either end and in the
  middle. `WalkMeets` then shows that a walk meets exactly those nodes, and
  `BackwardsLeads` that it does so backwards.

`Follow` and `Walk` are recursive functions. That the defining equation of such a
function has a solution is shown by giving one (`FollowSteps`, `WalkMeets`), and
what it computes by looking at the least step at which it fails: `LeastNatural`,
from the well-foundedness of < on the naturals, takes the place of the induction
theorem, which the provers cannot instantiate.

### The tree (`TreeProofs`)

For every set of keys, natural numbers, and every sequence of insertions,
logical deletions and sweeps:

* `AlwaysBalanced`: `TreeSpec => []StaysBalanced`;
* `TreeImplementsIndex`: `TreeSpec => ImplementsIndex`;
* `TreeInvariant`: `TreeSpec => []TreeInv`, on which both rest. `TreeInv` says
  that the tree is `Good` (at every node the height is exact, the balance is
  -1, 0 or 1 and the contents are in order), and that `count_total` and
  `count_invalid` are the cardinalities of what it holds (`Contents`) and of the
  invalid part of that (`Invalids`).

A tree is a member of some set that is closed under taking children (`Closed`,
`IsTree`), and `TreeInduction`, that a set of trees which has every tree whose
children it has is all of them, follows from the well-foundedness of < on the
heights. The recursive functions exist because they can be built one level at a
time and agree where they overlap (`ResultsExist`, `ResultsAgree`); that gives
an equation for one call of each function of the code (`SearchCall`,
`InsertCall`, `DeleteCall` and so on), from which the rest proceeds:

| Lemma | Says |
|---|---|
| `LeftOuterCase` and its three siblings, `Rebalanced` | a rotation keeps the contents and restores the balance, and the height is the old one or one less |
| `Insertion` | the tree has one key more, and is at most one level higher; if it was not empty and is higher, it leans to the side where the key went, which is why the test by keys (`avltree.cc` 71-94) picks the right rotation |
| `Deletion` | the key is gone and nothing else, and the tree is at most one level lower; the successor's key and validity take the place of the deleted node's |
| `Marking` | only the validity of the key changes, and no height |
| `FindingInvalid`, `Sweeping` | while `count_invalid` is positive a sweep finds an invalid node, so it never dereferences null, and at the end it has removed exactly these |

The test by balance after a deletion (`avltree.cc` 199, 212) takes the single
rotation when the taller child leans neither way, and `AfterDeletion` needs it:
without the `=` no case applies. For the index, the client's view of a key
is what `search_tree_node` finds (`Searching`, `StatusIs`), and the number of
invalid nodes is the number of invalid keys (`InvalidKeys`).

### Only model-checked

* Liveness (`ClaimedPairsFinish`, `CloseReleases`, `InodeLocksReleased`,
  `LockedWritesFinish`, `CallsReturnOrStarve`, `OnlyAFullQueueHangsClose`):
  fairness and ENABLED are beyond the prover.
* What the failing runs refute has no theorem, of course. That two balloons can
  break the promises above is why the theorems carry their hypothesis.

## Not modelled, and the plan

Every safety property, action property and refinement that a passing run checks
now has its theorem, and the plan is done. Left out for good:

* two writers on one volume: nothing in the repository does that, and the
  exchange of the ownerless block has no lock (`write.cc` 44-51);
* `get_filename` as code: it returns a pointer into a string that is destroyed
  (`volume.cc` 97), whose outcome is the compiler's; the model has the two
  directories;
* a client that uses the volume id 2^32 - 1, which marks a free entry
  (`nvm.cc` 158);
* balloons that push to the invalid list of one table at the same time: nothing
  reads the list;
* the monitor, the random-number generator, the test drivers, the shared-memory
  calls and the address arithmetic of `nvm_structure_build` (display, workload
  and operating system); `physical_delete_hash_node`, which has no caller;
  what `get_filesize` returns, which its only caller does not use (`flush.cc`
  111); `TEMP_FIX` and `WRITE_DEBUG`, which are not compiled.
