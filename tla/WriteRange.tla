----------------------------- MODULE WriteRange -----------------------------
(***************************************************************************)
(* The arithmetic of nvm_durable_write (nvm0write.cc): which bytes of the  *)
(* buffer go to which logical block.  One action is one round of the loop; *)
(* what a round does to the shared tables is in DurableWrite.              *)
(***************************************************************************)
EXTENDS Integers, Sequences

CONSTANTS
    BlockSize,      \* nvm->block_size
    SizeMod,        \* 2^64: size_t, off_t as a number of bytes
    LbnMod,         \* 2^32: uint32_t
    MaxOffset,      \* bound: the offsets of the calls
    MaxBytes,       \* bound: the counts of the calls
    MaxRounds       \* bound: rounds of a loop that would never end

ASSUME WriteRangeAssumption ==
    /\ {BlockSize, SizeMod, LbnMod} \subseteq Nat \ {0}
    /\ BlockSize < LbnMod /\ LbnMod <= SizeMod
    /\ MaxOffset \in Nat /\ MaxOffset < SizeMod
    /\ MaxBytes \in Nat /\ MaxBytes < SizeMod
    /\ MaxRounds \in Nat

VARIABLES
    offset, asked,      \* the arguments; asked is the argument count
    lbn, lbn_end,
    local_offset, local_count,
    count,              \* the bytes left over
    bytes_written,
    stored,             \* the blocks written so far, with the bytes of each
    returned

rangeVars == <<offset, asked, lbn, lbn_end, local_offset, local_count, count, bytes_written,
               stored, returned>>

\* A plausible bug: the block behind the last byte is written as well.
LastLbn_OffByOne(o, c) == (((o + c) % SizeMod) \div BlockSize) % LbnMod

LastLbn(o, c) == (((o + c - 1) % SizeMod) \div BlockSize) % LbnMod

\* The call, up to the loop.
RangeInit ==
    /\ offset \in 0 .. MaxOffset
    /\ asked \in 0 .. MaxBytes
    /\ lbn = (offset \div BlockSize) % LbnMod
    /\ lbn_end = LastLbn(offset, asked)
    /\ local_offset = offset % BlockSize
    /\ local_count = BlockSize - local_offset
    /\ count = asked
    /\ bytes_written = 0
    /\ stored = <<>>
    /\ returned = FALSE

\* A plausible bug: the bytes of the first block are counted as a whole block.
Leftover_WholeBlock(c, n) == (c - BlockSize) % SizeMod

\* count -= write_count
Leftover(c, n) == (c - n) % SizeMod

\* A plausible bug: the leftover is not cut to the size of a block.
NextCount_Uncut(c) == c

NextCount(c) == IF c > BlockSize THEN BlockSize ELSE c

\* One round of do ... while (lbn <= lbn_end).  memcpy puts local_count bytes at
\* the beginning of the ownerless block: local_offset is not used there.
WriteRound ==
    /\ ~ returned
    /\ Len(stored) < MaxRounds
    /\ stored' = Append(stored, [lbn |-> lbn, bytes |-> local_count])
    /\ count' = Leftover(count, local_count)
    /\ bytes_written' = bytes_written + local_count
    /\ local_count' = NextCount(count')
    /\ local_offset' = 0
    /\ lbn' = (lbn + 1) % LbnMod
    /\ returned' = (lbn' > lbn_end)
    /\ UNCHANGED <<offset, asked, lbn_end>>

RangeSpec == RangeInit /\ [][WriteRound]_rangeVars
-----------------------------------------------------------------------------
\* The call is not empty, and its last block is not the very last one that
\* uint32_t can name, after which lbn <= lbn_end (nvm0write.cc 230) stays true.
Fits ==
    /\ asked > 0
    /\ offset + asked <= SizeMod
    /\ (offset + asked - 1) \div BlockSize < LbnMod - 1

\* The bytes of the call that belong to block b.
LeastOf(x, y) == IF x < y THEN x ELSE y
GreatestOf(x, y) == IF x > y THEN x ELSE y
BytesIn(b) ==
    LeastOf(offset + asked, (b + 1) * BlockSize) - GreatestOf(offset, b * BlockSize)

\* A call that fills its first block from the offset on writes each block of
\* its range once, in order, with the bytes that belong to it (nvm0write.cc
\* 199-230).  A shorter one is taken to fill the block (line 202).
Reaches == asked >= BlockSize - (offset % BlockSize)

WritesItsBlocks ==
    Fits =>
        /\ \A k \in 1 .. Len(stored) :
              /\ stored[k].lbn = offset \div BlockSize + k - 1
              /\ stored[k].lbn <= (offset + asked - 1) \div BlockSize
              /\ Reaches => stored[k].bytes = BytesIn(stored[k].lbn)
        /\ returned => stored[Len(stored)].lbn = (offset + asked - 1) \div BlockSize

\* "@return the actual bytes durably written" (nvm0write.cc 150): all that was
\* asked for, if that reaches the end of the first block.
ReturnsCount == Fits /\ Reaches /\ returned => bytes_written = asked

\* No round writes past the end of a block, whatever the call asks for.
StaysInBlock ==
    /\ ~ returned => local_offset + local_count <= BlockSize
    /\ \A k \in 1 .. Len(stored) : stored[k].bytes <= BlockSize
=============================================================================
