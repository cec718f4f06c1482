----------------------------- MODULE CommBlocks -----------------------------
(***************************************************************************)
(* How numbers travel: the value functions of CommunicationHandler, which  *)
(* OtSender and OtReceiver repeat.  A value of n bytes is never split over *)
(* two blocks of 16 bytes; the writer counts the values that fit a block,  *)
(* the reader the bytes of all values.  Vectors of values are functions    *)
(* from 0..count-1, blocks are sequences of bytes.                         *)
(***************************************************************************)
EXTENDS Integers, Sequences, FiniteSets, Functions

CONSTANTS
    BlockBytes,   \* bytes of a block: 16
    ByteBits,     \* bits of a byte: 8
    Stale         \* what toBlock reads behind the end of a shorter vector

Byte == 0 .. 2^ByteBits - 1

ASSUME BlockAssumption ==
    BlockBytes \in Nat \ {0} /\ ByteBits \in Nat \ {0} /\ Stale \in Byte

PerBlock(bytes) == BlockBytes \div bytes

\* sendValues closes a block when the next value does not fit, and the last one
\* in any case, also when there is no value at all.
BlocksWritten(count, bytes) ==
    IF count = 0 THEN 1 ELSE (count - 1) \div PerBlock(bytes) + 1

\* vectorsize of recvValues: ceil(bytes * count / 16).
BlocksRead_OneMore(count, bytes) == (bytes * count) \div BlockBytes + 1
BlocksRead(count, bytes) == (bytes * count + BlockBytes - 1) \div BlockBytes

\* Most significant byte first; what does not fit the bytes is lost.
packBlocks(value, bytes) ==
    [k \in 1 .. bytes |-> (value \div 2^(ByteBits * (bytes - k))) % 2^ByteBits]
unpackBlocks(block, bytes, first) ==
    SumFunction([k \in 1 .. bytes |-> block[first + k] * 2^(ByteBits * (bytes - k))])

sendValues(values, bytes) ==
    [b \in 1 .. BlocksWritten(Cardinality(DOMAIN values), bytes) |->
        [k \in 1 .. BlockBytes |->
            LET v == (b - 1) * PerBlock(bytes) + (k - 1) \div bytes
            IN  IF v \in DOMAIN values /\ k <= PerBlock(bytes) * bytes
                THEN packBlocks(values[v], bytes)[((k - 1) % bytes) + 1]
                ELSE Stale]]

\* Every place of every block, also the ones nothing was written to.
recvValues(blocks, bytes) ==
    [v \in 0 .. Len(blocks) * PerBlock(bytes) - 1 |->
        unpackBlocks(blocks[v \div PerBlock(bytes) + 1], bytes,
                     (v % PerBlock(bytes)) * bytes)]

\* sendValue and recvValue for one byte, as the seeds travel.
sendValue(value) ==
    <<[k \in 1 .. BlockBytes |-> IF k = 1 THEN value % 2^ByteBits ELSE Stale]>>
recvValue(blocks) == blocks[1][1]
=============================================================================
