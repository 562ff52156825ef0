---------------------------- MODULE DeltaChunks -----------------------------
(***************************************************************************)
(* Where a row of a ConcurrentDeltaColumn lives: chunks of values and of   *)
(* validity words (src/susano/concurrent_delta.hpp).  A validity word is   *)
(* the set of its bits that are 1.                                         *)
(***************************************************************************)
EXTENDS Integers, Sequences, FiniteSets

CONSTANTS
  ChunkCapacity,       \* concurrent_delta_chunk_capacity
  WordBits             \* bits of a validity word

ASSUME GeometryAssumption ==
  /\ ChunkCapacity \in Nat \ {0} /\ WordBits \in Nat \ {0}
  /\ ChunkCapacity % WordBits = 0

Slots == 0..(ChunkCapacity - 1)
Words == 0..(ChunkCapacity \div WordBits - 1)
Bits == 0..(WordBits - 1)

\* Chunks are numbered from 1; a row has a slot, a word and a bit in its chunk.
ChunkOf(offset) == offset \div ChunkCapacity + 1
Local(offset) == offset % ChunkCapacity
WordOf(offset) == Local(offset) \div WordBits

\* Seeded fault: the bit is the row's in the chunk, not in its word.
BitOf_Chunk(offset) == Local(offset)

BitOf(offset) == Local(offset) % WordBits

\* Seeded fault: the whole word is stored, not one bit of it.
WithBit_StoresWord(word, bit, valid) == IF valid THEN {bit} ELSE {}

\* fetch_or of the row's bit, or fetch_and of its complement.
WithBit(word, bit, valid) == IF valid THEN word \cup {bit} ELSE word \ {bit}

\* Seeded fault: the chunk that is only partly filled is left out.
NeededChunks_FullOnly(n) == n \div ChunkCapacity

\* The chunks that hold the first n rows.
NeededChunks(n) ==
  n \div ChunkCapacity + (IF n % ChunkCapacity # 0 THEN 1 ELSE 0)
=============================================================================
