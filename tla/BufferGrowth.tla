---------------------------- MODULE BufferGrowth ----------------------------
(***************************************************************************)
(* How far Buffer::setCapacity grows a capacity (lib/Buffer.cpp:38-43).    *)
(***************************************************************************)
EXTENDS Integers

CONSTANTS
    CHUNK_SIZE,  \* Buffer::CHUNK_SIZE, 4096 in the code
    HEAP_LIMIT   \* bound: the largest block the heap hands out

ASSUME ChunkAssumption == CHUNK_SIZE \in Nat \ {0} /\ HEAP_LIMIT \in Nat

(* Mutant: rounds down instead of up. *)
PadDown(value) == value - (value % CHUNK_SIZE)

(* The next multiple of CHUNK_SIZE at or above value > 0. *)
PadUp(value) == (value - 1) + CHUNK_SIZE - ((value - 1) % CHUNK_SIZE)

(* The capacity asked of realloc() when value exceeds capacity: the first  *)
(* allocation is exact, later ones are padded.                             *)
GrownTo(capacity, value) == IF capacity # 0 THEN PadUp(value) ELSE value
=============================================================================
