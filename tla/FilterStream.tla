---------------------------- MODULE FilterStream ----------------------------
(***************************************************************************)
(* A FilterStream (lib/FilterStream.cpp) on top of a BufferStream: reads   *)
(* through it pull bytes out of the parent into inputBuffer_, process them *)
(* into outputBuffer_, and copy from there.  A behaviour either uses the   *)
(* BufferStream directly, as in that module, or writes to it and reads     *)
(* through the FilterStream.  The other methods of FilterStream return 0   *)
(* and change nothing.                                                     *)
(***************************************************************************)
EXTENDS BufferStream

CONSTANTS
    MaxFilters,  \* bound: the length of the chain
    MaxReads     \* bound: reads through the FilterStream

ASSUME FilterAssumption == MaxFilters \in Nat /\ MaxReads \in Nat

VARIABLES
    filters,       \* the length of filters, or -1: there is no FilterStream
    inputBuffer, inputPos, outputBuffer, outputPos,
    storage,       \* "freed" once inputBuffer_ points to memory it has freed
    result,        \* the reader's buffer
    reads,         \* reads made
    first,         \* history: bytes that the first process() yielded
    wild           \* "yes" once a read was undefined: it began outside of its
                   \* buffer, or reallocated what is freed

fvars == <<filters, inputBuffer, inputPos, outputBuffer, outputPos, storage,
           result, reads, first, wild>>

(* An uninitialized position is a number beyond any buffer, or 0. *)
Garbage == 1000

(* FilterStream(parent, filter) starts with one filter and both positions  *)
(* at 0; FilterStream(parent) initializes neither.  In both cases the      *)
(* client adds what filters it wants.                                      *)
FilterInit ==
    /\ Init
    /\ filters \in (-1)..MaxFilters
    /\ inputPos \in {0, Garbage} /\ outputPos \in {0, Garbage}
    /\ filters = -1 => inputPos = 0 /\ outputPos = 0
    /\ inputBuffer = <<>> /\ storage = "fine" /\ outputBuffer = <<>> /\ result = <<>>
    /\ reads = 0 /\ first = 0 /\ wild = "no"
-----------------------------------------------------------------------------
(* A Filter appends to its output what it makes of its input; here, each   *)
(* byte with a note of the filters it went through.                        *)
Filter(k, bytes) == [i \in DOMAIN bytes |-> [bytes[i] EXCEPT !.through = Append(@, k)]]

Raw(bytes) == [i \in DOMAIN bytes |-> [byte |-> bytes[i], through |-> <<>>]]

(* Mutant: the input is passed to every filter. *)
ChainRestarts(bytes) ==
    LET after[k \in 1..filters] ==
          IF k = 1 THEN [result |-> Filter(1, bytes), tmp |-> <<>>]
          ELSE [result |-> after[k-1].tmp \o Filter(k, bytes), tmp |-> after[k-1].result]
    IN  after[filters].result

(* process() with two filters or more: result and tmp after the k-th one,  *)
(* which appends to what the swap has brought into result.                 *)
Chain(bytes) ==
    LET after[k \in 1..filters] ==
          IF k = 1 THEN [result |-> Filter(1, bytes), tmp |-> <<>>]
          ELSE [result |-> after[k-1].tmp \o Filter(k, after[k-1].result),
                tmp    |-> after[k-1].result]
    IN  after[filters].result

(* What process() appends to its output. *)
Processed(bytes) ==
    IF filters = 0 THEN <<>>
    ELSE IF filters = 1 THEN Filter(1, bytes)
    ELSE Chain(bytes)

(* An append that finds no memory leaves the buffer as it is. *)
Appended(buffer, bytes) == {buffer \o bytes} \cup (IF client = "any" THEN {buffer} ELSE {})

(* The parent's read(Buffer&) calls reserve() with the size that will be   *)
(* reached: 0 when there is nothing to read and inputBuffer_ is empty,     *)
(* which frees what pull() has just reserved, if it could, and keeps data_.*)
ReservedAgain ==
    IF inputBuffer # <<>> \/ Size(stream) # 0 THEN {storage}
    ELSE {"freed"} \cup (IF client = "any" THEN {storage} ELSE {})

(* pull(n): the parent's read(Buffer&) reports bytes even if inputBuffer_  *)
(* could not take them.                                                    *)
Pull(n) ==
    IF Len(inputBuffer) - inputPos >= n
    THEN UNCHANGED <<vars, inputBuffer, storage>>
    ELSE /\ \/ ReadBuffer(n) /\ inputBuffer' = inputBuffer \o Drop(delivered', Len(delivered))
            \/ ReadBufferFails(n) /\ UNCHANGED inputBuffer
         /\ storage' \in ReservedAgain

(* Both reads: pull(n), and process() of all that is in inputBuffer_. *)
Refill(n) ==
    /\ filters >= 0 /\ wild = "no" /\ reads < MaxReads
    /\ reads' = reads + 1
    /\ Pull(n)
    /\ outputBuffer' \in Appended(outputBuffer, Processed(Raw(Drop(inputBuffer', inputPos))))
    /\ first' = IF outputBuffer = <<>> THEN Len(outputBuffer') ELSE first
    /\ UNCHANGED <<filters, inputPos, outputPos>>

(* read(Buffer&, n).  Neither position is advanced. *)
FilterRead(n) ==
    /\ inputPos = 0 /\ outputPos = 0 /\ storage = "fine"
    /\ Refill(n)
    /\ result' \in Appended(result, Take(outputBuffer', Min2(n, Len(outputBuffer'))))
    /\ UNCHANGED wild

(* read(char ptr, n): nothing is stored in the reader's memory. *)
FilterReadRaw(n) ==
    /\ inputPos = 0 /\ outputPos = 0 /\ storage = "fine"
    /\ Refill(n)
    /\ UNCHANGED <<result, wild>>

(* Either read with positions out of range: the difference to the size     *)
(* wraps around, so that nothing is pulled, and memory is read elsewhere.  *)
(* Or with an inputBuffer_ that is empty and freed: pull() reallocates it. *)
FilterReadWild ==
    /\ filters >= 0 /\ wild = "no"
    /\ inputPos # 0 \/ outputPos # 0 \/ storage = "freed"
    /\ wild' = "yes"
    /\ UNCHANGED <<vars, filters, inputBuffer, inputPos, outputBuffer, outputPos,
                   storage, result, reads, first>>

Direct == filters = -1 /\ Next /\ UNCHANGED fvars

(* The owner of the parent writes to it. *)
Supply == filters >= 0 /\ (\E n \in 1..MaxBytes : Write(n)) /\ UNCHANGED fvars

FilterNext ==
    \/ Direct \/ Supply
    \/ \E n \in 1..MaxBytes : FilterRead(n) \/ FilterReadRaw(n)
    \/ FilterReadWild

FilterSpec == FilterInit /\ [][FilterNext]_<<vars, fvars>>
-----------------------------------------------------------------------------
(* Bytes 1, 2, ..., n of the parent after all filters in turn. *)
Filtered(n) == [i \in 1..n |-> [byte |-> i, through |-> [k \in 1..filters |-> k]]]

(* A read through one or two filters delivers the first bytes of the       *)
(* parent, each through all filters in their order, as long as no read     *)
(* asks for more than the first processing yielded, and memory suffices.   *)
(* (Beyond that the bytes begin again, and a third filter finds the first  *)
(* one's output in its own.)  A read before the parent's first byte spoils *)
(* inputBuffer_, and what follows it is undefined: of that nothing is said.*)
FilteredInOrder ==
    [][client = "careful" /\ filters \in {1, 2} /\ wild = "no" =>
          \A n \in 1..MaxBytes :
              FilterRead(n) /\ (first = 0 \/ n <= first)
                  => LET got == Drop(result', Len(result)) IN got = Filtered(Len(got))
      ]_<<vars, fvars>>
=============================================================================
