------------------------------- MODULE Buffer -------------------------------
(***************************************************************************)
(* Storage management of xio::Buffer (lib/Buffer.cpp, include/xio/         *)
(* Buffer.h): who owns which heap block, how large it is, and what size_   *)
(* and capacity_ say about it.  Contents are not modelled.                 *)
(*                                                                         *)
(* The methods are written as the set of outcomes they can have on an      *)
(* object o and the heap h, because an allocation may fail or may move the *)
(* block; an action picks one outcome of the method it calls.              *)
(***************************************************************************)
EXTENDS BufferGrowth

CONSTANTS
    Buffers,     \* the Buffer objects
    Blocks,      \* addresses malloc can return
    NULL,        \* the null pointer
    MaxRequest,  \* bound: the largest size or length a client passes
    Releases     \* whether clients call reserve(0) or setCapacity(0)

ASSUME BufferAssumption ==
    /\ NULL \notin Blocks
    /\ MaxRequest \in Nat
    /\ Releases \in BOOLEAN

VARIABLES
    alive,   \* the objects that are constructed and not yet destroyed
    buf,     \* buf[b]: data_, size_ and capacity_ of b
    heap,    \* heap[k]: bytes allocated at k, 0 if k is not allocated
    fault    \* "none", or what made the behaviour undefined from here on:
             \* "heap", free() or realloc() of a block that is not allocated;
             \* "store", a store in front of the storage

vars == <<alive, buf, heap, fault>>

Faults == {"none", "heap", "store"}

Fields == [data : Blocks \cup {NULL}, size : Nat, capacity : Nat]

(* Buffer::Buffer() *)
Fresh == [data |-> NULL, size |-> 0, capacity |-> 0]

TypeOK ==
    /\ alive \in SUBSET Buffers
    /\ buf \in [Buffers -> Fields]
    /\ heap \in [Blocks -> Nat]
    /\ fault \in Faults

Init ==
    /\ alive = {}
    /\ buf = [b \in Buffers |-> Fresh]
    /\ heap = [k \in Blocks |-> 0]
    /\ fault = "none"
-----------------------------------------------------------------------------
Outcome(o, h, ok) == [o |-> o, h |-> h, ok |-> ok, fault |-> "none"]

Unchanged(o, h) == Outcome(o, h, TRUE)

(* The outcome r, with size_ set to s after it. *)
Sized(r, s) == [r EXCEPT !.o.size = s]

(* The heap after realloc(p, n) returned q. *)
Reallocated(h, p, q, n) ==
    [k \in Blocks |-> IF k = q THEN n ELSE IF k = p THEN 0 ELSE h[k]]

(* What realloc(o.data, n) and the assignments after it do for n > 0: the  *)
(* block stays or moves, or the allocation fails.  To realloc a block that *)
(* is not allocated is undefined.                                          *)
Realloc(o, h, n) ==
    IF o.data # NULL /\ h[o.data] = 0
    THEN {[Outcome(o, h, FALSE) EXCEPT !.fault = "heap"]}
    ELSE {Outcome([o EXCEPT !.data = q, !.capacity = n],
                  Reallocated(h, o.data, q, n), TRUE) :
             q \in {k \in Blocks : n <= HEAP_LIMIT /\ (h[k] = 0 \/ k = o.data)}}
         \cup {Outcome(o, h, FALSE)}

(* free(data_): data_ and size_ stay as they are.  To free a block that is *)
(* not allocated is undefined; free(NULL) does nothing.                    *)
Freed(o, h) ==
    IF o.data # NULL /\ h[o.data] = 0
    THEN [Outcome(o, h, FALSE) EXCEPT !.fault = "heap"]
    ELSE Outcome([o EXCEPT !.capacity = 0],
                 [k \in Blocks |-> IF k = o.data THEN 0 ELSE h[k]], TRUE)

CutTo(o, value) == [o EXCEPT !.size = IF value < @ THEN value ELSE @]

(* Buffer::setCapacity(value) *)
SetCapacity(o, h, value) ==
    IF value = 0 /\ o.capacity # 0
    THEN {Freed(o, h)}
    ELSE IF value > o.capacity
    THEN Realloc(o, h, GrownTo(o.capacity, value))
    ELSE IF value < o.capacity
    THEN Realloc(CutTo(o, value), h, value)
    ELSE {Unchanged(o, h)}

(* Buffer::reserve(value), by mutableEnsure. *)
Ensure(o, h, value) ==
    IF value > o.capacity \/ value = 0
    THEN SetCapacity(o, h, value) ELSE {Unchanged(o, h)}

(* Appending n bytes, in all overloads of push_back: nothing is appended   *)
(* when the storage cannot be had.                                         *)
PushBackOn(o, h, n) ==
    IF n = 0 THEN {Unchanged(o, h)}
    ELSE {IF r.ok THEN Sized(r, r.o.size + n) ELSE r :
             r \in Ensure(o, h, o.size + n)}

(* The loop of printf() on an object whose first reserve() is done: n is   *)
(* what snprintf() returns, -1 on an error; resize(size_ - 1) is refused   *)
(* when it wraps.  A failed reserve() stores a NUL at capacity_ - 1, which *)
(* is no byte of a buffer without storage.                                 *)
FormatOn(r, n) ==
    IF r.fault # "none" THEN {r}
    ELSE IF n < r.o.capacity - r.o.size
    THEN {IF r.o.size + n < 0 THEN r ELSE Sized(r, r.o.size + n)}
    ELSE {IF g.ok THEN Sized(g, g.o.size + n)
          ELSE IF g.o.capacity = 0 /\ g.fault = "none"
          THEN [g EXCEPT !.fault = "store"] ELSE g :
             g \in Ensure(r.o, r.h, r.o.capacity + n + 1)}

(* MutableBuffer::printf(fmt, args...), for a format of f bytes. *)
PrintfOn(o, h, f, n) ==
    UNION {FormatOn(r, n) : r \in Ensure(o, h, o.size + f + 1)}
-----------------------------------------------------------------------------
(* One outcome of a method called on b. *)
Apply(b, outcomes) ==
    \E r \in outcomes :
        /\ buf' = [buf EXCEPT ![b] = r.o]
        /\ heap' = r.h
        /\ fault' = r.fault

Live(b) == fault = "none" /\ b \in alive

(* Buffer(BufferRef, offset, count), Buffer(const char ptr), Buffer(Buffer): *)
(* n bytes are copied in; n = 0 is Buffer().                               *)
Construct(b, n) ==
    /\ fault = "none" /\ b \notin alive
    /\ alive' = alive \cup {b}
    /\ Apply(b, PushBackOn(Fresh, heap, n))

(* Buffer(size_t capacity) *)
ConstructReserve(b, n) ==
    /\ fault = "none" /\ b \notin alive
    /\ alive' = alive \cup {b}
    /\ Apply(b, Ensure(Fresh, heap, n))

(* Buffer(const std::string&): the terminator is copied too and then cut off. *)
ConstructString(b, n) ==
    /\ fault = "none" /\ b \notin alive
    /\ alive' = alive \cup {b}
    /\ Apply(b, {IF n <= r.o.capacity THEN Sized(r, n) ELSE r :
                    r \in PushBackOn(Fresh, heap, n + 1)})

(* Mutant: the destructor frees data_ behind reserve(0). *)
DestroyTwice(b) ==
    /\ Live(b)
    /\ alive' = alive \ {b}
    /\ \E r \in Ensure(buf[b], heap, 0) :
          LET again == Freed(r.o, r.h) IN
          /\ buf' = [buf EXCEPT ![b] = Fresh]
          /\ heap' = again.h
          /\ fault' = again.fault

(* Buffer::~Buffer(): reserve(0), and the object is gone. *)
Destroy(b) ==
    /\ Live(b)
    /\ alive' = alive \ {b}
    /\ \E r \in Ensure(buf[b], heap, 0) :
          /\ buf' = [buf EXCEPT ![b] = Fresh]
          /\ heap' = r.h
          /\ fault' = r.fault

(* Buffer::reserve(value) by a client. *)
Reserve(b, value) ==
    /\ Live(b) /\ (value > 0 \/ Releases)
    /\ Apply(b, Ensure(buf[b], heap, value))
    /\ UNCHANGED alive

(* Buffer::setCapacity(value) by a client. *)
ChangeCapacity(b, value) ==
    /\ Live(b) /\ (value > 0 \/ Releases)
    /\ Apply(b, SetCapacity(buf[b], heap, value))
    /\ UNCHANGED alive

PushBack(b, n) ==
    /\ Live(b)
    /\ Apply(b, PushBackOn(buf[b], heap, n))
    /\ UNCHANGED alive

Printf(b, f, n) ==
    /\ Live(b)
    /\ Apply(b, PrintfOn(buf[b], heap, f, n))
    /\ UNCHANGED alive

(* Buffer::c_str(): makes room for a terminator behind the contents. *)
CStr(b) ==
    /\ Live(b)
    /\ Apply(b, Ensure(buf[b], heap, buf[b].size + 1))
    /\ UNCHANGED alive

(* MutableBuffer::resize(value); refused beyond the capacity.  clear() is  *)
(* resize to 0.                                                            *)
Resize(b, value) ==
    /\ Live(b) /\ value <= buf[b].capacity
    /\ buf' = [buf EXCEPT ![b].size = value]
    /\ UNCHANGED <<alive, heap, fault>>

(* Buffer::operator=(BufferRef), (std::string), (const char ptr): clear    *)
(* and append n bytes of foreign storage.                                  *)
Assign(b, n) ==
    /\ Live(b)
    /\ Apply(b, PushBackOn([buf[b] EXCEPT !.size = 0], heap, n))
    /\ UNCHANGED alive

(* Mutant: the source of a move keeps its fields. *)
MoveAssignKeeps(b, c) ==
    /\ Live(b) /\ c \in alive
    /\ \E r \in Ensure(buf[b], heap, 0) :
          /\ buf' = [buf EXCEPT ![b] = buf[c]]
          /\ heap' = r.h
          /\ fault' = r.fault
    /\ UNCHANGED alive

(* Buffer::operator=(Buffer&&): b releases, takes c's fields, c is Fresh. *)
MoveAssign(b, c) ==
    /\ Live(b) /\ c \in alive
    /\ \E r \in Ensure(buf[b], heap, 0) :
          /\ buf' = [buf EXCEPT ![b] = buf[c], ![c] = Fresh]
          /\ heap' = r.h
          /\ fault' = r.fault
    /\ UNCHANGED alive

(* MutableBuffer::swap *)
Swap(b, c) ==
    /\ Live(b) /\ c \in alive
    /\ buf' = [buf EXCEPT ![b] = buf[c], ![c] = buf[b]]
    /\ UNCHANGED <<alive, heap, fault>>

Next ==
    \E b \in Buffers :
        \/ \E n \in 0..MaxRequest :
              \/ Construct(b, n) \/ ConstructReserve(b, n) \/ ConstructString(b, n)
              \/ Reserve(b, n) \/ ChangeCapacity(b, n)
              \/ PushBack(b, n) \/ Assign(b, n) \/ Resize(b, n)
              \/ \E f \in 1..2 : Printf(b, f, n) \/ Printf(b, f, -1)
        \/ Destroy(b) \/ CStr(b)
        \/ \E c \in Buffers : MoveAssign(b, c) \/ Swap(b, c)

Spec == Init /\ [][Next]_vars
-----------------------------------------------------------------------------
(* Heap discipline: free() and realloc() are only called on a block that   *)
(* is allocated.                                                           *)
NoHeapMisuse == fault # "heap"

(* Every live Buffer that claims capacity_ bytes has a block of exactly    *)
(* that size, alone; one that claims none points nowhere.  Its size_ fits  *)
(* (Buffer.cpp:19-22: it "is cut down to the available capacity if it      *)
(* would exceed the capacity otherwise").  No block outlives its owner,    *)
(* across moves, swaps, failed growth and destruction.                     *)
StorageOwned ==
    fault = "none" =>
        /\ \A b \in alive :
              /\ buf[b].size <= buf[b].capacity
              /\ buf[b].capacity > 0 => /\ buf[b].data \in Blocks
                                        /\ heap[buf[b].data] = buf[b].capacity
              /\ buf[b].capacity = 0 => buf[b].data = NULL
              /\ \A c \in alive : b # c /\ buf[b].data = buf[c].data => buf[b].data = NULL
        /\ \A k \in Blocks : heap[k] > 0 =>
              \E b \in alive : buf[b].data = k /\ buf[b].capacity = heap[k]

(* Buffer.cpp:27: a call of setCapacity that returns true has made the     *)
(* requested capacity available, and padding costs less than one chunk.    *)
TrueMeansAvailable ==
    fault = "none" => \A b \in alive, value \in 0..MaxRequest :
        \A r \in SetCapacity(buf[b], heap, value) :
            r.ok => r.o.capacity >= value /\ r.o.capacity < value + CHUNK_SIZE
=============================================================================
