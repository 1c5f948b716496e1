---------------------------- MODULE BufferedRead ----------------------------
(***************************************************************************)
(* Reading from a descriptor into a growing Buffer: the loop that          *)
(* Socket::read(Buffer&, size_t) (lib/Socket.cpp:294-325) and              *)
(* Pipe::read(Buffer&, size_t) (lib/Pipe.cpp:108-139) share.  Each         *)
(* iteration makes room, asks the kernel for what fits, and goes on only   *)
(* after a full read.  Calls follow each other on one result Buffer, which *)
(* the caller may cut down in between.                                     *)
(***************************************************************************)
EXTENDS BufferGrowth

CONSTANTS
    MIN_ROOM,       \* grow when less than this is free; 256 in the code
    FIRST_RESERVE,  \* least capacity asked for; 4096 in the code
    MaxSize         \* bound: a call that could push size_ past it is not made

(* The code's 4096 >= 3 * 256; without it the loop could ask for 0 bytes. *)
ASSUME ReadAssumption ==
    /\ MIN_ROOM \in Nat \ {0}
    /\ FIRST_RESERVE \in Nat /\ FIRST_RESERVE >= 3 * MIN_ROOM
    /\ MaxSize \in Nat

VARIABLES
    pc,        \* "caller"; in the loop "room" and "read"
    size,      \* result.size()
    capacity,  \* result.capacity()
    left,      \* the parameter size, counted down
    nread,     \* bytes read by this call
    ret,       \* what the last call returned
    start,     \* history: result.size() when the call began
    asked,     \* history: the size the caller passed
    answer     \* history: the kernel's last word to this call, "data" or "eof"

readVars == <<pc, size, capacity, left, nread, ret, start, asked, answer>>

ReadTypeOK ==
    /\ pc \in {"caller", "room", "read"}
    /\ size \in Nat /\ capacity \in Nat
    /\ left \in Nat /\ nread \in Nat /\ ret \in Nat \cup {-1}
    /\ start \in Nat /\ asked \in Nat /\ answer \in {"data", "eof"}

ReadInit ==
    /\ pc = "caller"
    /\ capacity \in 0..HEAP_LIMIT /\ size = 0
    /\ left = 0 /\ nread = 0 /\ ret = 0
    /\ start = 0 /\ asked = 0 /\ answer = "data"

Min2(a, b) == IF a < b THEN a ELSE b
Max2(a, b) == IF a > b THEN a ELSE b

Return(value) == pc' = "caller" /\ ret' = value
-----------------------------------------------------------------------------
(* The caller takes bytes out of the result (resize(), clear()). *)
Consume(n) ==
    /\ pc = "caller" /\ n < size
    /\ size' = n /\ start' = n /\ nread' = 0 /\ left' = 0 /\ asked' = 0 /\ ret' = 0
    /\ UNCHANGED <<pc, capacity, answer>>

(* read(result, n) is entered. *)
Enter(n) ==
    /\ pc = "caller" /\ size + n <= MaxSize
    /\ pc' = "room"
    /\ left' = n /\ nread' = 0 /\ start' = size /\ asked' = n /\ answer' = "data"
    /\ UNCHANGED <<size, capacity, ret>>

(* while (size > 0) is over. *)
Finish ==
    /\ pc = "room" /\ left = 0
    /\ Return(nread)
    /\ UNCHANGED <<size, capacity, left, nread, start, asked, answer>>

(* Mutant: reserves half as much again as there is, with no minimum. *)
WantedNoMinimum == (size * 3) \div 2

(* max(4096, size() * 1.5), rounded towards zero *)
Wanted == Max2(FIRST_RESERVE, (size * 3) \div 2)

(* The capacity reserve(Wanted) leaves when the heap has it. *)
Reserved == IF Wanted > capacity THEN GrownTo(capacity, Wanted) ELSE capacity

(* There is room, or reserve() makes it. *)
MakeRoom ==
    /\ pc = "room" /\ left > 0
    /\ \/ capacity - size >= MIN_ROOM /\ UNCHANGED capacity
       \/ /\ capacity - size < MIN_ROOM /\ Reserved <= HEAP_LIMIT
          /\ capacity' = Reserved
    /\ pc' = "read"
    /\ UNCHANGED <<size, left, nread, ret, start, asked, answer>>

(* reserve() fails: ENOMEM. *)
NoMemory ==
    /\ pc = "room" /\ left > 0
    /\ capacity - size < MIN_ROOM /\ Wanted > capacity
    /\ Return(IF nread # 0 THEN nread ELSE -1)
    /\ UNCHANGED <<size, capacity, left, nread, start, asked, answer>>

nbytes == Min2(capacity - size, left)

(* ::read() returns rv > 0; a short read ends the call. *)
ReadSome(rv) ==
    /\ pc = "read" /\ rv <= nbytes
    /\ left' = left - rv /\ nread' = nread + rv /\ size' = size + rv
    /\ IF rv < nbytes THEN Return(nread + rv) ELSE pc' = "room" /\ UNCHANGED ret
    /\ UNCHANGED <<capacity, start, asked, answer>>

(* Mutant: an error is reported even when bytes have been read before it. *)
ReadNothingForgets(rv) ==
    /\ pc = "read"
    /\ Return(rv)
    /\ answer' = IF rv = 0 /\ nbytes > 0 THEN "eof" ELSE answer
    /\ UNCHANGED <<size, capacity, left, nread, start, asked>>

(* Mutant: EAGAIN is retried. *)
ReadNothingRetries(rv) ==
    /\ pc = "read" /\ pc' = "room"
    /\ UNCHANGED <<size, capacity, left, nread, ret, start, asked, answer>>

(* ::read() returns rv = -1 (EAGAIN, an error) or rv = 0 (end of file, and *)
(* also what a request for no bytes returns).                              *)
ReadNothing(rv) ==
    /\ pc = "read"
    /\ Return(IF nread # 0 THEN nread ELSE rv)
    /\ answer' = IF rv = 0 /\ nbytes > 0 THEN "eof" ELSE answer
    /\ UNCHANGED <<size, capacity, left, nread, start, asked>>

Loop ==
    \/ Finish \/ MakeRoom \/ NoMemory
    \/ \E rv \in 1..MaxSize : ReadSome(rv)
    \/ \E rv \in {-1, 0} : ReadNothing(rv)

ReadNext ==
    \/ \E n \in 0..MaxSize : Consume(n) \/ Enter(n)
    \/ Loop

ReadSpec == ReadInit /\ [][ReadNext]_readVars

(* A call keeps executing its loop; nothing obliges the caller to call. *)
ReadFairSpec == ReadSpec /\ WF_readVars(Loop)
-----------------------------------------------------------------------------
(* A request to the kernel never exceeds the free storage and never asks   *)
(* for 0 bytes, which would return 0 and pass for end-of-file: there is    *)
(* room for MIN_ROOM bytes whatever size() and capacity() were.            *)
RequestIsUseful ==
    pc = "read" => /\ size < capacity
                   /\ nbytes >= Min2(left, MIN_ROOM)

(* The caller can trust the return value: as many bytes were appended as   *)
(* it says, -1 says none were, and 0 says end-of-file (or 0 were asked).   *)
ReturnIsHonest ==
    pc = "caller" => /\ ret = -1 => size = start
                     /\ ret >= 0 => size = start + ret /\ ret <= asked
                     /\ ret = 0 => asked = 0 \/ answer = "eof"

(* The call returns: every iteration takes something off the request. *)
CallReturns == pc # "caller" ~> pc = "caller"
=============================================================================
