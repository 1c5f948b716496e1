--------------------------- MODULE ChunkedStream ---------------------------
(***************************************************************************)
(* One ChunkedStream (lib/ChunkedStream.cpp): a deque of BufferStreams and *)
(* Pipes.  Writes go to the last chunk or append one; reads work on the    *)
(* first chunk, one iteration of their loop at a time, and delete it when  *)
(* it is empty.  reader is the loop being executed.                        *)
(***************************************************************************)
EXTENDS StreamChunks, SequencesExt

CONSTANTS
    MaxBytes,   \* bound: bytes written to the stream in all
    MaxChunks,  \* bound: chunks in the deque
    Clients     \* the kinds of clients, a subset of AllClients

(* "careful" copies out of one chunk at a time, "copying" out of any       *)
(* number; "any" calls every method.                                       *)
AllClients == {"careful", "copying", "any"}

ASSUME ChunkedStreamAssumption ==
    MaxBytes \in Nat /\ MaxChunks \in Nat /\ Clients \subseteq AllClients

VARIABLES
    client,     \* the kind of client, which never changes
    chunks,     \* chunks_
    reader,     \* the read loop: its call, size and result, and its sink
    accepted,   \* history: bytes reported as written
    taken,      \* history: bytes reported as read
    delivered   \* history: the bytes that arrived at the reader

vars == <<client, chunks, reader, accepted, taken, delivered>>

Idle == [call |-> "none", left |-> 0, result |-> 0, sink |-> <<>>]

TypeOK ==
    /\ client \in Clients
    /\ \A i \in 1..Len(chunks) :
          /\ chunks[i].kind \in {"buffer", "pipe"} /\ chunks[i].data \in Seq(1..MaxBytes)
          /\ chunks[i].off \in 0..Len(chunks[i].data) /\ chunks[i].cap \in Nat
    /\ reader.call \in {"none", "read", "readFd", "readPipe"}
    /\ reader.left \in Nat /\ reader.result \in Nat /\ reader.sink \in Seq(1..MaxBytes)
    /\ accepted \in 0..MaxBytes /\ taken \in 0..accepted
    /\ delivered \in Seq(0..MaxBytes)

Init ==
    /\ client \in Clients
    /\ chunks = <<>> /\ reader = Idle
    /\ accepted = 0 /\ taken = 0 /\ delivered = <<>>

empty == IF chunks = <<>> THEN TRUE ELSE Size(Head(chunks)) = 0

size == FoldLeft(LAMBDA sum, c : sum + Size(c), 0, chunks)

Fresh(n) == [i \in 1..n |-> accepted + i]
-----------------------------------------------------------------------------
(* buffer(n): the deque with the BufferStream to write to as its last      *)
(* chunk; the last chunk is used if not all of its capacity is unread.     *)
WithBuffer(n) ==
    IF /\ chunks # <<>> /\ Last(chunks).kind = "buffer"
       /\ Size(Last(chunks)) < Last(chunks).cap
    THEN chunks ELSE Append(chunks, NewBuffer(n))

(* pipe(): likewise for a Pipe, room bytes of which the kernel can hold (0 *)
(* when pipe2() failed, which nobody asks about).                          *)
WithPipe(room) ==
    IF chunks # <<>> /\ Last(chunks).kind = "pipe"
    THEN chunks ELSE Append(chunks, Chunk("pipe", room))

(* The last chunk of cs becomes c, which took n bytes. *)
Stored(cs, c, n) ==
    /\ Len(cs) <= MaxChunks
    /\ chunks' = [cs EXCEPT ![Len(cs)] = c]
    /\ accepted' = accepted + n
    /\ UNCHANGED <<client, reader, taken, delivered>>

(* write(const char ptr, n) *)
Write(n) ==
    /\ reader = Idle /\ accepted + n <= MaxBytes
    /\ LET cs == WithBuffer(n)
           c  == Pushed(Last(cs), Fresh(n))
       IN  Stored(cs, c, Len(c.data) - Len(Last(cs).data))

(* write(const char ptr, 0): push_back does nothing, the chunk stays. *)
WriteNothing ==
    /\ reader = Idle
    /\ LET cs == WithBuffer(0) IN Stored(cs, Last(cs), 0)

(* write(Pipe, n, COPY): m <= n bytes come, none if the pipe is empty. *)
WriteCopy(n, m) ==
    /\ reader = Idle /\ accepted + n <= MaxBytes
    /\ LET cs == WithBuffer(n)
       IN  m <= Room(Last(cs), n) /\ Stored(cs, Filled(Last(cs), n, Fresh(m)), m)

(* write(Pipe, n, MOVE) and write(int fd, n): splice() moves m bytes into  *)
(* the last pipe, none if the source has none or the pipe is full or       *)
(* broken.  pipe() is never null, so MOVE never falls back to a buffer.    *)
Splice(room, m) ==
    /\ reader = Idle /\ accepted + m <= MaxBytes
    /\ LET cs == WithPipe(room)
       IN  /\ Len(Last(cs).data) + m <= Last(cs).cap
           /\ Stored(cs, PipeIn(Last(cs), Fresh(m)), m)
-----------------------------------------------------------------------------
(* The loop of call is entered with a request for n bytes. *)
Enter(call, n) ==
    /\ reader = Idle
    /\ client # "any" => call = "read"
    /\ client = "careful" => ~empty /\ n <= Size(Head(chunks))
    /\ reader' = [Idle EXCEPT !.call = call, !.left = n]
    /\ UNCHANGED <<client, chunks, accepted, taken, delivered>>

(* What is in the first n bytes of a sink; 0 is a byte never written. *)
Content(sink, n) == [i \in 1..n |-> IF i <= Len(sink) THEN sink[i] ELSE 0]

Leave(r) ==
    /\ reader' = Idle
    /\ taken' = taken + r.result
    /\ delivered' = delivered \o Content(r.sink, r.result)

(* Mutant: the loop goes on until it has read as much as was asked for. *)
FinishWhenFull ==
    /\ reader # Idle
    /\ IF reader.left = 0 THEN Leave(reader) /\ UNCHANGED <<client, chunks, accepted>>
                          ELSE empty /\ UNCHANGED vars

(* The loop condition fails. *)
Finish ==
    /\ reader # Idle /\ (empty \/ reader.left = 0)
    /\ Leave(reader)
    /\ UNCHANGED <<client, chunks, accepted>>

(* Mutant: the first chunk is deleted after a read, empty or not. *)
FrontBecomesEarly(c) == chunks' = Tail(chunks)

(* The first chunk becomes c, and is deleted when that is empty. *)
FrontBecomes(c) ==
    chunks' = IF Size(c) = 0 THEN Tail(chunks) ELSE <<c>> \o Tail(chunks)

(* The first chunk's read() moves bytes into the sink: one behind the      *)
(* other into a descriptor or a pipe, each time to the start of buf for    *)
(* read(char ptr), which does not advance it.                              *)
Iterate(outcome) ==
    LET n == Len(outcome.bytes) IN
    /\ reader' = [reader EXCEPT
           !.left = @ - n, !.result = @ + n,
           !.sink = IF reader.call = "read" THEN outcome.bytes \o Drop(@, n)
                                            ELSE @ \o outcome.bytes]
    /\ FrontBecomes(outcome.chunk)
    /\ UNCHANGED <<client, accepted, taken, delivered>>

InLoop(call) == reader.call = call /\ ~empty /\ reader.left > 0

First == Head(chunks)
Limit == Min2(reader.left, Size(First))

(* read(char ptr) and read(Buffer&), which calls it *)
ReadStep ==
    /\ InLoop("read")
    /\ Iterate(IF First.kind = "buffer" THEN CopyOut(First, reader.left)
                                        ELSE PipeOut(First, Limit))

(* read(int fd); the sink takes n bytes *)
ReadFdStep(n) ==
    /\ InLoop("readFd") /\ n <= Limit
    /\ Iterate(IF First.kind = "buffer" THEN RawOut(First, n) ELSE PipeOut(First, n))

(* read(Pipe); Pipe::read(Pipe) is not written and returns 0 *)
ReadPipeStep(n) ==
    /\ InLoop("readPipe")
    /\ IF First.kind = "buffer" THEN n <= Limit /\ Iterate(RawOut(First, n))
                                ELSE UNCHANGED vars

(* The sink of read(int fd) or read(Pipe) takes nothing: -1, and the loop  *)
(* is left.                                                                *)
SinkRefuses ==
    /\ InLoop("readFd") \/ (InLoop("readPipe") /\ First.kind = "buffer")
    /\ Leave(reader)
    /\ UNCHANGED <<client, chunks, accepted>>

HandOut(outcome) ==
    /\ taken' = taken + Len(outcome.bytes)
    /\ delivered' = delivered \o outcome.bytes
    /\ UNCHANGED <<client, reader, accepted>>

(* read() *)
ReadByte ==
    /\ reader = Idle /\ ~empty
    /\ LET outcome == IF First.kind = "buffer" THEN ByteOut(First) ELSE PipeOut(First, 1)
       IN  HandOut(outcome) /\ FrontBecomes(outcome.chunk)

(* front().read(char ptr, n): the first chunk is read, not deleted. *)
FrontRead(n) ==
    /\ reader = Idle /\ ~empty
    /\ LET outcome == IF First.kind = "buffer" THEN CopyOut(First, n)
                                               ELSE PipeOut(First, Min2(n, Size(First)))
       IN  HandOut(outcome) /\ chunks' = <<outcome.chunk>> \o Tail(chunks)

(* Mutant: only buffers are dropped. *)
PopFrontBuffer ==
    /\ reader = Idle /\ chunks # <<>> /\ empty
    /\ chunks' = IF First.kind = "buffer" THEN Tail(chunks) ELSE chunks
    /\ UNCHANGED <<client, reader, accepted, taken, delivered>>

(* pop_front(), by a client that has read the first chunk to its end *)
PopFront ==
    /\ reader = Idle /\ chunks # <<>> /\ empty
    /\ chunks' = Tail(chunks)
    /\ UNCHANGED <<client, reader, accepted, taken, delivered>>

Loop ==
    \/ Finish \/ ReadStep \/ SinkRefuses
    \/ \E n \in 1..MaxBytes : ReadFdStep(n) \/ ReadPipeStep(n)

Next ==
    \/ \E n \in 1..MaxBytes :
          \/ Write(n) \/ FrontRead(n)
          \/ \E m \in 0..n : WriteCopy(n, m)
          \/ \E call \in {"read", "readFd", "readPipe"} : Enter(call, n)
    \/ WriteNothing \/ ReadByte \/ PopFront
    \/ \E room \in {0, PIPE_CAPACITY}, m \in 0..MaxBytes : Splice(room, m)
    \/ Loop

Spec == Init /\ [][Next]_vars

(* A thread inside a read loop keeps running. *)
FairSpec == Spec /\ WF_vars(Loop)

(* The client goes on reading and drops chunks it has read to the end. *)
DrainSpec == FairSpec /\ WF_vars(ReadByte) /\ WF_vars(PopFront)
-----------------------------------------------------------------------------
(* What a client that copies sees of the stream. *)
Queue == INSTANCE ByteQueue WITH
    accepted  <- IF client # "any" THEN accepted ELSE 0,
    delivered <- IF client # "any" THEN delivered ELSE <<>>

(* A client that copies receives the bytes it wrote, once each and in      *)
(* order, though they pass through chunks of both kinds that come and go.  *)
FirstInFirstOut == Queue!Spec

(* size() is the number of bytes reported as written less those reported   *)
(* as read: no chunk is deleted with bytes in it, in any read loop.        *)
SizeIsPending == size + reader.result = accepted - taken

(* A read loop ends: each iteration moves a byte, deletes a chunk, or      *)
(* leaves.  (read(Pipe) spins when it comes to a pipe.)                    *)
ReadReturns == reader # Idle /\ reader.call # "readPipe" ~> reader = Idle

(* A careful client that pops exhausted chunks gets every byte that was    *)
(* accepted.                                                               *)
Drains == \A k \in 1..MaxBytes : client = "careful" /\ accepted >= k ~> taken >= k
=============================================================================
