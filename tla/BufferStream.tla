---------------------------- MODULE BufferStream ----------------------------
(***************************************************************************)
(* One BufferStream (lib/BufferStream.cpp) under any sequence of calls of  *)
(* its methods, and what its sink receives.                                *)
(***************************************************************************)
EXTENDS StreamChunks

CONSTANTS
    MaxBytes,    \* bound: bytes written to the stream in all
    InitialCap   \* the constructor's argument

ASSUME BufferStreamAssumption ==
    MaxBytes \in Nat /\ InitialCap \in Nat

VARIABLES
    client,     \* "careful": only makes raw reads of a stream whose data_ no
                \* read has begun, and has memory for its results; or "any"
    stream,     \* the object
    accepted,   \* history: bytes reported as written
    taken,      \* history: bytes reported as read
    delivered   \* history: the bytes that arrived at the reader

vars == <<client, stream, accepted, taken, delivered>>

(* Types; and no read moves readOffset_ past the bytes there are, nor does *)
(* data_ outgrow its storage.                                              *)
TypeOK ==
    /\ client \in {"careful", "any"}
    /\ stream.kind = "buffer" /\ stream.data \in Seq(1..MaxBytes)
    /\ stream.off \in Nat /\ stream.off <= Len(stream.data)
    /\ stream.cap \in 0..HEAP_LIMIT /\ Len(stream.data) <= stream.cap
    /\ accepted \in 0..MaxBytes /\ taken \in 0..accepted /\ delivered \in Seq(1..MaxBytes)

Init ==
    /\ client \in {"careful", "any"}
    /\ stream = NewBuffer(InitialCap)
    /\ accepted = 0 /\ taken = 0 /\ delivered = <<>>

(* The next n bytes the client writes. *)
Fresh(n) == [i \in 1..n |-> accepted + i]

(* write(const char ptr, n): 0 when the buffer cannot grow. *)
Write(n) ==
    /\ accepted + n <= MaxBytes
    /\ stream' = Pushed(stream, Fresh(n))
    /\ accepted' = accepted + (Len(stream'.data) - Len(stream.data))
    /\ UNCHANGED <<client, taken, delivered>>

(* write(Pipe, size) and write(int fd, size): m <= size bytes come, m = 0  *)
(* standing for an error or for nothing to read.                           *)
Fill(size, m) ==
    /\ accepted + size <= MaxBytes
    /\ m <= Room(stream, size)
    /\ stream' = Filled(stream, size, Fresh(m))
    /\ accepted' = accepted + m
    /\ UNCHANGED <<client, taken, delivered>>

HandOut(outcome) ==
    /\ stream' = outcome.chunk
    /\ taken' = taken + Len(outcome.bytes)
    /\ delivered' = delivered \o outcome.bytes
    /\ UNCHANGED <<client, accepted>>

(* read(char ptr, n) *)
Read(n) == HandOut(CopyOut(stream, n))

(* read(Buffer&, n), for what it does to the stream: the reader's buffer   *)
(* is its own, here one without storage, which a reserve(0) leaves alone   *)
ReadBuffer(n) == HandOut(CopyOut(stream, n))

(* read(Buffer&, n) when the result cannot grow: push_back appends nothing *)
(* and its failure is not looked at.                                       *)
ReadBufferFails(n) ==
    /\ client = "any" /\ Size(stream) > 0
    /\ LET outcome == CopyOut(stream, n) IN
         stream' = outcome.chunk /\ taken' = taken + Len(outcome.bytes)
    /\ UNCHANGED <<client, accepted, delivered>>

(* read(Pipe, n) and read(int fd, n); the sink takes m of them, 0 standing *)
(* for an error.                                                           *)
ReadRaw(n, m) ==
    /\ client = "any" \/ stream.off = 0
    /\ m <= Min2(Size(stream), n)
    /\ HandOut(RawOut(stream, m))

(* read() *)
ReadByte ==
    /\ stream.off # Len(stream.data)
    /\ HandOut(ByteOut(stream))

Next ==
    \/ \E n \in 1..MaxBytes :
          \/ Write(n) \/ Read(n) \/ ReadBuffer(n) \/ ReadBufferFails(n)
          \/ \E m \in 0..n : Fill(n, m) \/ ReadRaw(n, m)
    \/ ReadByte

Spec == Init /\ [][Next]_vars
-----------------------------------------------------------------------------
(* What a careful client sees of the stream. *)
Queue == INSTANCE ByteQueue WITH
    accepted  <- IF client = "careful" THEN accepted ELSE 0,
    delivered <- IF client = "careful" THEN delivered ELSE <<>>

(* A careful client receives the bytes it wrote, once each and in order. *)
FirstInFirstOut == Queue!Spec

(* size() is the number of bytes reported as written less those reported  *)
(* as read, through every mixture of growing, shifting and clearing data_. *)
SizeIsPending == Size(stream) = accepted - taken
=============================================================================
