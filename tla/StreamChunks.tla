---------------------------- MODULE StreamChunks ----------------------------
(***************************************************************************)
(* The two streams that store bytes, as values: BufferStream, a Buffer     *)
(* data_ with a readOffset_ into it (lib/BufferStream.cpp), and Pipe as    *)
(* ChunkedStream uses it (lib/Pipe.cpp).  ChunkedStream only makes counted *)
(* calls on its pipes, so a pipe's size_ is the number of bytes in it      *)
(* (theorem ErrorOfSize of StreamProofs).                                  *)
(***************************************************************************)
EXTENDS BufferGrowth, Kernel, Sequences

(* data: the bytes of data_, or of the kernel pipe; off: readOffset_, 0    *)
(* for a pipe; cap: data_.capacity(), or the room of the kernel pipe, 0    *)
(* when pipe2() failed.                                                    *)
Chunk(kind, cap) == [kind |-> kind, data |-> <<>>, off |-> 0, cap |-> cap]

Take(s, n) == SubSeq(s, 1, n)
Drop(s, n) == SubSeq(s, n + 1, Len(s))

(* data_.capacity() after reserve(need): unchanged when the heap says no. *)
ReservedCap(cap, need) ==
    IF need > cap /\ GrownTo(cap, need) <= HEAP_LIMIT THEN GrownTo(cap, need) ELSE cap

(* BufferStream(size_t cap) and BufferStream() *)
NewBuffer(cap) == Chunk("buffer", ReservedCap(0, cap))

(* size(): bytes that can still be read *)
Size(c) == Len(c.data) - c.off

(* Mutant: off by one at the end: the last byte is dropped unread. *)
ShiftDropsLast(c, n) ==
    IF c.off + n + 1 < Len(c.data) THEN [c EXCEPT !.off = @ + n]
                                   ELSE [c EXCEPT !.off = 0, !.data = <<>>]

(* BufferStream::shift: all data is dropped once all of it has been read. *)
Shift(c, n) ==
    IF c.off + n < Len(c.data) THEN [c EXCEPT !.off = @ + n]
                               ELSE [c EXCEPT !.off = 0, !.data = <<>>]

(* BufferStream::write(const char ptr, size_t): all or nothing. *)
Pushed(c, bytes) ==
    LET need == Len(c.data) + Len(bytes)
        cap  == ReservedCap(c.cap, need)
    IN  [c EXCEPT !.cap = cap, !.data = IF need <= cap THEN @ \o bytes ELSE @]

(* BufferStream::write(Pipe) and write(int fd): reserves for size bytes,   *)
(* whether or not that works, and reads what fits; got is what came.       *)
Room(c, size) == Min2(ReservedCap(c.cap, Len(c.data) + size) - Len(c.data), size)
Filled(c, size, got) ==
    [c EXCEPT !.cap = ReservedCap(@, Len(c.data) + size), !.data = @ \o got]

(* A read yields the stream it leaves and the bytes it hands out.          *)
Outcome(c, bytes) == [chunk |-> c, bytes |-> bytes]

(* BufferStream::read(Buffer&) and read(char ptr): from readOffset_ on. *)
CopyOut(c, size) ==
    LET n == Min2(size, Size(c))
    IN  Outcome(Shift(c, n), Take(Drop(c.data, c.off), n))

(* BufferStream::read(Pipe) and read(int fd), when the sink takes n bytes: *)
(* they are taken from the start of data_, not from readOffset_.           *)
RawOut(c, n) == Outcome([c EXCEPT !.off = @ + n], Take(c.data, n))

(* Mutant: the byte is taken from the start of data_. *)
ByteOutNoOffset(c) == Outcome([c EXCEPT !.off = @ + 1], <<c.data[1]>>)

(* BufferStream::read(): one byte; readOffset_ may reach the end of data_. *)
ByteOut(c) == Outcome([c EXCEPT !.off = @ + 1], <<c.data[c.off + 1]>>)

(* The kernel pipe: bytes leave it in order, whoever reads them. *)
PipeOut(c, n) == Outcome([c EXCEPT !.data = Drop(@, n)], Take(c.data, n))
PipeIn(c, bytes) == [c EXCEPT !.data = @ \o bytes]
=============================================================================
