---------------------------- MODULE StreamProofs ----------------------------
(***************************************************************************)
(* Proofs about Pipe, for any number of pipes, any kernel capacity and any *)
(* mix of calls, and about the relay loops of the examples, which pass     *)
(* bytes from Socket to Socket through one.  Then proofs about             *)
(* BufferStream and FilterStream, for streams, heaps and clients of any    *)
(* size.                                                                   *)
(***************************************************************************)
EXTENDS FilterStream, Relay, TLAPS

(* The inductive invariant: types, the error of size_, and a running       *)
(* clear() still has something to take off size_.                          *)
PipeInv ==
    /\ PipeTypeOK
    /\ OffByUncounted
    /\ \A p \in Pipes : clearing = p => size[p] > 0

(* New pipes are empty and say so. *)
LEMMA InitPipeInv == PipeInit => PipeInv
    BY KernelAssumption, PipeAssumption DEF PipeInit, PipeInv, PipeTypeOK, OffByUncounted

(* Every call, and every round of clear(), keeps PipeInv. *)
LEMMA NextPipeInv == PipeInv /\ [PipeNext]_pipeVars => PipeInv'
<1> SUFFICES ASSUME PipeInv, [PipeNext]_pipeVars PROVE PipeInv'
    OBVIOUS
<1> USE KernelAssumption, PipeAssumption DEF PipeInv, PipeTypeOK, OffByUncounted
<1>1. ASSUME NEW p \in Pipes, NEW n \in 1..PIPE_CAPACITY,
             WriteBuf(p, n) \/ WriteSocket(p, n) \/ WriteFd(p, n)
      PROVE  PipeInv'
    BY <1>1 DEF WriteBuf, WriteSocket, WriteFd, Idle, KernelPut
<1>2. ASSUME NEW p \in Pipes, NEW n \in 1..PIPE_CAPACITY,
             ReadToBuffer(p, n) \/ SocketWrite(p, n)
      PROVE  PipeInv'
    BY <1>2 DEF ReadToBuffer, SocketWrite, Idle, KernelGet
<1>3. ASSUME NEW p \in Pipes, NEW n \in 1..PIPE_CAPACITY,
             ReadBuf(p, n) \/ ReadFd(p, n)
      PROVE  PipeInv'
    BY <1>3 DEF ReadBuf, ReadFd, Idle, KernelGet
<1>4. ASSUME NEW p \in Pipes, NEW q \in Pipes, NEW n \in 1..PIPE_CAPACITY,
             WritePipeMove(p, q, n)
      PROVE  PipeInv'
    BY <1>4 DEF WritePipeMove, Idle
<1>5. ASSUME NEW p \in Pipes, NEW q \in Pipes, NEW n \in 1..PIPE_CAPACITY,
             WritePipeCopy(p, q, n)
      PROVE  PipeInv'
    BY <1>5 DEF WritePipeCopy, Idle, KernelPut
<1>6. ASSUME NEW p \in Pipes, ReadOne(p)
      PROVE  PipeInv'
    BY <1>6 DEF ReadOne, ReadBuf, Idle, KernelGet
<1>7. ASSUME NEW p \in Pipes, ClearEnter(p)
      PROVE  PipeInv'
    BY <1>7 DEF ClearEnter
<1>8. ASSUME NEW p \in Pipes, ClearStep(p)
      PROVE  PipeInv'
  <2> DEFINE rv == Min2(kernel[p], Min2(size[p], CLEAR_CHUNK))
  <2>1. rv \in Nat /\ rv <= kernel[p] /\ rv <= size[p]
      BY DEF Min2
  <2>2. /\ kernel' = [kernel EXCEPT ![p] = @ - rv]
        /\ size' = [size EXCEPT ![p] = @ - rv]
        /\ clearing' = IF size[p] - rv = 0 THEN NoPipe ELSE p
        /\ open' = open /\ uncounted' = uncounted
      BY <1>8 DEF ClearStep
  <2> HIDE DEF rv
  <2>3. PipeTypeOK'
    <3>1. kernel[p] - rv \in 0..PIPE_CAPACITY /\ size[p] - rv \in Nat
        BY <2>1
    <3>2. kernel' \in [Pipes -> 0..PIPE_CAPACITY] /\ size' \in [Pipes -> Nat]
        BY <2>2, <3>1
    <3>3. clearing' \in Pipes \cup {NoPipe}
        BY <2>2
    <3> QED
        BY <2>2, <3>2, <3>3
  <2>4. OffByUncounted'
      BY <2>1, <2>2
  <2>5. \A q \in Pipes : clearing' = q => size'[q] > 0
      BY <2>1, <2>2
  <2> QED
      BY <2>3, <2>4, <2>5
<1>9. ASSUME NEW p \in Pipes, DestroyPipe(p)
      PROVE  PipeInv'
    BY <1>9 DEF DestroyPipe
<1>10. ASSUME UNCHANGED pipeVars PROVE PipeInv'
    BY <1>10 DEF pipeVars
<1> QED
    BY <1>1, <1>2, <1>3, <1>4, <1>5, <1>6, <1>7, <1>8, <1>9, <1>10 DEF PipeNext

(* Type correctness of Pipe's state, in every behaviour. *)
THEOREM PipeTypes == PipeSpec => []PipeTypeOK
<1>1. PipeInv => PipeTypeOK
    BY DEF PipeInv
<1> QED
    BY InitPipeInv, NextPipeInv, <1>1, PTL DEF PipeSpec

(* The error of size_ is what Pipe::read(Buffer) and Socket::write(Pipe)   *)
(* took out uncounted, whichever methods are called in whichever order: a  *)
(* client that stays away from these two can rely on size(), and isEmpty() *)
(* is never true of a pipe with bytes in it.                               *)
THEOREM ErrorOfSize == PipeSpec => []OffByUncounted
<1>1. PipeInv => OffByUncounted
    BY DEF PipeInv
<1> QED
    BY InitPipeInv, NextPipeInv, <1>1, PTL DEF PipeSpec

(* A clear() that returns leaves its pipe empty, in the kernel too, even   *)
(* after calls that let size_ run ahead of the kernel.                     *)
THEOREM ClearLeavesNothing == PipeSpec => ClearEmpties
<1> DEFINE A == \A p \in Pipes : clearing = p /\ clearing' # p
                                   => kernel'[p] = 0 /\ size'[p] = 0
<1>1. PipeInv /\ [PipeNext]_pipeVars => [A]_pipeVars
  <2> SUFFICES ASSUME PipeInv, PipeNext, NEW p \in Pipes,
                      clearing = p, clearing' # p
               PROVE  kernel'[p] = 0 /\ size'[p] = 0
      OBVIOUS
  <2> USE KernelAssumption, PipeAssumption DEF PipeInv, PipeTypeOK, OffByUncounted
  <2>1. ClearStep(p)
      BY DEF PipeNext, WriteBuf, WriteSocket, WriteFd, ReadToBuffer, ReadBuf, ReadFd,
             ReadOne, SocketWrite, WritePipeMove, WritePipeCopy, ClearEnter,
             ClearStep, DestroyPipe, Idle
  <2> DEFINE rv == Min2(kernel[p], Min2(size[p], CLEAR_CHUNK))
  <2>2. /\ rv \in Nat /\ rv <= kernel[p] /\ rv <= size[p]
        /\ size[p] - rv = 0 => kernel[p] - rv = 0
      BY DEF Min2
  <2>3. /\ kernel' = [kernel EXCEPT ![p] = @ - rv]
        /\ size' = [size EXCEPT ![p] = @ - rv]
        /\ clearing' = IF size[p] - rv = 0 THEN NoPipe ELSE p
      BY <2>1 DEF ClearStep
  <2> HIDE DEF rv
  <2> QED
      BY <2>2, <2>3
<1> QED
    BY InitPipeInv, NextPipeInv, <1>1, PTL DEF PipeSpec, ClearEmpties
-----------------------------------------------------------------------------
(* What a loop has read is with the sink or in the pipe, of which size_    *)
(* never says too little; so a write that was not cut short leaves the     *)
(* pipe empty.                                                             *)
PipeBooks ==
    /\ kernel[pipe] \in Nat /\ size[pipe] \in Nat /\ kernel[pipe] <= size[pipe]
    /\ received = forwarded + kernel[pipe]
    /\ step # "write" /\ hindered # "last" => kernel[pipe] = 0

(* Of the copy loop, which has a char array in place of the pipe, this is  *)
(* so as long as no write was cut short.                                   *)
CopyBooks ==
    /\ hindered = "none" => received = forwarded + held
    /\ step # "write" => held = 0

RelayInv ==
    /\ program \in {"any", "proxy", "dump", "copy"} /\ pipe \in Pipes
    /\ DOMAIN kernel = Pipes /\ DOMAIN size = Pipes
    /\ step \in {"read", "write", "ended"} /\ hindered \in {"none", "some", "last"}
    /\ source \in Nat /\ supplied \in Nat /\ received \in Nat /\ forwarded \in Nat
    /\ held \in Nat
    /\ supplied = received + source
    /\ program \in {"proxy", "dump"} => PipeBooks
    /\ program = "copy" => CopyBooks
    /\ program = "any" => step = "read"
    /\ step = "ended" /\ hindered # "last" => source = 0

(* A relay begins with nothing read and an empty pipe. *)
LEMMA RelayInitInv == RelayInit => RelayInv
BY DEF RelayInit, PipeInit, RelayInv, PipeBooks, CopyBooks

(* A pipe keeps its methods' domains, whatever a client calls. *)
LEMMA AnyKeeps ==
    ASSUME RelayInv, program = "any", PipeNext, UNCHANGED rvars
    PROVE  RelayInv'
<1>1. DOMAIN kernel' = Pipes /\ DOMAIN size' = Pipes
  BY DEF RelayInv, PipeNext, WriteBuf, WriteSocket, WriteFd, WritePipeMove, WritePipeCopy,
         ReadToBuffer, ReadBuf, ReadFd, ReadOne, SocketWrite, ClearEnter, ClearStep, DestroyPipe,
         KernelPut, KernelGet
<1> QED
  BY <1>1 DEF RelayInv, rvars

(* The loop's read puts n bytes where the write will take them from. *)
LEMMA ReadKeeps ==
    ASSUME RelayInv, NEW n \in 1..READ_SIZE, ReadSource(n)
    PROVE  RelayInv'
<1> USE RelayAssumption
<1>1. CASE program = "copy"
  BY <1>1 DEF RelayInv, ReadSource, pipeVars, CopyBooks
<1>2. CASE program \in {"proxy", "dump"}
  BY <1>2 DEF RelayInv, ReadSource, WriteSocket, KernelPut, PipeBooks
<1> QED
  BY <1>1, <1>2 DEF RelayInv, ReadSource, Looping

(* The loop's write takes off the pipe and, for dump, off size_ what the   *)
(* sink got.                                                               *)
LEMMA WriteKeeps ==
    ASSUME RelayInv, NEW m \in 0..MaxSupply, WriteSink(m)
    PROVE  RelayInv'
<1> USE RelayAssumption
<1>1. CASE program = "copy"
  BY <1>1 DEF RelayInv, WriteSink, pipeVars, CopyBooks, Asked
<1>2. CASE program \in {"proxy", "dump"}
  <2>1. Asked = kernel[pipe]
    BY <1>2 DEF RelayInv, PipeBooks, Asked, Min2
  <2>2. /\ kernel'[pipe] = kernel[pipe] - m /\ DOMAIN kernel' = Pipes
        /\ size'[pipe] \in {size[pipe], size[pipe] - m} /\ DOMAIN size' = Pipes
    <3>1. kernel[pipe] \in Nat /\ size[pipe] \in Nat
      BY <1>2 DEF RelayInv, PipeBooks
    <3>2. CASE m = 0
      BY <1>2, <3>1, <3>2 DEF RelayInv, WriteSink, pipeVars
    <3>3. CASE m > 0 /\ program = "proxy"
      BY <3>1, <3>3 DEF RelayInv, WriteSink, SocketWrite, KernelGet
    <3>4. CASE m > 0 /\ program = "dump"
      BY <3>1, <3>4 DEF RelayInv, WriteSink, ReadFd, KernelGet
    <3> QED
      BY <1>2, <3>2, <3>3, <3>4
  <2> QED
    BY <1>2, <2>1, <2>2 DEF RelayInv, WriteSink, PipeBooks
<1> QED
  BY <1>1, <1>2 DEF RelayInv, WriteSink, Looping

(* A loop that ends does so at the end of its source, or else the pipe is  *)
(* full, which it is not after a write that was not cut short.             *)
LEMMA EndKeeps ==
    ASSUME RelayInv, ReadEnds
    PROVE  RelayInv'
<1>1. /\ UNCHANGED <<program, pipe, kernel, size, source, supplied, held>>
      /\ UNCHANGED <<received, forwarded, hindered>>
      /\ step = "read" /\ step' = "ended" /\ program # "any"
  BY DEF ReadEnds, Looping, pipeVars
<1>2. hindered # "last" => source = 0
  BY <1>1, RelayAssumption, KernelAssumption DEF ReadEnds, RelayInv, PipeBooks
<1> QED
  BY <1>1, <1>2 DEF RelayInv, PipeBooks, CopyBooks

(* Every step of a relay, and of the world around it, keeps the books. *)
LEMMA RelayStepInv == RelayInv /\ [RelayNext]_allvars => RelayInv'
<1> SUFFICES ASSUME RelayInv, [RelayNext]_allvars
             PROVE  RelayInv'
  OBVIOUS
<1>1. ASSUME NEW n \in 1..MaxSupply, Arrive(n) PROVE RelayInv'
  BY <1>1, RelayAssumption DEF RelayInv, Arrive, pipeVars, PipeBooks, CopyBooks
<1>2. CASE UNCHANGED allvars
  BY <1>2 DEF RelayInv, allvars, pipeVars, rvars, PipeBooks, CopyBooks
<1> QED
  BY <1>1, <1>2, AnyKeeps, ReadKeeps, WriteKeeps, EndKeeps DEF RelayNext

(* A relay whose sink took what it was given has passed on everything, and *)
(* one with a Pipe makes up for earlier short writes of the backend.       *)
THEOREM NothingLost == RelaySpec => []RelaysAll
<1>1. RelayInv => RelaysAll
  BY DEF RelayInv, PipeBooks, CopyBooks, RelaysAll
<1> QED
  BY <1>1, RelayInitInv, RelayStepInv, PTL DEF RelaySpec

(* The loops call nothing but Pipe's methods, as a client may: what holds  *)
(* of a Pipe in any client's hands holds of theirs.                        *)
THEOREM RelayIsClient == RelaySpec => PipeSpec
<1>1. RelayInit => PipeInit
  BY DEF RelayInit
<1>2. PipeInv /\ RelayInv /\ [RelayNext]_allvars => [PipeNext]_pipeVars
  <2> SUFFICES ASSUME PipeInv, RelayInv, [RelayNext]_allvars PROVE [PipeNext]_pipeVars
    OBVIOUS
  <2>0. kernel[pipe] \in 0..PIPE_CAPACITY /\ PIPE_CAPACITY \in Nat /\ pipe \in Pipes
    BY KernelAssumption, PipeAssumption DEF PipeInv, PipeTypeOK, RelayInv
  <2>1. ASSUME NEW n \in 1..READ_SIZE, ReadSource(n) PROVE [PipeNext]_pipeVars
    <3>1. CASE program = "copy"
      BY <2>1, <3>1 DEF ReadSource
    <3>2. CASE program # "copy"
      <4>1. WriteSocket(pipe, n)
        BY <2>1, <3>2 DEF ReadSource
      <4>2. n \in 1..PIPE_CAPACITY
        BY <2>0, <4>1, RelayAssumption DEF WriteSocket, KernelPut
      <4> QED
        BY <2>0, <4>1, <4>2 DEF PipeNext
    <3> QED
      BY <3>1, <3>2
  <2>2. ASSUME NEW m \in 0..MaxSupply, WriteSink(m) PROVE [PipeNext]_pipeVars
    <3>1. CASE m = 0 \/ program = "copy"
      <4>1. UNCHANGED pipeVars
        <5>1. CASE m = 0
          BY <2>2, <5>1 DEF WriteSink
        <5>2. CASE program = "copy"
          BY <2>2, <5>2 DEF WriteSink
        <5> QED
          BY <3>1, <5>1, <5>2
      <4> QED
        BY <4>1
    <3>2. CASE m # 0 /\ program # "copy"
      <4>1. SocketWrite(pipe, m) \/ ReadFd(pipe, m)
        <5>1. m > 0 /\ program \in {"proxy", "dump"}
          BY <2>2, <3>2, RelayAssumption DEF RelayInv, WriteSink, Looping
        <5>2. CASE program = "proxy"
          BY <2>2, <5>1, <5>2 DEF WriteSink
        <5>3. CASE program = "dump"
          BY <2>2, <5>1, <5>3 DEF WriteSink
        <5> QED
          BY <5>1, <5>2, <5>3
      <4>2. m \in 1..PIPE_CAPACITY
        BY <2>0, <3>2, <4>1, RelayAssumption DEF SocketWrite, ReadFd, KernelGet
      <4> QED
        BY <2>0, <4>1, <4>2 DEF PipeNext
    <3> QED
      BY <3>1, <3>2
  <2>3. CASE ReadEnds \/ \E n \in 1..MaxSupply : Arrive(n)
    BY <2>3 DEF ReadEnds, Arrive
  <2> QED
    BY <2>1, <2>2, <2>3 DEF RelayNext, allvars
<1> QED
  BY <1>1, <1>2, InitPipeInv, NextPipeInv, RelayInitInv, RelayStepInv, PTL DEF RelaySpec, PipeSpec
-----------------------------------------------------------------------------
(* Rounding up to a multiple of chunk, the way Buffer::setCapacity pads a  *)
(* capacity, yields no less than was asked for and costs less than one     *)
(* chunk more.                                                             *)
LEMMA PaddingBounds ==
    ASSUME NEW chunk \in Nat \ {0}, NEW value \in Nat, value > 0
    PROVE  /\ (value - 1) + chunk - ((value - 1) % chunk) \in Nat
           /\ (value - 1) + chunk - ((value - 1) % chunk) >= value
           /\ (value - 1) + chunk - ((value - 1) % chunk) < value + chunk
<1>1. (value - 1) % chunk \in 0..(chunk - 1)
    OBVIOUS
<1> QED
    BY <1>1

(* Appending moves nothing, as push_back() leaves what is in a buffer where *)
(* it is.                                                                   *)
LEMMA ConcatIs ==
    ASSUME NEW S, NEW s \in Seq(S), NEW t \in Seq(S)
    PROVE  /\ s \o t \in Seq(S) /\ Len(s \o t) = Len(s) + Len(t)
           /\ \A i \in 1..Len(s) : (s \o t)[i] = s[i]
           /\ \A i \in 1..Len(t) : (s \o t)[Len(s) + i] = t[i]
    OBVIOUS

(* Dropping what was there leaves what was appended. *)
LEMMA DropPrefix ==
    ASSUME NEW S, NEW s \in Seq(S), NEW t \in Seq(S)
    PROVE  SubSeq(s \o t, Len(s) + 1, Len(s \o t)) = t
<1>1. /\ s \o t \in Seq(S) /\ Len(s \o t) = Len(s) + Len(t)
      /\ \A i \in 1..Len(t) : (s \o t)[Len(s) + i] = t[i]
    BY ConcatIs
<1> DEFINE u == s \o t
           v == SubSeq(u, Len(s) + 1, Len(u))
<1>2. u \in Seq(S) /\ Len(u) = Len(s) + Len(t) /\ Len(s) \in Nat /\ Len(t) \in Nat
    BY <1>1
<1>3. \A i \in 1..Len(t) : u[Len(s) + i] = t[i]
    BY <1>1
<1> HIDE DEF u
<1>4. v \in Seq(S) /\ Len(v) = Len(t) /\ \A i \in 1..Len(t) : v[i] = u[Len(s) + i]
    BY <1>2
<1> HIDE DEF v
<1>5. v = t
    BY <1>3, <1>4
<1> QED
    BY <1>5 DEF u, v

(* What is left of a buffer from an offset on. *)
LEMMA DropIs ==
    ASSUME NEW S, NEW s \in Seq(S), NEW n \in 0..Len(s)
    PROVE  /\ Drop(s, n) \in Seq(S) /\ Len(Drop(s, n)) = Len(s) - n
           /\ \A i \in 1..Len(Drop(s, n)) : Drop(s, n)[i] = s[n + i]
    BY DEF Drop

Bytes == 1..MaxBytes

Chunks == [kind : {"buffer"}, data : Seq(Bytes), off : Nat, cap : Nat]

(* A BufferStream that can be: what is unread lies in data_, and data_ in  *)
(* its storage.                                                            *)
Sound(c) ==
    /\ c \in Chunks /\ c.off <= Len(c.data)
    /\ c.cap <= HEAP_LIMIT /\ Len(c.data) <= c.cap

(* reserve() never shrinks a buffer, nor takes more than the heap has. *)
LEMMA ReservedFits ==
    ASSUME NEW cap \in Nat, cap <= HEAP_LIMIT, NEW need \in Nat
    PROVE  ReservedCap(cap, need) \in Nat /\ cap <= ReservedCap(cap, need)
           /\ ReservedCap(cap, need) <= HEAP_LIMIT
<1>1. CASE need > cap
  <2>0. need > 0
      BY <1>1
  <2>1. PadUp(need) \in Nat /\ PadUp(need) >= need
      BY Zenon, <2>0, PaddingBounds, ChunkAssumption DEF PadUp
  <2>2. GrownTo(cap, need) \in Nat /\ GrownTo(cap, need) >= need
      BY <2>1 DEF GrownTo
  <2> QED
      BY <1>1, <2>2, ChunkAssumption DEF ReservedCap
<1>2. CASE ~(need > cap)
    BY <1>2 DEF ReservedCap
<1> QED
    BY <1>1, <1>2

(* write(const char ptr) appends all or nothing, and moves nothing. *)
LEMMA PushedIs ==
    ASSUME NEW c, Sound(c), NEW bytes \in Seq(Bytes)
    PROVE  /\ Sound(Pushed(c, bytes)) /\ Pushed(c, bytes).off = c.off
           /\ Pushed(c, bytes).data \in {c.data, c.data \o bytes}
<1> DEFINE need == Len(c.data) + Len(bytes)
           cap == ReservedCap(c.cap, need)
           d == IF need <= cap THEN c.data \o bytes ELSE c.data
<1>0. need \in Nat /\ c.cap \in Nat /\ c.cap <= HEAP_LIMIT
    BY DEF Sound, Chunks
<1> HIDE DEF need
<1>1. cap \in Nat /\ c.cap <= cap /\ cap <= HEAP_LIMIT
    BY Zenon, <1>0, ReservedFits
<1> HIDE DEF cap
<1>2. d \in Seq(Bytes) /\ Len(d) <= cap /\ Len(c.data) <= Len(d) /\ d \in {c.data, c.data \o bytes}
    BY <1>1 DEF Sound, Chunks, need
<1>3. Pushed(c, bytes) = [c EXCEPT !.cap = cap, !.data = d]
    BY DEF Pushed, need, cap, Sound, Chunks
<1> HIDE DEF d
<1>4. c.off <= Len(d)
    BY <1>2 DEF Sound, Chunks
<1>5. Sound([c EXCEPT !.cap = cap, !.data = d])
    BY Zenon, <1>1, <1>2, <1>4 DEF Sound, Chunks
<1>6. [c EXCEPT !.cap = cap, !.data = d].off = c.off /\ [c EXCEPT !.cap = cap, !.data = d].data = d
    BY DEF Sound, Chunks
<1> QED
    BY <1>2, <1>3, <1>5, <1>6

(* write(Pipe) and write(int fd) append what came, if it fits. *)
LEMMA FilledIs ==
    ASSUME NEW c, Sound(c), NEW amount \in Nat, NEW bytes \in Seq(Bytes),
           Len(bytes) <= Room(c, amount)
    PROVE  /\ Sound(Filled(c, amount, bytes)) /\ Filled(c, amount, bytes).off = c.off
           /\ Filled(c, amount, bytes).data = c.data \o bytes
<1> DEFINE need == Len(c.data) + amount
           cap == ReservedCap(c.cap, need)
           d == c.data \o bytes
<1>0. need \in Nat /\ c.cap \in Nat /\ c.cap <= HEAP_LIMIT
    BY DEF Sound, Chunks
<1> HIDE DEF need
<1>1. cap \in Nat /\ c.cap <= cap /\ cap <= HEAP_LIMIT
    BY Zenon, <1>0, ReservedFits
<1>2. d \in Seq(Bytes) /\ Len(d) = Len(c.data) + Len(bytes)
    BY DEF Sound, Chunks
<1>3. Len(bytes) <= cap - Len(c.data)
    BY <1>1 DEF Room, Min2, Sound, Chunks, need
<1>4. Filled(c, amount, bytes) = [c EXCEPT !.cap = cap, !.data = d]
    BY DEF Filled, Sound, Chunks, need
<1> HIDE DEF cap, d
<1>5. Len(d) <= cap /\ c.off <= Len(d)
    BY <1>1, <1>2, <1>3 DEF Sound, Chunks
<1>6. /\ Sound(Filled(c, amount, bytes)) /\ Filled(c, amount, bytes).off = c.off
      /\ Filled(c, amount, bytes).data = d
    BY Zenon, <1>1, <1>2, <1>4, <1>5 DEF Sound, Chunks
<1> QED
    BY <1>6 DEF d

(* n bytes leave a stream: readOffset_ moves on, or all of data_ goes. *)
Leaves(c, after, n) ==
    /\ Sound(after) /\ n <= Size(c)
    /\ \/ after.data = c.data /\ after.off = c.off + n
       \/ after.data = <<>> /\ after.off = 0 /\ n = Size(c)

(* The next n bytes of c. *)
NextBytes(c, n, bytes) ==
    bytes \in Seq(Bytes) /\ Len(bytes) = n /\ \A i \in 1..n : bytes[i] = c.data[c.off + i]

(* read(Buffer&) and read(char ptr) hand out what comes next. *)
LEMMA CopyOutIs ==
    ASSUME NEW c, Sound(c), NEW amount \in Nat
    PROVE  \E n \in Nat : /\ Leaves(c, CopyOut(c, amount).chunk, n)
                          /\ NextBytes(c, n, CopyOut(c, amount).bytes)
<1> DEFINE n == Min2(amount, Size(c))
           bytes == Take(Drop(c.data, c.off), n)
<1>1. n \in Nat /\ n <= Size(c) /\ Size(c) = Len(c.data) - c.off
    BY DEF Min2, Size, Sound, Chunks
<1>2. CopyOut(c, amount).chunk = Shift(c, n) /\ CopyOut(c, amount).bytes = bytes
    BY DEF CopyOut, Outcome
<1>3. NextBytes(c, n, bytes)
  <2> DEFINE rest == Drop(c.data, c.off)
  <2>1. /\ rest \in Seq(Bytes) /\ Len(rest) = Len(c.data) - c.off
        /\ \A i \in 1..Len(rest) : rest[i] = c.data[c.off + i]
    <3>1. c.data \in Seq(Bytes) /\ c.off \in 0..Len(c.data)
        BY DEF Sound, Chunks
    <3> QED
        BY <3>1, DropIs, Zenon
  <2> HIDE DEF rest, n
  <2>2. /\ Take(rest, n) \in Seq(Bytes) /\ Len(Take(rest, n)) = n
        /\ \A i \in 1..n : Take(rest, n)[i] = rest[i]
      BY <1>1, <2>1 DEF Take
  <2> QED
      BY <1>1, <2>1, <2>2 DEF NextBytes, rest
<1> HIDE DEF n, bytes
<1>4. Leaves(c, Shift(c, n), n)
  <2>1. CASE c.off + n < Len(c.data)
    <3>1. Shift(c, n) = [c EXCEPT !.off = @ + n]
        BY <2>1 DEF Shift
    <3> QED
        BY <1>1, <2>1, <3>1 DEF Leaves, Sound, Chunks
  <2>2. CASE ~(c.off + n < Len(c.data))
    <3>1. Shift(c, n) = [c EXCEPT !.off = 0, !.data = <<>>]
        BY <2>2 DEF Shift
    <3>2. n = Size(c)
        BY <1>1, <2>2 DEF Sound, Chunks
    <3>3. <<>> \in Seq(Bytes) /\ Len(<<>>) = 0
        OBVIOUS
    <3>4. [c EXCEPT !.off = 0, !.data = <<>>] \in Chunks
        BY Zenon, <3>3 DEF Sound, Chunks
    <3>5. Sound(Shift(c, n)) /\ Shift(c, n).data = <<>> /\ Shift(c, n).off = 0
        BY <3>1, <3>3, <3>4 DEF Sound, Chunks
    <3> QED
        BY <1>1, <3>2, <3>5 DEF Leaves
  <2> QED
      BY <2>1, <2>2
<1> QED
    BY <1>1, <1>2, <1>3, <1>4

(* read(): one byte, the next one. *)
LEMMA ByteOutIs ==
    ASSUME NEW c, Sound(c), c.off # Len(c.data)
    PROVE  Leaves(c, ByteOut(c).chunk, 1) /\ NextBytes(c, 1, ByteOut(c).bytes)
<1>1. /\ ByteOut(c).chunk = [c EXCEPT !.off = @ + 1]
      /\ ByteOut(c).bytes = <<c.data[c.off + 1]>>
    BY DEF ByteOut, Outcome
<1>2. Leaves(c, [c EXCEPT !.off = @ + 1], 1)
    BY DEF Leaves, Size, Sound, Chunks
<1>3. NextBytes(c, 1, <<c.data[c.off + 1]>>)
    BY DEF NextBytes, Sound, Chunks
<1> QED
    BY <1>1, <1>2, <1>3

(* read(Pipe) and read(int fd): as many bytes leave as the sink gets; they *)
(* are the next ones if nothing has been read yet.                         *)
LEMMA RawOutIs ==
    ASSUME NEW c, Sound(c), NEW n \in Nat, n <= Size(c)
    PROVE  /\ Leaves(c, RawOut(c, n).chunk, n)
           /\ RawOut(c, n).bytes \in Seq(Bytes) /\ Len(RawOut(c, n).bytes) = n
           /\ c.off = 0 => NextBytes(c, n, RawOut(c, n).bytes)
<1>1. /\ RawOut(c, n).chunk = [c EXCEPT !.off = @ + n]
      /\ RawOut(c, n).bytes = Take(c.data, n)
    BY DEF RawOut, Outcome
<1>2. Leaves(c, [c EXCEPT !.off = @ + n], n)
    BY DEF Leaves, Size, Sound, Chunks
<1>3. /\ Take(c.data, n) \in Seq(Bytes) /\ Len(Take(c.data, n)) = n
      /\ \A i \in 1..n : Take(c.data, n)[i] = c.data[i]
    BY DEF Take, Size, Sound, Chunks
<1> QED
    BY <1>1, <1>2, <1>3 DEF NextBytes
-----------------------------------------------------------------------------
(* What is unread is what was written and not read, by number and, for a   *)
(* careful client, in content.                                             *)
StreamInv ==
    /\ Sound(stream) /\ client \in {"careful", "any"}
    /\ accepted \in 0..MaxBytes /\ taken \in Nat /\ delivered \in Seq(Bytes)
    /\ Size(stream) = accepted - taken
    /\ client = "careful" =>
          /\ Len(delivered) = taken
          /\ \A i \in 1..Size(stream) : stream.data[stream.off + i] = taken + i

(* Every call stores the client's next bytes behind the others, or takes   *)
(* bytes out.                                                              *)
Storing ==
    \E k \in Nat :
       /\ accepted' = accepted + k /\ accepted' <= MaxBytes
       /\ Sound(stream') /\ stream'.off = stream.off
       /\ Len(stream'.data) = Len(stream.data) + k
       /\ \A i \in 1..Len(stream.data) : stream'.data[i] = stream.data[i]
       /\ \A i \in 1..k : stream'.data[Len(stream.data) + i] = accepted + i
       /\ UNCHANGED <<client, taken, delivered>>

Taking ==
    \E n \in Nat :
       /\ Leaves(stream, stream', n) /\ taken' = taken + n
       /\ delivered' \in Seq(Bytes) /\ UNCHANGED <<client, accepted>>
       /\ client = "careful" =>
             \E bytes \in Seq(Bytes) : NextBytes(stream, n, bytes) /\ delivered' = delivered \o bytes

(* The bytes a client writes next are numbered on from accepted. *)
LEMMA FreshIs ==
    ASSUME StreamInv, NEW n \in Nat, accepted + n <= MaxBytes
    PROVE  /\ Fresh(n) \in Seq(Bytes) /\ Len(Fresh(n)) = n
           /\ \A i \in 1..n : Fresh(n)[i] = accepted + i
<1>1. \A i \in 1..n : accepted + i \in Bytes
    BY BufferStreamAssumption DEF StreamInv, Bytes
<1> QED
    BY <1>1 DEF Fresh

(* Bytes appended to data_ are stored. *)
LEMMA AppendStores ==
    ASSUME StreamInv, NEW k \in Nat, NEW bytes \in Seq(Bytes), Len(bytes) = k,
           \A i \in 1..k : bytes[i] = accepted + i,
           accepted' = accepted + k, accepted + k <= MaxBytes,
           Sound(stream'), stream'.off = stream.off, stream'.data = stream.data \o bytes,
           UNCHANGED <<client, taken, delivered>>
    PROVE  Storing
<1> DEFINE d == stream.data
<1>1. d \in Seq(Bytes)
    BY DEF StreamInv, Sound, Chunks
<1> HIDE DEF d
<1>2. /\ Len(d \o bytes) = Len(d) + Len(bytes)
      /\ \A i \in 1..Len(d) : (d \o bytes)[i] = d[i]
      /\ \A i \in 1..Len(bytes) : (d \o bytes)[Len(d) + i] = bytes[i]
    BY ONLY <1>1, bytes \in Seq(Bytes), ConcatIs
<1>3. stream'.data = d \o bytes
    BY DEF d
<1> QED
    BY <1>2, <1>3 DEF Storing, d

(* The methods of BufferStream do that. *)
LEMMA NextEffect == StreamInv /\ [Next]_vars => Storing \/ Taking \/ UNCHANGED vars
<1> SUFFICES ASSUME StreamInv, Next PROVE Storing \/ Taking
    OBVIOUS
<1>0. /\ Sound(stream) /\ accepted \in Nat /\ taken \in Nat /\ delivered \in Seq(Bytes)
      /\ stream.data \in Seq(Bytes) /\ stream.off \in Nat /\ Bytes \subseteq Nat
    BY DEF StreamInv, Sound, Chunks, Bytes
<1>1. ASSUME NEW n \in Bytes, Write(n) PROVE Storing
  <2>1. n \in Nat /\ accepted + n <= MaxBytes
      BY <1>0, <1>1 DEF Write
  <2>2. /\ Fresh(n) \in Seq(Bytes) /\ Len(Fresh(n)) = n
        /\ \A i \in 1..n : Fresh(n)[i] = accepted + i
      BY <2>1, FreshIs
  <2>3. /\ Sound(stream') /\ stream'.off = stream.off
        /\ stream'.data \in {stream.data, stream.data \o Fresh(n)}
      BY Zenon, <1>0, <1>1, <2>2, PushedIs DEF Write
  <2>4. /\ accepted' = accepted + (Len(stream'.data) - Len(stream.data))
        /\ UNCHANGED <<client, taken, delivered>>
      BY <1>1 DEF Write
  <2>5. CASE stream'.data = stream.data \o Fresh(n)
    <3>0. Len(stream.data \o Fresh(n)) = Len(stream.data) + Len(Fresh(n))
        BY Zenon, <1>0, <2>2, ConcatIs
    <3>1. accepted' = accepted + n
        BY <1>0, <2>1, <2>2, <2>4, <2>5, <3>0
    <3> QED
        BY Zenon, <2>1, <2>2, <2>3, <2>4, <2>5, <3>1, AppendStores
  <2>6. CASE stream'.data = stream.data
    <3>1. accepted' = accepted + 0 /\ accepted + 0 <= MaxBytes
        BY <1>0, <2>1, <2>4, <2>6, BufferStreamAssumption
    <3>2. Len(stream'.data) = Len(stream.data) + 0
        BY <1>0, <2>6
    <3> QED
        BY <2>3, <2>4, <2>6, <3>1, <3>2 DEF Storing
  <2> QED
      BY <2>3, <2>5, <2>6
<1>2. ASSUME NEW n \in Bytes, NEW m \in 0..n, Fill(n, m) PROVE Storing
  <2>1. n \in Nat /\ m \in Nat /\ accepted + m <= MaxBytes /\ m <= Room(stream, n)
      BY <1>0, <1>2, BufferStreamAssumption DEF Fill
  <2>2. /\ Fresh(m) \in Seq(Bytes) /\ Len(Fresh(m)) = m
        /\ \A i \in 1..m : Fresh(m)[i] = accepted + i
      BY <2>1, FreshIs
  <2>3. /\ Sound(stream') /\ stream'.off = stream.off
        /\ stream'.data = stream.data \o Fresh(m)
      BY Zenon, <1>0, <1>2, <2>1, <2>2, FilledIs DEF Fill
  <2>4. accepted' = accepted + m /\ UNCHANGED <<client, taken, delivered>>
      BY <1>2 DEF Fill
  <2> QED
      BY Zenon, <2>1, <2>2, <2>3, <2>4, AppendStores
<1>3. ASSUME NEW n \in Nat, NEW outcome, HandOut(outcome), Leaves(stream, outcome.chunk, n),
             outcome.bytes \in Seq(Bytes), Len(outcome.bytes) = n,
             client = "careful" => NextBytes(stream, n, outcome.bytes)
      PROVE  Taking
  <2>1. /\ stream' = outcome.chunk /\ taken' = taken + n
        /\ delivered' = delivered \o outcome.bytes /\ UNCHANGED <<client, accepted>>
      BY <1>3 DEF HandOut
  <2>2. delivered' \in Seq(Bytes)
      BY <1>0, <1>3, <2>1, ConcatIs
  <2> QED
      BY Zenon, <1>3, <2>1, <2>2 DEF Taking
<1>4. ASSUME NEW n \in Bytes, Read(n) \/ ReadBuffer(n) PROVE Taking
  <2>1. n \in Nat /\ HandOut(CopyOut(stream, n))
      BY <1>0, <1>4 DEF Read, ReadBuffer
  <2> DEFINE outcome == CopyOut(stream, n)
  <2>2. PICK k \in Nat : Leaves(stream, outcome.chunk, k) /\ NextBytes(stream, k, outcome.bytes)
      BY <1>0, <2>1, CopyOutIs
  <2> HIDE DEF outcome
  <2>3. outcome.bytes \in Seq(Bytes) /\ Len(outcome.bytes) = k
      BY <2>2 DEF NextBytes
  <2>4. HandOut(outcome)
      BY <2>1 DEF outcome
  <2> QED
      BY <1>3, <2>2, <2>3, <2>4
<1>5. ASSUME NEW n \in Bytes, ReadBufferFails(n) PROVE Taking
  <2>1. n \in Nat
      BY <1>0, <1>5
  <2> DEFINE outcome == CopyOut(stream, n)
  <2>2. PICK k \in Nat : Leaves(stream, outcome.chunk, k) /\ NextBytes(stream, k, outcome.bytes)
      BY <1>0, <2>1, CopyOutIs
  <2>3. /\ client = "any" /\ stream' = outcome.chunk /\ taken' = taken + Len(outcome.bytes)
        /\ UNCHANGED <<client, accepted, delivered>>
      BY <1>5 DEF ReadBufferFails
  <2> HIDE DEF outcome
  <2>4. Len(outcome.bytes) = k
      BY <2>2 DEF NextBytes
  <2> QED
      BY <1>0, <2>2, <2>3, <2>4 DEF Taking
<1>6. ASSUME NEW n \in Bytes, NEW m \in 0..n, ReadRaw(n, m) PROVE Taking
  <2>1. m \in Nat /\ m <= Size(stream) /\ HandOut(RawOut(stream, m))
        /\ (client = "any" \/ stream.off = 0)
      BY <1>0, <1>6 DEF ReadRaw, Min2, Size
  <2> DEFINE outcome == RawOut(stream, m)
  <2>2. /\ Leaves(stream, outcome.chunk, m)
        /\ outcome.bytes \in Seq(Bytes) /\ Len(outcome.bytes) = m
        /\ stream.off = 0 => NextBytes(stream, m, outcome.bytes)
      BY <1>0, <2>1, RawOutIs
  <2>3. HandOut(outcome)
      BY <2>1
  <2> HIDE DEF outcome
  <2> QED
      BY <1>3, <2>1, <2>2, <2>3
<1>7. CASE ReadByte
  <2> DEFINE outcome == ByteOut(stream)
  <2>1. HandOut(outcome) /\ stream.off # Len(stream.data)
      BY <1>7 DEF ReadByte
  <2>2. Leaves(stream, outcome.chunk, 1) /\ NextBytes(stream, 1, outcome.bytes)
      BY <1>0, <2>1, ByteOutIs
  <2> HIDE DEF outcome
  <2>3. outcome.bytes \in Seq(Bytes) /\ Len(outcome.bytes) = 1
      BY <2>2 DEF NextBytes
  <2> QED
      BY Zenon, <1>3, <2>1, <2>2, <2>3
<1> QED
    BY <1>1, <1>2, <1>4, <1>5, <1>6, <1>7 DEF Next, Bytes

(* What follows from Storing and from Taking. *)
LEMMA StoringInv == ASSUME StreamInv, Storing PROVE StreamInv'
<1>1. PICK k \in Nat :
         /\ accepted' = accepted + k /\ accepted' <= MaxBytes
         /\ Sound(stream') /\ stream'.off = stream.off
         /\ Len(stream'.data) = Len(stream.data) + k
         /\ \A i \in 1..Len(stream.data) : stream'.data[i] = stream.data[i]
         /\ \A i \in 1..k : stream'.data[Len(stream.data) + i] = accepted + i
         /\ UNCHANGED <<client, taken, delivered>>
    BY DEF Storing
<1> DEFINE len == Len(stream.data)
           off == stream.off
<1>2. /\ accepted \in Nat /\ taken \in Nat /\ off \in Nat /\ len \in Nat /\ off <= len
      /\ len - off = accepted - taken /\ Size(stream) = len - off
    BY DEF StreamInv, Sound, Chunks, Size
<1>3. Size(stream') = (len + k) - off /\ accepted' = accepted + k /\ taken' = taken
    BY <1>1 DEF Size
<1> HIDE DEF len, off
<1>4. ASSUME client = "careful", NEW i \in 1..Size(stream')
      PROVE  stream'.data[stream'.off + i] = taken' + i
  <2>1. i \in 1..((len + k) - off)
      BY <1>3
  <2>2. CASE i <= len - off
    <3>1. i \in 1..Size(stream) /\ off + i \in 1..len
        BY <1>2, <2>1, <2>2
    <3> QED
        BY SMTT(20), <1>1, <1>4, <3>1 DEF StreamInv, len, off
  <2>3. CASE i > len - off
    <3> DEFINE j == i - (len - off)
    <3>1. j \in 1..k /\ off + i = len + j /\ accepted + j = taken + i
        BY <1>2, <2>1, <2>3
    <3> HIDE DEF j
    <3> QED
        BY <1>1, <3>1 DEF len, off
  <2> QED
      BY <1>2, <2>1, <2>2, <2>3
<1>6. Size(stream') = accepted' - taken'
    BY <1>2, <1>3
<1>5. accepted' \in 0..MaxBytes
    BY <1>1, <1>2, BufferStreamAssumption
<1> QED
    BY <1>1, <1>4, <1>5, <1>6 DEF StreamInv

(* The bytes that leave are the ones a careful client waits for. *)
LEMMA TakingInv ==
    ASSUME StreamInv, NEW n \in Nat, Leaves(stream, stream', n), taken' = taken + n,
           delivered' \in Seq(Bytes), UNCHANGED <<client, accepted>>,
           client = "careful" =>
              \E bytes \in Seq(Bytes) : NextBytes(stream, n, bytes) /\ delivered' = delivered \o bytes
    PROVE  /\ StreamInv'
           /\ client = "careful" =>
                 /\ n <= accepted - Len(delivered)
                 /\ delivered' = delivered \o [i \in 1..n |-> Len(delivered) + i]
<1>1. /\ Sound(stream) /\ accepted \in Nat /\ taken \in Nat /\ stream.off \in Nat
      /\ Len(stream.data) \in Nat /\ stream.off <= Len(stream.data)
      /\ Len(stream.data) - stream.off = accepted - taken
      /\ n <= Len(stream.data) - stream.off
    BY DEF StreamInv, Sound, Chunks, Size, Leaves
<1>2. Sound(stream') /\ Size(stream') = Size(stream) - n
  <2>1. Len(<<>>) = 0
      OBVIOUS
  <2>2. Sound(stream')
      BY Zenon DEF Leaves
  <2>3. CASE stream'.data = stream.data /\ stream'.off = stream.off + n
      BY <1>1, <2>2, <2>3 DEF Size
  <2>4. CASE stream'.data = <<>> /\ stream'.off = 0 /\ n = Size(stream)
      BY <1>1, <2>1, <2>2, <2>4 DEF Size
  <2> QED
      BY Zenon, <2>3, <2>4 DEF Leaves
<1>3. ASSUME client = "careful", NEW i \in 1..Size(stream')
      PROVE  stream'.data[stream'.off + i] = taken' + i
  <2>1. i \in Nat /\ i >= 1 /\ i <= Size(stream) - n /\ n + i \in 1..Size(stream)
      BY <1>1, <1>2 DEF Size
  <2>2. stream'.data = stream.data /\ stream'.off = stream.off + n
      BY <1>1, <2>1 DEF Leaves, Size
  <2>3. stream.data[stream.off + (n + i)] = taken + (n + i)
      BY <1>3, <2>1 DEF StreamInv
  <2>4. stream.off + (n + i) = (stream.off + n) + i /\ taken + (n + i) = (taken + n) + i
      BY <1>1, <2>1
  <2> QED
      BY <2>2, <2>3, <2>4
<1>4. ASSUME client = "careful"
      PROVE  /\ Len(delivered') = taken' /\ n <= accepted - Len(delivered)
             /\ delivered' = delivered \o [i \in 1..n |-> Len(delivered) + i]
  <2>1. PICK bytes \in Seq(Bytes) : NextBytes(stream, n, bytes) /\ delivered' = delivered \o bytes
      BY <1>4
  <2>2. delivered \in Seq(Bytes) /\ Len(delivered) = taken
      BY <1>4 DEF StreamInv
  <2>3. Len(delivered \o bytes) = Len(delivered) + Len(bytes)
      BY ONLY <2>2, bytes \in Seq(Bytes), ConcatIs, Zenon
  <2>4. Len(bytes) = n /\ DOMAIN bytes = 1..n
      BY <2>1 DEF NextBytes
  <2>5. ASSUME NEW i \in 1..n PROVE bytes[i] = Len(delivered) + i
    <3>1. i \in 1..Size(stream) /\ bytes[i] = stream.data[stream.off + i]
        BY <1>1, <2>1 DEF NextBytes, Size
    <3> QED
        BY <1>4, <2>2, <3>1 DEF StreamInv
  <2>6. bytes = [i \in 1..n |-> Len(delivered) + i]
      BY <2>4, <2>5
  <2> QED
      BY <1>1, <2>1, <2>2, <2>3, <2>4, <2>6
<1>5. Size(stream') = accepted' - taken' /\ taken' \in Nat
    BY <1>1, <1>2 DEF Size
<1> QED
    BY Zenon, <1>2, <1>3, <1>4, <1>5 DEF StreamInv

(* No write and no read breaks it. *)
LEMMA NextStreamInv == StreamInv /\ [Next]_vars => StreamInv'
<1> SUFFICES ASSUME StreamInv, [Next]_vars PROVE StreamInv'
    OBVIOUS
<1>1. CASE Taking
  <2>1. PICK n \in Nat :
           /\ Leaves(stream, stream', n) /\ taken' = taken + n
           /\ delivered' \in Seq(Bytes) /\ UNCHANGED <<client, accepted>>
           /\ client = "careful" =>
                 \E bytes \in Seq(Bytes) :
                    NextBytes(stream, n, bytes) /\ delivered' = delivered \o bytes
      BY <1>1 DEF Taking
  <2> QED
      BY <2>1, TakingInv
<1>2. CASE UNCHANGED vars
    BY <1>2 DEF vars, StreamInv, Sound, Size
<1> QED
    BY <1>1, <1>2, NextEffect, StoringInv

(* A new BufferStream is empty. *)
LEMMA InitStreamInv == Init => StreamInv
<1> SUFFICES ASSUME Init PROVE StreamInv
    OBVIOUS
<1> DEFINE cap == ReservedCap(0, InitialCap)
<1>1. cap \in Nat /\ cap <= HEAP_LIMIT
    BY ReservedFits, ChunkAssumption, BufferStreamAssumption
<1>2. stream = [kind |-> "buffer", data |-> <<>>, off |-> 0, cap |-> cap]
    BY DEF Init, NewBuffer, Chunk
<1> HIDE DEF cap
<1>3. <<>> \in Seq(Bytes) /\ Len(<<>>) = 0
    OBVIOUS
<1>4. Sound(stream) /\ Size(stream) = 0
    BY <1>1, <1>2, <1>3 DEF Sound, Chunks, Size
<1> QED
    BY <1>3, <1>4, BufferStreamAssumption DEF Init, StreamInv
-----------------------------------------------------------------------------
(* A FilterStream uses its parent by the parent's own methods. *)
LEMMA FilterNextIs == FilterNext => [Next]_vars
<1> SUFFICES ASSUME FilterNext PROVE [Next]_vars
    OBVIOUS
<1>1. ASSUME NEW n \in 1..MaxBytes, Refill(n) PROVE [Next]_vars
    BY <1>1 DEF Refill, Pull, Next
<1>2. ASSUME NEW n \in 1..MaxBytes, FilterRead(n) \/ FilterReadRaw(n) PROVE [Next]_vars
    BY <1>1, <1>2 DEF FilterRead, FilterReadRaw
<1>3. CASE Direct \/ Supply
    BY <1>3 DEF Direct, Supply, Next
<1>4. CASE FilterReadWild
    BY <1>4 DEF FilterReadWild
<1> QED
    BY <1>2, <1>3, <1>4 DEF FilterNext

(* Whatever holds of a BufferStream holds of the parent of a FilterStream. *)
THEOREM ParentIsStream == FilterSpec => Spec
<1>1. FilterInit => Init
    BY DEF FilterInit
<1>2. [FilterNext]_<<vars, fvars>> => [Next]_vars
    BY FilterNextIs
<1> QED
    BY <1>1, <1>2, PTL DEF FilterSpec, Spec

(* size() counts the bytes written and not yet read, whatever is called. *)
THEOREM Pending == FilterSpec => []SizeIsPending
<1>1. StreamInv => SizeIsPending
    BY DEF StreamInv, SizeIsPending
<1>2. Spec => []SizeIsPending
    BY <1>1, InitStreamInv, NextStreamInv, PTL DEF Spec
<1> QED
    BY <1>2, ParentIsStream, PTL

(* A careful client gets what it wrote, once each and in order, over any   *)
(* mixture of the read and write methods: the stream implements ByteQueue. *)
THEOREM InOrder == FilterSpec => FirstInFirstOut
<1>1. Init => Queue!Init
    BY DEF Init, Queue!Init
<1>2. StreamInv /\ [Next]_vars => [Queue!Next]_Queue!vars
  <2> SUFFICES ASSUME StreamInv, [Next]_vars PROVE [Queue!Next]_Queue!vars
      OBVIOUS
  <2>1. CASE Storing
    <3>1. PICK k \in Nat : accepted' = accepted + k /\ UNCHANGED <<client, delivered>>
        BY <2>1 DEF Storing
    <3>2. accepted \in Nat
        BY DEF StreamInv
    <3>3. CASE client = "careful" /\ k > 0
      <4>1. accepted' > accepted
          BY <3>1, <3>2, <3>3
      <4> QED
          BY <3>1, <3>3, <4>1 DEF Queue!Next, Queue!Accept
    <3>4. CASE client # "careful" \/ k = 0
        BY <3>1, <3>2, <3>4 DEF Queue!vars
    <3> QED
        BY <3>1, <3>3, <3>4
  <2>2. CASE Taking
    <3>1. PICK n \in Nat :
             /\ Leaves(stream, stream', n) /\ taken' = taken + n
             /\ delivered' \in Seq(Bytes) /\ UNCHANGED <<client, accepted>>
             /\ client = "careful" =>
                   \E bytes \in Seq(Bytes) :
                      NextBytes(stream, n, bytes) /\ delivered' = delivered \o bytes
        BY <2>2 DEF Taking
    <3>2. CASE client = "careful"
      <4>1. /\ n <= accepted - Len(delivered) /\ UNCHANGED <<client, accepted>>
            /\ delivered' = delivered \o [i \in 1..n |-> Len(delivered) + i]
          BY Zenon, <3>1, <3>2, TakingInv
      <4>2. accepted \in Nat /\ delivered \in Seq(Bytes)
          BY DEF StreamInv
      <4>3. CASE n = 0
        <5>1. [i \in 1..n |-> Len(delivered) + i] = <<>>
            BY <4>3
        <5>2. delivered \o <<>> = delivered
            BY <4>2
        <5>3. UNCHANGED delivered
            BY Zenon, <4>1, <5>1, <5>2
        <5> QED
            BY Zenon, <4>1, <5>3 DEF Queue!vars
      <4>4. CASE n # 0
        <5>1. n \in 1..(accepted - Len(delivered))
            BY <4>1, <4>2, <4>4
        <5> QED
            BY <3>2, <4>1, <5>1 DEF Queue!Next, Queue!Deliver, Queue!Following
      <4> QED
          BY <4>3, <4>4
    <3>3. CASE client # "careful"
        BY <3>1, <3>3 DEF Queue!vars
    <3> QED
        BY <3>2, <3>3
  <2>3. CASE UNCHANGED vars
      BY <2>3 DEF vars, Queue!vars
  <2> QED
      BY <2>1, <2>2, <2>3, NextEffect
<1>3. Spec => FirstInFirstOut
    BY <1>1, <1>2, InitStreamInv, NextStreamInv, PTL DEF Spec, FirstInFirstOut, Queue!Spec
<1> QED
    BY <1>3, ParentIsStream, PTL
-----------------------------------------------------------------------------
Notes == [byte : Nat, through : Seq(Nat)]

(* Byte b after all the filters. *)
Note(b) == [byte |-> b, through |-> [k \in 1..filters |-> k]]

(* A filter makes one byte of each, and adds itself to its note. *)
LEMMA FilterIs ==
    ASSUME NEW k \in Nat, NEW bytes \in Seq(Notes)
    PROVE  /\ Filter(k, bytes) \in Seq(Notes) /\ Len(Filter(k, bytes)) = Len(bytes)
           /\ \A i \in 1..Len(bytes) :
                 /\ Filter(k, bytes)[i].byte = bytes[i].byte
                 /\ Filter(k, bytes)[i].through = Append(bytes[i].through, k)
<1> DEFINE made(i) == [bytes[i] EXCEPT !.through = Append(@, k)]
<1>1. ASSUME NEW i \in 1..Len(bytes)
      PROVE  made(i) \in Notes /\ made(i).byte = bytes[i].byte
             /\ made(i).through = Append(bytes[i].through, k)
  <2>1. bytes[i] \in Notes
      OBVIOUS
  <2>2. Append(bytes[i].through, k) \in Seq(Nat)
      BY <2>1 DEF Notes
  <2> QED
      BY Zenon, <2>1, <2>2 DEF Notes
<1>2. Filter(k, bytes) = [i \in 1..Len(bytes) |-> made(i)]
    BY DEF Filter
<1> HIDE DEF made
<1> QED
    BY <1>1, <1>2

(* process() with one filter or two passes every byte through all of them. *)
LEMMA ProcessedIs ==
    ASSUME filters \in {1, 2}, NEW bytes \in Seq(Nat)
    PROVE  /\ Processed(Raw(bytes)) \in Seq(Notes)
           /\ Len(Processed(Raw(bytes))) = Len(bytes)
           /\ \A i \in 1..Len(bytes) : Processed(Raw(bytes))[i] = Note(bytes[i])
<1> DEFINE raw == Raw(bytes)
           one == Filter(1, raw)
           two == Filter(2, one)
<1>1. /\ raw \in Seq(Notes) /\ Len(raw) = Len(bytes)
      /\ \A i \in 1..Len(bytes) : raw[i].byte = bytes[i] /\ raw[i].through = <<>>
  <2>1. <<>> \in Seq(Nat)
      OBVIOUS
  <2>2. \A i \in 1..Len(bytes) : [byte |-> bytes[i], through |-> <<>>] \in Notes
      BY <2>1 DEF Notes
  <2> QED
      BY <2>2 DEF Raw
<1>2. \A s, t \in Notes : s.byte = t.byte /\ s.through = t.through => s = t
    BY DEF Notes
<1> HIDE DEF raw
<1>3. /\ one \in Seq(Notes) /\ Len(one) = Len(bytes)
      /\ \A i \in 1..Len(bytes) : one[i].byte = bytes[i] /\ one[i].through = Append(<<>>, 1)
    BY SMTT(20), <1>1, FilterIs
<1>4. CASE filters = 1
  <2>1. Processed(raw) = one
      BY <1>4 DEF Processed
  <2>2. Append(<<>>, 1) = [k \in 1..1 |-> k]
      OBVIOUS
  <2>3. \A b \in Nat : Note(b) \in Notes /\ Note(b).byte = b /\ Note(b).through = Append(<<>>, 1)
      BY <1>4, <2>2 DEF Note, Notes
  <2> HIDE DEF one
  <2>4. ASSUME NEW i \in 1..Len(bytes) PROVE one[i] = Note(bytes[i])
    <3> DEFINE s == one[i]
               t == Note(bytes[i])
    <3>1. s \in Notes /\ bytes[i] \in Nat
        BY <1>3
    <3>2. s.byte = bytes[i] /\ s.through = Append(<<>>, 1)
        BY <1>3
    <3>3. t \in Notes /\ t.byte = bytes[i] /\ t.through = Append(<<>>, 1)
        BY <2>3, <3>1
    <3> HIDE DEF s, t
    <3>4. s = t
        BY <1>2, <3>1, <3>2, <3>3
    <3> QED
        BY <3>4 DEF s, t
  <2> QED
      BY <1>3, <2>1, <2>4 DEF raw
<1>5. CASE filters = 2
  <2> DEFINE A == [result |-> one, tmp |-> <<>>]
             B == [result |-> <<>> \o two, tmp |-> one]
             round(f, k) == IF k = 1 THEN A
                           ELSE [result |-> f[k-1].tmp \o Filter(k, f[k-1].result),
                                 tmp    |-> f[k-1].result]
             after == CHOOSE f : f = [k \in 1..filters |-> round(f, k)]
  <2>0. one \in Seq(Notes)
      BY <1>3
  <2>1. \E f : f = [k \in 1..filters |-> round(f, k)]
    <3> DEFINE g == [k \in 1..filters |-> IF k = 1 THEN A ELSE B]
    <3>1. g[1] = A /\ A.tmp = <<>> /\ A.result = one
      <4>1. 1 \in 1..filters
          BY <1>5
      <4> QED
          BY Zenon, <4>1
    <3>2. ASSUME NEW k \in 1..filters PROVE g[k] = round(g, k)
      <4>1. CASE k = 1
          BY <4>1
      <4>2. CASE k # 1
        <5>1. k = 2 /\ k - 1 = 1
            BY <1>5, <4>2
        <5>2. g[k] = B
            BY <4>2
        <5> HIDE DEF g
        <5> QED
            BY Zenon, <3>1, <4>2, <5>1, <5>2
      <4> QED
          BY Zenon, <4>1, <4>2
    <3>3. g = [k \in 1..filters |-> round(g, k)]
        BY Zenon, <3>2
    <3> QED
        BY Zenon, <3>3
  <2>2. after = [k \in 1..filters |-> round(after, k)]
      BY Zenon, <2>1
  <2>3. Processed(raw) = after[filters].result
      BY <1>5 DEF Processed, Chain
  <2> HIDE DEF after
  <2>4. after[1] = A
      BY <1>5, <2>2
  <2>5. after[2] = B
    <3>1. 2 \in 1..filters /\ 2 # 1 /\ 2 - 1 = 1
        BY <1>5
    <3>2. after[2] = round(after, 2)
        BY Zenon, <2>2, <3>1
    <3>3. A.tmp = <<>> /\ A.result = one
        OBVIOUS
    <3> QED
        BY Zenon, <2>4, <3>1, <3>2, <3>3
  <2>6. Processed(raw) = <<>> \o two
      BY <1>5, <2>3, <2>5
  <2> HIDE DEF one
  <2>7. /\ two \in Seq(Notes) /\ Len(two) = Len(bytes)
        /\ \A i \in 1..Len(bytes) : two[i].byte = bytes[i]
                                    /\ two[i].through = Append(Append(<<>>, 1), 2)
    <3>1. /\ two \in Seq(Notes) /\ Len(two) = Len(one)
          /\ \A i \in 1..Len(one) : two[i].byte = one[i].byte
                                    /\ two[i].through = Append(one[i].through, 2)
        BY SMTT(20), <1>3, FilterIs
    <3> HIDE DEF two
    <3> QED
        BY Zenon, <1>3, <3>1
  <2>8. Append(Append(<<>>, 1), 2) = [k \in 1..2 |-> k]
      OBVIOUS
  <2>9. \A b \in Nat : /\ Note(b) \in Notes /\ Note(b).byte = b
                       /\ Note(b).through = Append(Append(<<>>, 1), 2)
      BY <1>5, <2>8 DEF Note, Notes
  <2> HIDE DEF two
  <2>10. ASSUME NEW i \in 1..Len(bytes) PROVE two[i] = Note(bytes[i])
    <3> DEFINE s == two[i]
               t == Note(bytes[i])
    <3>1. s \in Notes /\ bytes[i] \in Nat
        BY <2>7
    <3>2. s.byte = bytes[i] /\ s.through = Append(Append(<<>>, 1), 2)
        BY <2>7
    <3>3. t \in Notes /\ t.byte = bytes[i] /\ t.through = Append(Append(<<>>, 1), 2)
        BY <2>9, <3>1
    <3> HIDE DEF s, t
    <3>4. s = t
        BY Zenon, <1>2, <3>1, <3>2, <3>3
    <3> QED
        BY <3>4 DEF s, t
  <2>11. <<>> \o two = two
      BY <2>7
  <2> QED
      BY <2>6, <2>7, <2>10, <2>11 DEF raw
<1> QED
    BY <1>4, <1>5

(* inputBuffer_ holds all that the parent has handed out, and the first    *)
(* processing left the first bytes of that, filtered, at the start of      *)
(* outputBuffer_.                                                          *)
FilterInv ==
    client = "careful" /\ filters \in {1, 2} /\ inputPos = 0 =>
        /\ \A i \in 1..Len(delivered) : delivered[i] = i
        /\ inputBuffer = delivered
        /\ outputBuffer \in Seq(Notes) /\ result \in Seq(Notes)
        /\ first \in 0..Len(outputBuffer) /\ (first = 0 => outputBuffer = <<>>)
        /\ \A i \in 1..first : outputBuffer[i] = Note(i)

(* pull() moves what the parent hands out behind the rest of inputBuffer_. *)
LEMMA PullIs ==
    ASSUME StreamInv, FilterInv, NEW n \in 1..MaxBytes, Pull(n),
           client = "careful", filters \in {1, 2}, inputPos = 0
    PROVE  /\ client' = client /\ delivered' \in Seq(Bytes) /\ inputBuffer' = delivered'
           /\ \A i \in 1..Len(delivered') : delivered'[i] = i
<1>1. /\ delivered \in Seq(Bytes) /\ inputBuffer = delivered
      /\ \A i \in 1..Len(delivered) : delivered[i] = i
    BY DEF StreamInv, FilterInv
<1>2. CASE UNCHANGED <<vars, inputBuffer>>
    BY <1>1, <1>2 DEF vars
<1>3. CASE ReadBuffer(n) /\ inputBuffer' = inputBuffer \o Drop(delivered', Len(delivered))
  <2>1. n \in Nat /\ Sound(stream) /\ Bytes \subseteq Nat
      BY BufferStreamAssumption DEF StreamInv, Bytes
  <2> DEFINE outcome == CopyOut(stream, n)
  <2>2. /\ stream' = outcome.chunk /\ taken' = taken + Len(outcome.bytes)
        /\ delivered' = delivered \o outcome.bytes /\ UNCHANGED <<client, accepted>>
      BY <1>3 DEF ReadBuffer, HandOut
  <2>3. PICK k \in Nat : Leaves(stream, outcome.chunk, k) /\ NextBytes(stream, k, outcome.bytes)
      BY <2>1, CopyOutIs
  <2> HIDE DEF outcome
  <2>4. outcome.bytes \in Seq(Bytes) /\ Len(outcome.bytes) = k
      BY <2>3 DEF NextBytes
  <2>5. delivered' \in Seq(Bytes)
      BY <1>1, <2>2, <2>4, ConcatIs
  <2>6. delivered' = delivered \o [i \in 1..k |-> Len(delivered) + i]
      BY Zenon, <2>2, <2>3, <2>4, <2>5, TakingInv
  <2> DEFINE seg == [i \in 1..k |-> Len(delivered) + i]
  <2>7. delivered \in Seq(Nat) /\ seg \in Seq(Nat) /\ Len(seg) = k
      BY <1>1, <2>1
  <2>8. ASSUME NEW i \in 1..k PROVE seg[i] = Len(delivered) + i
      OBVIOUS
  <2> HIDE DEF seg
  <2>9. /\ Len(delivered \o seg) = Len(delivered) + Len(seg)
        /\ \A i \in 1..Len(delivered) : (delivered \o seg)[i] = delivered[i]
        /\ \A i \in 1..Len(seg) : (delivered \o seg)[Len(delivered) + i] = seg[i]
    <3>1. delivered \in Seq(Nat) /\ seg \in Seq(Nat)
        BY <2>7
    <3> QED
        BY ONLY <3>1, ConcatIs
  <2>10. Drop(delivered \o seg, Len(delivered)) = seg
      BY Zenon, <2>7, DropPrefix DEF Drop
  <2>11. inputBuffer' = delivered'
      BY Zenon, <1>1, <1>3, <2>6, <2>10 DEF seg
  <2>12. ASSUME NEW i \in 1..Len(delivered') PROVE delivered'[i] = i
    <3> DEFINE len == Len(delivered)
    <3>1. delivered' = delivered \o seg /\ len \in Nat
        BY <1>1, <2>6 DEF seg
    <3>2. i \in 1..(len + k)
        BY <2>7, <2>9, <3>1
    <3>3. CASE i <= len
      <4>1. i \in 1..len
          BY <3>1, <3>2, <3>3
      <4> QED
          BY <1>1, <2>9, <3>1, <4>1
    <3>4. CASE i > len
      <4> DEFINE j == i - len
      <4> HIDE DEF len
      <4>1. j \in 1..k /\ i = len + j
          BY <3>1, <3>2, <3>4
      <4> HIDE DEF j
      <4> QED
          BY <2>7, <2>8, <2>9, <3>1, <4>1 DEF len
    <3> QED
        BY <3>1, <3>2, <3>3, <3>4
  <2> QED
      BY <2>2, <2>5, <2>11, <2>12
<1> QED
    BY <1>2, <1>3 DEF Pull, ReadBufferFails

(* A read through the filters appends the whole of what the parent has     *)
(* handed out, filtered, to outputBuffer_; what the first one put there    *)
(* stays at its start.                                                     *)
LEMMA RefillIs ==
    ASSUME StreamInv, FilterInv, NEW n \in 1..MaxBytes, Refill(n),
           client = "careful", filters \in {1, 2}, inputPos = 0
    PROVE  /\ client' = client /\ UNCHANGED <<filters, inputPos>>
           /\ inputBuffer' = delivered' /\ \A i \in 1..Len(delivered') : delivered'[i] = i
           /\ outputBuffer' \in Seq(Notes)
           /\ first' \in 0..Len(outputBuffer') /\ (first' = 0 => outputBuffer' = <<>>)
           /\ \A i \in 1..first' : outputBuffer'[i] = Note(i)
           /\ IF first = 0 THEN first' = Len(outputBuffer') ELSE first' = first
<1>1. /\ outputBuffer \in Seq(Notes) /\ first \in 0..Len(outputBuffer)
      /\ first = 0 => outputBuffer = <<>>
      /\ \A i \in 1..first : outputBuffer[i] = Note(i)
    BY DEF FilterInv
<1>2. /\ client' = client /\ delivered' \in Seq(Bytes) /\ inputBuffer' = delivered'
      /\ \A i \in 1..Len(delivered') : delivered'[i] = i
    BY PullIs DEF Refill
<1>3. delivered' \in Seq(Nat) /\ Drop(inputBuffer', inputPos) = delivered'
  <2>1. delivered' \in Seq(Nat)
      BY <1>2, BufferStreamAssumption DEF Bytes
  <2> DEFINE d == delivered'
  <2>2. d \in Seq(Nat)
      BY <2>1
  <2> HIDE DEF d
  <2>3. SubSeq(d, 1, Len(d)) = d
      BY <2>2
  <2> QED
      BY <1>2, <2>1, <2>3 DEF Drop, d
<1> DEFINE new == Processed(Raw(delivered'))
           old == outputBuffer
<1>4. /\ new \in Seq(Notes) /\ Len(new) = Len(delivered')
      /\ \A i \in 1..Len(delivered') : new[i] = Note(delivered'[i])
    BY <1>3, ProcessedIs
<1>5. \A i \in 1..Len(new) : new[i] = Note(i)
    BY <1>2, <1>4
<1>6. /\ outputBuffer' = old \o new
      /\ first' = IF old = <<>> THEN Len(outputBuffer') ELSE first
      /\ UNCHANGED <<filters, inputPos>>
    BY <1>3 DEF Refill, Appended
<1> HIDE DEF new
<1>7. /\ old \o new \in Seq(Notes) /\ Len(old \o new) = Len(old) + Len(new)
      /\ \A i \in 1..Len(old) : (old \o new)[i] = old[i]
  <2>1. old \in Seq(Notes) /\ new \in Seq(Notes)
      BY <1>1, <1>4
  <2> HIDE DEF old
  <2> QED
      BY ONLY <2>1, ConcatIs
<1>8. CASE first = 0
  <2>1. old = <<>> /\ old \o new = new
      BY <1>1, <1>4, <1>8
  <2>2. outputBuffer' = new /\ first' = Len(new) /\ Len(new) \in Nat
      BY <1>4, <1>6, <2>1
  <2>3. Len(new) = 0 => new = <<>>
      BY <1>4
  <2> QED
      BY <1>2, <1>4, <1>5, <1>6, <1>8, <2>2, <2>3
<1>9. CASE first # 0
  <2>1. old # <<>> /\ first' = first /\ Len(old) \in Nat /\ Len(new) \in Nat
      BY <1>1, <1>4, <1>6, <1>9
  <2>2. ASSUME NEW i \in 1..first PROVE outputBuffer'[i] = Note(i)
    <3>1. i \in 1..Len(old)
        BY <1>1, <2>1
    <3> QED
        BY <1>1, <1>6, <1>7, <3>1
  <2>3. first \in 0..(Len(old) + Len(new))
      BY <1>1, <2>1
  <2> QED
      BY <1>2, <1>6, <1>7, <1>9, <2>1, <2>2, <2>3
<1> QED
    BY <1>8, <1>9

(* A step of the stream and its FilterStream keeps the invariant: nobody   *)
(* but the FilterStream reads from the parent.                             *)
LEMMA NextFilterInv ==
    StreamInv /\ FilterInv /\ [FilterNext]_<<vars, fvars>> => FilterInv'
<1> SUFFICES ASSUME StreamInv, FilterInv, [FilterNext]_<<vars, fvars>>,
                    (client = "careful" /\ filters \in {1, 2} /\ inputPos = 0)'
             PROVE  FilterInv'
    BY DEF FilterInv
<1>1. CASE UNCHANGED <<vars, fvars>>
    BY <1>1 DEF FilterInv, vars, fvars, Note
<1>2. CASE Direct
    BY <1>2 DEF Direct, fvars
<1>3. CASE Supply
    BY <1>3 DEF Supply, Write, FilterInv, fvars, Note
<1>4. ASSUME NEW n \in 1..MaxBytes, FilterRead(n) \/ FilterReadRaw(n) PROVE FilterInv'
  <2>1. Refill(n) /\ inputPos = 0 /\ Pull(n)
      BY <1>4 DEF FilterRead, FilterReadRaw, Refill
  <2>2. filters' = filters /\ client' = client
    <3>1. client' = client
        BY <2>1 DEF Pull, ReadBuffer, ReadBufferFails, HandOut, vars
    <3> QED
        BY <2>1, <3>1 DEF Refill
  <2>3. client = "careful" /\ filters \in {1, 2}
      BY <2>2
  <2>4. /\ inputBuffer' = delivered' /\ \A i \in 1..Len(delivered') : delivered'[i] = i
        /\ outputBuffer' \in Seq(Notes)
        /\ first' \in 0..Len(outputBuffer') /\ (first' = 0 => outputBuffer' = <<>>)
        /\ \A i \in 1..first' : outputBuffer'[i] = Note(i)
      BY <2>1, <2>3, RefillIs
  <2>5. result' \in Seq(Notes)
    <3>1. result \in Seq(Notes)
        BY <2>1, <2>3 DEF FilterInv
    <3>2. CASE FilterReadRaw(n)
        BY Zenon, <3>1, <3>2 DEF FilterReadRaw
    <3>3. CASE FilterRead(n)
      <4> DEFINE m == Min2(n, Len(outputBuffer'))
                 got == Take(outputBuffer', m)
      <4>1. m \in 0..Len(outputBuffer')
          BY <2>4, BufferStreamAssumption DEF Min2
      <4>2. result' = result \o got
          BY <2>3, <3>3 DEF FilterRead, Appended
      <4> HIDE DEF m
      <4>3. got \in Seq(Notes)
          BY <2>4, <4>1 DEF Take
      <4> HIDE DEF got
      <4> QED
          BY Zenon, <3>1, <4>2, <4>3, ConcatIs
    <3> QED
        BY <1>4, <3>2, <3>3
  <2> QED
      BY <2>2, <2>4, <2>5 DEF FilterInv, Note
<1>5. CASE FilterReadWild
    BY <1>5 DEF FilterReadWild, FilterInv, vars, Note
<1> QED
    BY <1>1, <1>2, <1>3, <1>4, <1>5 DEF FilterNext

(* A read through one filter or two yields the first bytes of the parent,  *)
(* in order and each through all filters, as long as it asks for no more   *)
(* than the first processing yielded: whatever the writer does meanwhile,  *)
(* however often process() repeats its input, and through every growth and *)
(* shift of the parent's data_.                                            *)
THEOREM ReadsFiltered == FilterSpec => FilteredInOrder
<1>1. FilterInit => FilterInv
  <2> SUFFICES ASSUME FilterInit PROVE FilterInv
      OBVIOUS
  <2>1. /\ delivered = <<>> /\ inputBuffer = <<>> /\ outputBuffer = <<>> /\ result = <<>>
        /\ first = 0
      BY DEF FilterInit, Init
  <2>2. <<>> \in Seq(Notes) /\ Len(<<>>) = 0
      OBVIOUS
  <2> QED
      BY <2>1, <2>2 DEF FilterInv
<1>2. FilterInit => StreamInv
    BY InitStreamInv DEF FilterInit
<1>3. StreamInv /\ [FilterNext]_<<vars, fvars>> => StreamInv'
    BY NextStreamInv, FilterNextIs DEF vars
<1>4. ASSUME StreamInv, FilterInv, client = "careful", filters \in {1, 2},
             NEW n \in 1..MaxBytes, FilterRead(n), first = 0 \/ n <= first
      PROVE  LET got == Drop(result', Len(result)) IN got = Filtered(Len(got))
  <2>1. /\ outputBuffer' \in Seq(Notes) /\ first' \in 0..Len(outputBuffer')
        /\ \A i \in 1..first' : outputBuffer'[i] = Note(i)
        /\ IF first = 0 THEN first' = Len(outputBuffer') ELSE first' = first
      BY <1>4, RefillIs DEF FilterRead
  <2>2. result \in Seq(Notes)
      BY <1>4 DEF FilterInv, FilterRead
  <2> DEFINE m == Min2(n, Len(outputBuffer'))
             new == Take(outputBuffer', m)
  <2>3. m \in 0..Len(outputBuffer') /\ m <= first'
      BY <1>4, <2>1, BufferStreamAssumption DEF Min2
  <2>4. result' = result \o new
      BY <1>4 DEF FilterRead, Appended
  <2> HIDE DEF m
  <2>5. new \in Seq(Notes) /\ Len(new) = m /\ \A i \in 1..m : new[i] = outputBuffer'[i]
      BY <2>1, <2>3 DEF Take
  <2>6. \A i \in 1..m : new[i] = Note(i)
      BY <2>1, <2>3, <2>5
  <2> HIDE DEF new
  <2>7. Drop(result', Len(result)) = new
      BY <2>2, <2>4, <2>5, DropPrefix DEF Drop
  <2>8. new = Filtered(m)
    <3>1. Filtered(m) = [i \in 1..m |-> Note(i)]
        BY DEF Filtered, Note
    <3>2. new = [i \in 1..m |-> new[i]]
        BY <2>3, <2>5
    <3> QED
        BY <2>6, <3>1, <3>2
  <2> QED
      BY <2>5, <2>7, <2>8
<1>5. StreamInv /\ FilterInv /\ [FilterNext]_<<vars, fvars>>
      => [client = "careful" /\ filters \in {1, 2} /\ wild = "no" =>
             \A n \in 1..MaxBytes :
                 FilterRead(n) /\ (first = 0 \/ n <= first)
                     => LET got == Drop(result', Len(result)) IN got = Filtered(Len(got))
         ]_<<vars, fvars>>
    BY <1>4
<1> QED
    BY <1>1, <1>2, <1>3, <1>5, NextFilterInv, PTL DEF FilterSpec, FilteredInOrder
=============================================================================
