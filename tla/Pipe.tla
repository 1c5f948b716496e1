-------------------------------- MODULE Pipe --------------------------------
(***************************************************************************)
(* xio::Pipe (lib/Pipe.cpp): objects that wrap a kernel pipe and keep in   *)
(* size_ their own count of the bytes in it.  Bytes are not told apart, so *)
(* the kernel's side of a pipe is the number of bytes it holds.            *)
(*                                                                         *)
(* One thread drives all pipes.  A call whose system call returns 0 or -1  *)
(* (EAGAIN, EOF, EINVAL, EBADF) changes nothing; it is a stuttering step.  *)
(* clear() is the one method that loops on the kernel: it is modelled one  *)
(* ::read() at a time, and no other call runs before it returns.           *)
(***************************************************************************)
EXTENDS Kernel

CONSTANTS
    Pipes,        \* the Pipe objects
    CLEAR_CHUNK,  \* sizeof(buf) in clear(); 4096 in the code
    MaxSize,      \* bound: a write that would push size_ past it is not tried
    NoPipe        \* no clear() is running

ASSUME PipeAssumption ==
    /\ CLEAR_CHUNK \in Nat \ {0} /\ MaxSize \in Nat
    /\ NoPipe \notin Pipes

VARIABLES
    open,      \* pipe2() succeeded in the constructor
    kernel,    \* kernel[p]: bytes the kernel holds for p
    size,      \* size[p]: size_
    clearing,  \* the pipe whose clear() is running, or NoPipe
    uncounted  \* history: bytes taken out of the kernel pipe but not off size_

pipeVars == <<open, kernel, size, clearing, uncounted>>

PipeTypeOK ==
    /\ open \in [Pipes -> BOOLEAN]
    /\ kernel \in [Pipes -> 0..PIPE_CAPACITY]
    /\ size \in [Pipes -> Nat]
    /\ clearing \in Pipes \cup {NoPipe}
    /\ uncounted \in [Pipes -> Nat]

(* Pipe::Pipe(): pipe2() may fail, and the object then stays unopened. *)
PipeInit ==
    /\ open \in [Pipes -> BOOLEAN]
    /\ kernel = [p \in Pipes |-> 0]
    /\ size = [p \in Pipes |-> 0]
    /\ clearing = NoPipe
    /\ uncounted = [p \in Pipes |-> 0]
-----------------------------------------------------------------------------
(* A client call on an open pipe, made while no clear() is running. *)
Idle(p) == open[p] /\ clearing = NoPipe

(* The kernel accepts n >= 1 bytes into p, as far as there is room. *)
KernelPut(p, n) ==
    /\ kernel[p] + n <= PIPE_CAPACITY
    /\ size[p] + n <= MaxSize
    /\ kernel' = [kernel EXCEPT ![p] = @ + n]

(* The kernel hands out n >= 1 of the bytes it holds for p. *)
KernelGet(p, n) ==
    /\ n <= kernel[p]
    /\ kernel' = [kernel EXCEPT ![p] = @ - n]

(* Pipe::write(const char*, size_t) *)
WriteBuf(p, n) ==
    /\ Idle(p) /\ KernelPut(p, n)
    /\ size' = [size EXCEPT ![p] = @ + n]
    /\ UNCHANGED <<open, clearing, uncounted>>

(* Pipe::write(Socket*, size_t, MOVE), and Socket::read(Pipe), which is a  *)
(* call of it.  With any other mode it fails with EINVAL.                  *)
WriteSocket(p, n) ==
    /\ Idle(p) /\ KernelPut(p, n)
    /\ size' = [size EXCEPT ![p] = @ + n]
    /\ UNCHANGED <<open, clearing, uncounted>>

(* Pipe::write(int fd, size_t) *)
WriteFd(p, n) ==
    /\ Idle(p) /\ KernelPut(p, n)
    /\ size' = [size EXCEPT ![p] = @ + n]
    /\ UNCHANGED <<open, clearing, uncounted>>

(* Mutant: the source keeps its size_ although its bytes have moved. *)
MoveKeepsSource(p, q, n) ==
    /\ Idle(p) /\ open[q] /\ p # q
    /\ n <= kernel[q] /\ n <= size[q]
    /\ kernel[p] + n <= PIPE_CAPACITY /\ size[p] + n <= MaxSize
    /\ kernel' = [kernel EXCEPT ![p] = @ + n, ![q] = @ - n]
    /\ size' = [size EXCEPT ![p] = @ + n]
    /\ UNCHANGED <<open, clearing, uncounted>>

(* Pipe::write(Pipe q, size_t, MOVE): splices up to q->size_ bytes, not   *)
(* up to the size argument.                                                *)
WritePipeMove(p, q, n) ==
    /\ Idle(p) /\ open[q] /\ p # q
    /\ n <= kernel[q] /\ n <= size[q]
    /\ kernel[p] + n <= PIPE_CAPACITY /\ size[p] + n <= MaxSize
    /\ kernel' = [kernel EXCEPT ![p] = @ + n, ![q] = @ - n]
    /\ size' = [size EXCEPT ![p] = @ + n, ![q] = @ - n]
    /\ UNCHANGED <<open, clearing, uncounted>>

(* Pipe::write(Pipe q, size_t, COPY): tee() duplicates, q keeps its bytes. *)
WritePipeCopy(p, q, n) ==
    /\ Idle(p) /\ open[q] /\ p # q
    /\ n <= kernel[q] /\ KernelPut(p, n)
    /\ size' = [size EXCEPT ![p] = @ + n]
    /\ UNCHANGED <<open, clearing, uncounted>>

(* Pipe::read(Buffer&, size_t): size_ is not touched. *)
ReadToBuffer(p, n) ==
    /\ Idle(p) /\ KernelGet(p, n)
    /\ uncounted' = [uncounted EXCEPT ![p] = @ + n]
    /\ UNCHANGED <<open, size, clearing>>

(* Pipe::read(char*, size_t) *)
ReadBuf(p, n) ==
    /\ Idle(p) /\ KernelGet(p, n)
    /\ size' = [size EXCEPT ![p] = @ - n]
    /\ UNCHANGED <<open, clearing, uncounted>>

(* Pipe::read(): one byte, only tried when size_ is not 0. *)
ReadOne(p) ==
    /\ size[p] # 0
    /\ ReadBuf(p, 1)

(* Pipe::read(int fd, size_t) *)
ReadFd(p, n) ==
    /\ Idle(p) /\ KernelGet(p, n)
    /\ size' = [size EXCEPT ![p] = @ - n]
    /\ UNCHANGED <<open, clearing, uncounted>>

(* Socket::write(Pipe*, size_t, Mode): splices out of the pipe; size_ stays. *)
SocketWrite(p, n) ==
    /\ Idle(p) /\ KernelGet(p, n)
    /\ uncounted' = [uncounted EXCEPT ![p] = @ + n]
    /\ UNCHANGED <<open, size, clearing>>
-----------------------------------------------------------------------------
(* Pipe::clear() entered.  It returns at once when size_ is 0. *)
ClearEnter(p) ==
    /\ clearing = NoPipe
    /\ size[p] > 0
    /\ clearing' = p
    /\ UNCHANGED <<open, kernel, size, uncounted>>

(* Mutant: clear() makes one ::read() and returns. *)
ClearOnce(p) ==
    /\ clearing = p
    /\ LET rv == Min2(kernel[p], Min2(size[p], CLEAR_CHUNK)) IN
         /\ kernel' = [kernel EXCEPT ![p] = @ - rv]
         /\ size' = [size EXCEPT ![p] = @ - rv]
         /\ clearing' = NoPipe
    /\ UNCHANGED <<open, uncounted>>

(* Mutant: while (size_ >= 0), which a size_t always is. *)
ClearForever(p) ==
    /\ clearing = p
    /\ LET rv == Min2(kernel[p], Min2(size[p], CLEAR_CHUNK)) IN
         /\ kernel' = [kernel EXCEPT ![p] = @ - rv]
         /\ size' = [size EXCEPT ![p] = @ - rv]
    /\ UNCHANGED <<open, clearing, uncounted>>

(* One iteration of the loop of clear(): rv is what ::read() returns, 0    *)
(* here standing for an empty pipe (EAGAIN, or a read that blocks); the    *)
(* loop ends when size_ has come down to 0.                                *)
ClearStep(p) ==
    /\ clearing = p
    /\ LET rv == Min2(kernel[p], Min2(size[p], CLEAR_CHUNK)) IN
         /\ kernel' = [kernel EXCEPT ![p] = @ - rv]
         /\ size' = [size EXCEPT ![p] = @ - rv]
         /\ clearing' = IF size[p] - rv = 0 THEN NoPipe ELSE p
    /\ UNCHANGED <<open, uncounted>>

(* Pipe::~Pipe(): both descriptors are closed, and the bytes are gone. *)
DestroyPipe(p) ==
    /\ open[p] /\ clearing # p
    /\ open' = [open EXCEPT ![p] = FALSE]
    /\ kernel' = [kernel EXCEPT ![p] = 0] /\ size' = [size EXCEPT ![p] = 0]
    /\ uncounted' = [uncounted EXCEPT ![p] = 0]
    /\ UNCHANGED clearing

PipeNext ==
    \E p \in Pipes :
        \/ \E n \in 1..PIPE_CAPACITY :
              \/ WriteBuf(p, n) \/ WriteSocket(p, n) \/ WriteFd(p, n)
              \/ ReadToBuffer(p, n) \/ ReadBuf(p, n) \/ ReadFd(p, n)
              \/ SocketWrite(p, n)
              \/ \E q \in Pipes : WritePipeMove(p, q, n) \/ WritePipeCopy(p, q, n)
        \/ ReadOne(p)
        \/ ClearEnter(p)
        \/ ClearStep(p)
        \/ DestroyPipe(p)

PipeSpec == PipeInit /\ [][PipeNext]_pipeVars

(* A thread inside clear() keeps running; nothing obliges a client to call. *)
PipeFairSpec == PipeSpec /\ \A p \in Pipes : WF_pipeVars(ClearStep(p))
-----------------------------------------------------------------------------
(* size_ is off by exactly what read(Buffer&) and Socket::write(Pipe) took *)
(* out, however the methods are mixed, over moves to other pipes too.  So  *)
(* it never falls below what the kernel holds: isEmpty() hides no bytes,   *)
(* and size_ -= rv never wraps.                                            *)
OffByUncounted == \A p \in Pipes : size[p] = kernel[p] + uncounted[p]

(* When clear() returns, its pipe is empty in the kernel and by its own    *)
(* count, whatever was called before.                                      *)
ClearEmpties ==
    [][\A p \in Pipes : clearing = p /\ clearing' # p
          => kernel'[p] = 0 /\ size'[p] = 0]_pipeVars

(* clear() of a pipe whose every read was counted returns. *)
ClearReturns ==
    \A p \in Pipes : clearing = p /\ uncounted[p] = 0 ~> clearing = NoPipe

(* Pipe.h:26: size_ is the "number of bytes available in pipe". *)
SizeIsExact == \A p \in Pipes : size[p] = kernel[p]
=============================================================================
