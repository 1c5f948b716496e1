# A TLA+ model of libxio

libxio is a C++11 I/O library: byte buffers, streams over memory, pipes and
sockets, and listening sockets, all driven by one libev loop per thread. This
directory holds TLA+ modules for the parts of it that have state worth checking,
TLC configurations for small instances, and TLAPS proofs for any instance.
`PROJECT.json` is the index: components, runs, mutants, the source lines of every
definition, findings, hazards and theorems.

To check a run: `tlc -config X.cfg M`, with the pairs listed in `PROJECT.json`.
To check a proof: `tlapm SocketProofs.tla`, and the same for the other modules
whose names end in Proofs, ServerInvariants and ServerSteps.

## The parts of the system

| Part | Source | Module |
| --- | --- | --- |
| Pipe | lib/Pipe.cpp | Kernel, Pipe |
| Buffer, its storage | lib/Buffer.cpp, include/xio/Buffer.h | BufferGrowth, Buffer |
| BufferRef, BufferSlice, text algorithms | include/xio/Buffer.h | BufferView |
| FixedBuffer | include/xio/Buffer.h | BufferView |
| read(Buffer&) of Socket and Pipe | lib/Socket.cpp, lib/Pipe.cpp | BufferedRead |
| Stream (the promise) | include/xio/Stream.h | ByteQueue |
| BufferStream | lib/BufferStream.cpp | StreamChunks, BufferStream |
| ChunkedStream | lib/ChunkedStream.cpp | StreamChunks, ChunkedStream |
| Socket | lib/Socket.cpp | Socket |
| ServerSocket, InetServer, UnixServer, SocketDriver, sd-daemon | lib/\*Server\*.cpp, lib/SocketDriver.cpp, support/sd-daemon | ServerTable, ServerOpen, ServerSocket |
| Filter, FilterStream | lib/FilterStream.cpp | FilterStream |
| File, Inotify | lib/File.cpp | File |
| FileMgr | lib/FileMgr.cpp, include/xio/FileMgr.h | FileMgr |
| FileStream | lib/FileStream.cpp | two calls in Relay; the rest returns -1 |
| echo server | examples/echo-server.cpp | EchoServer |
| splicing proxy, dump, copy | examples/network-splicing.cpp, filter.cpp | Relay |
| StreamVisitor | | dispatch, no state |
| DateTime, TimeSpan, IPAddress, SocketSpec | | values |

How they interact: a Socket or Pipe reads into a Buffer (BufferedRead, on top of
the growth rule of BufferGrowth); a ChunkedStream is a deque of BufferStreams and
Pipes (StreamChunks gives both as values); a Pipe is drained by its own methods and
by Socket::write(Pipe) (an action of Pipe); a ServerSocket makes descriptors that
Sockets own (ServerSocket keeps the table of both). Three modules compose components:
EchoServer puts a Client on a Socket and a BufferStream, Relay puts a loop around a
Pipe, and FilterStream reads out of a BufferStream. Each extends the module it is
built on, and a behaviour of it is either the composition or, with `program = "any"`
or `user = "any"` (or `filters = -1`), any client of the component, so that one run covers both.

## The modules

A method that cannot be interrupted is one action. A loop that waits on the kernel
or works through chunks is one action per iteration, with the loop's locals as
state. A system call that fails without changing anything is a stuttering step,
except where the code does something on failure. Names follow the source.

Several properties only hold of clients that keep away from some call. The models
contain those calls all the same: a variable that is chosen in Init and never changes
(`client`, `habits`, `app`, `program`, `filters`, `user`) says what kind of client it is, or a history variable
(`uncounted`, `blank`, `missed`) says that the call has happened, and the property names
the condition. One run then covers all kinds of clients.

**Kernel, Pipe.** Kernel has the capacity of a pipe, which Pipe and StreamChunks share.
`kernel[p]` is what the kernel pipe holds, `size[p]` is `size_`. One
action per method; `ClearEnter` and `ClearStep` are the loop of `clear()`.
`SocketWrite` is `Socket::write(Pipe)`, which empties a pipe without telling it;
`uncounted[p]` adds up what it and `read(Buffer&)` took.

**Relay.** The loops of the examples that pass bytes on: `ReadSource` and `WriteSink`
are the two calls of an iteration, `ReadEnds` the end of the loop. All three loops
ignore what the write returns; `hindered` records whether the sink took less than it
was given.

**BufferGrowth, Buffer.** `GrownTo` is the rounding in `setCapacity`. In Buffer an
object has `data`, `size`, `capacity`; `heap` gives the size of every live block.
Each method is the set of its outcomes, since realloc may fail, stay or move.
`Freed` and `Realloc`, which all methods and destructors go through, set `fault` when
the block is not live. `Releases` says whether clients set the capacity to zero.

**BufferedRead.** `pc` is the place in the loop; `size`, `capacity` are those of the
result Buffer. The C++ factor 1.5 is `(size * 3) \div 2`.

**ByteQueue, StreamChunks, BufferStream, ChunkedStream.** Bytes are numbered as they
are accepted. ByteQueue says that they come out once and in order. StreamChunks
gives each operation of a BufferStream or Pipe on a chunk value; the other two
modules give the methods, and refine ByteQueue for clients that are `careful` (the
refinement mapping shows an untouched queue for the others). A careful client of a
BufferStream makes raw reads (into a Pipe or descriptor) only of a stream nobody has
read from; of a ChunkedStream, it copies out of one chunk at a time.

**FilterStream.** Both buffers and both positions, and a chain of filters, each of
which notes on every byte that it went through it. `Chain` is the loop of `process()`
with its swap of `result` and `tmp`. Positions that a constructor does not initialize
are 0 or beyond any buffer; a read from there (`FilterReadWild`) ends what is said.
`storage` is that of `inputBuffer_`: a read before the source has a byte makes the
source's `read(Buffer&)` call reserve(0) on it, which frees it and keeps its address, and
the next read is wild as well.

**BufferView.** A view is an offset and a length in `mem`. The algorithms are
functions of the position they have reached, and are compared with definitions by
quantifiers. `size_t` is modulo `WORD`, an int reaches to `INT_MAX`, and a toInt() that
overflows may yield any int (so `toInt` is a set of results); hex() is that of uint8_t.
Three kinds of clients: "text" cuts references, "numbers" appends numbers and reads slices of them, "fixed" uses `mem` as
a FixedBuffer of MaxLen bytes, where an append that does not fit does nothing and a
printf that does not fit stores a NUL in the last byte of the storage.

**Socket.** `state`, `fd`, `conn` (the kernel's view), `watching` (which of io_ and
timer_ are active), `pending` (what the loop has collected and not dispatched),
`handler`. `ConnectComplete` closes the socket when the connection failed, and when
getsockopt() does, as it does on a descriptor that was closed. `armed` and `deal` are
history. The handler is called as the last thing of a dispatch, so what it does is the client's next call. `habits` is any subset of:
calls while events are pending, close() while watching, watch() before on(), open() on
an open socket.

**EchoServer.** The Client of the example: its handler is a few steps (`HandleRead`,
`HandleWrite`, `KernelTakes`, `WriteReturns`), since its write(2) blocks: accepted
sockets are blocking, whatever the server was opened with. Meanwhile the peer sends,
reads, ends its side or goes, and SIGINT cuts a write short. `Command` is what the
two strncmp() calls can make of a chunk of n bytes. Bytes are numbered, and refine
ByteQueue.

**ServerTable, ServerOpen, ServerSocket.** ServerTable has the state and the two ends of
XZERO_LISTEN_FDS, ServerOpen is `open()`, ServerSocket the other methods and the loop.
`srv` holds the objects, `table` the process' descriptors, `files`
the socket files, `env` the variable XZERO_LISTEN_FDS, `clients` the accepted
descriptors, `pending` and `blocked` the loop. `DoOpen` is `open()` with its three
sources: inherited (`Adopt`), systemd (`Adopt`, `SdMiss`), new (`Manual`). `Exec`
replaces the program image. `app` is the application: its habits, the sockets systemd
made for it, and the flags it opens servers with. `drivers` are the SocketDrivers that
exist: each server owns one, which setSocketDriver() and the destructor delete. Of the
fields of a server `asked` and `cloned` are history: the flags that the application asked
for, of the server or of the one it was cloned from, and whether it is a clone. clone()
passes `flags_` to open(), from which O_NONBLOCK is gone, so that `LoopNeverHangs` exempts
clones (`Promised`).

**File, FileMgr.** `disk` is what stat() says of each path, changed by other processes:
written in place, replaced, renamed, removed, with inode numbers used again. `watches`
is the kernel's side of the one inotify instance, where an inode has one watch, so that
Files share descriptors. `cache` is `cache_`; `Get` is a request that goes through
`query()`, and `Send` opens and reads the file later, when it may have changed. `copy` is
what the client keeps and revalidates by entity tag. `answer` is what the last step's
request was told, an answer out of the cache included, and is silent after every other
step. No CMake target builds FileMgr.cpp, and the x0 headers it includes are not in the
repository: the module follows its text. FileMgr.cpp undefines
HAVE_SYS_INOTIFY_H before it is used, so the branches under it are not in the model:
entries end by their time to live alone. A program uses the Files, the cache, or the
cache with one name of many (`user`).

External parts, modelled from their use: kernel pipes, realloc, connect, the libev
loop, peers, signals, exec, other processes on the disk, and the web server around the
file cache.

## The runs

Passing runs, with the number of distinct states:

| Run | What it shows | States |
| --- | --- | --- |
| pipe | size_ is ahead of the kernel by exactly what was not counted; a relay passes on all it read; clear() empties, and returns if all was counted | 2914 |
| buffer | three buffers: no heap misuse, no leak, one owner, size fits, true means room | 4930 |
| buffered_read | no request for zero bytes, honest result, the call returns | 25645 |
| buffer_stream | size() is what is pending; a queue of bytes; through filters, every byte passes all of them in order | 132323 |
| chunked_stream | the same over chunks of both kinds; read loops end; a reader that pops exhausted chunks gets everything | 77421 |
| socket | no call unless armed; an event settles the timeout, which is due when reported; Operational means connected; no empty handler; who waits is called back. The echo server sends back what it stored, once, in order and in the end all of it, and times out a silent peer | 72170 |
| servers | descriptors and drivers owned once and none lost, over failures, clones and an exec; a UNIX listener has its file while it listens and ends with it, unless by the destructor; no accept hangs the loop, on passed-in sockets either; a waiting connection is accepted | 400688 |
| views | find, rfind, begins, ends, chomp, trim, split, references, toInt and hex against reference definitions; a FixedBuffer keeps what it has | 59272 |
| file_cache | watches are held by a File; answers and confirmed copies are no older than the time to live; extensions get their type | 1050082 |

Runs that TLC refutes. Each states what a comment or a test says, and `PROJECT.json`
quotes it:

| Run | Disagreement |
| --- | --- |
| pipe_size | reads into a Buffer and Socket::write(Pipe) are not counted |
| buffer_release | setCapacity(0) keeps the freed pointer, which the next growth reallocates |
| chunked_stream_read | a read over two chunks overwrites its output |

Other places where the models follow the code and a comment or a test says something
else; the hazards of `PROJECT.json` give their lines:

- clear() of a Pipe spins once size_ is ahead of the kernel;
- setCapacity(0) leaves size_, and a failed shrink has already cut it; a FilterStream that
  is read before its source has a byte runs into it;
- read(Pipe) and read(int) of a BufferStream start at the beginning of its storage;
- empty() of a ChunkedStream looks at the front chunk; MOVE never falls back to a copy;
- an expiry that is pending reaches the handler of a later on();
- a listener that was passed in has no address, so a second exec loses it;
- flags given to open() reach neither the accepted sockets nor, for O_CLOEXEC, a UNIX
  listener; a clone gets neither O_NONBLOCK nor O_CLOEXEC;
- the destructor of a UnixServer leaves the socket file, and close() of one that is not
  open removes the file of whoever has the path by then;
- open() of an address systemd has no socket for closes the descriptor behind
  systemd's, whoever owns it;
- find() reports matches that run out of the view; trim() of three blanks wraps its
  count; shl() moves a slice and does not enlarge it; toInt() of INT_MIN overflows;
- read(Buffer&) of a FilterStream advances no position, so bytes come again, and a chain
  of three filters has the first one's output in front of the third one's;
- a short write in the echo server leaves the client without a timeout until the rest is
  written, and a chunk of two bytes stops the server whatever they are;
- updateCache() of a File loses the watch it has when the path has become another inode;
- FileMgr does not invalidate in realtime, as its header says it does (FileMgr.h:33); what
  is checked is the time to live that it has instead;
- a printf into a full FixedBuffer overwrites its last byte.

### Bounds

Every bound is a CONSTANT with "bound" in its comment. They are chosen so that the
cases meet: a pipe capacity above CLEAR_CHUNK, so that clear() takes several rounds;
CHUNK_SIZE 2 to 4 with requests on both sides of a multiple; HEAP_LIMIT close
to what clients ask for, so that allocations fail; three chunks, so that there is a front, a middle and an end; a
descriptor table that two listeners and two clients overfill; needles with
overlapping prefixes in buffers of four bytes; an int of eight bits, so that numbers of
four characters reach both of its ends; a send buffer smaller than what the echo
server may have to write; three filters; two inodes and two paths, so that files are
swapped and inode numbers return; a clock that runs past the time to live. MIN_ROOM, FIRST_RESERVE and
CLEAR_CHUNK are scaled down with their order kept. Deadlock is not checked where
clients may simply stop calling. Symmetry is used in file_cache, which
has no liveness property.

### Fairness

Weak fairness of a loop's own step: the thread inside clear() or a read loop is
scheduled. In Socket: the timer expires if it stays armed, and the loop dispatches
what it has collected, as libev does. In ServerSocket: the loop runs, and the
application goes on closing clients it accepted (otherwise a full descriptor table is a
legitimate end). Clients that were left over by an exec are not closed by anyone, and
`Served` says nothing of a process that has some. In EchoServer: the server and the
kernel below it go on, and the peer reads what it gets; without that a blocking write
never ends. In DrainSpec the client goes on reading. Nothing obliges a client
to make any other call.

## The proofs

All for every value of the constants that satisfies the named assumptions, each of which
says no more than what the code's own constants satisfy.

- **BufferGrowth, BufferProofs.** `PaddingBounds`: growth reaches the request and stays
  below one CHUNK_SIZE more. `BufInv`: no fault, live objects own their blocks at
  their capacities, no two share one, every block has an owner. Ownership is needed
  to see that a free is legal, uniqueness that it harms no other object. One lemma
  per method says what its outcomes keep. Theorems `HeapDiscipline`, `Ownership`,
  `GoAhead`, for clients with `~Releases`; with it they are false (buffer_release).
  For the read loop, `ReadInv` ties size, nread and left to the call's start, and
  says that before a read MIN_ROOM bytes are free. That needs
  FIRST_RESERVE >= 3 * MIN_ROOM, which the code's 4096 and 256 satisfy. Theorems
  `UsefulRequests`, `HonestReturn`, `ReadTypes`.
- **StreamProofs.** For Pipe, `PipeInv`: types, size_ equal to the kernel's count plus what was not
  counted, and a running clear() has size_ > 0. The last part is what makes "clear()
  returns" and "size_ is 0" the same step. Theorems `PipeTypes`, `ErrorOfSize`,
  `ClearLeavesNothing`.
  For the loops of the examples, `RelayInv` keeps the books: what was read is with the
  sink or in the pipe, size_ is no less than the pipe holds, and after a write that was
  not cut short the pipe is empty. The last part is why a loop that ends on a full pipe
  has a short write behind it. Theorems `NothingLost`, and `RelayIsClient`: a relay makes
  only steps of a client of its pipes.
  For BufferStream, `NextEffect`: every call stores the client's next
  bytes behind the others or takes bytes out. `StreamInv`: what is unread is what was
  accepted and not taken, by number and, for a careful client, in content. Theorems
  `Pending` and `InOrder`, the refinement of ByteQueue, step by step. `ParentIsStream`: a
  FilterStream is one of the clients, so both hold below filters too. `ProcessedIs` says
  what one or two filters with their swapped buffers make of a chunk; with `FilterInv`
  (inputBuffer_ holds all that was pulled, and starts filtered in outputBuffer_) it gives
  `ReadsFiltered`.
- **SocketProofs.** For Socket, `WatchInv` ties the watchers, their pending events,
  `armed` and `deal` together, and is inductive as it stands. `DueInv`, `HandlerInv` and
  `ConnInv` strengthen it for the properties that exempt clients of some habit. Theorems
  `TypeCorrect`, `Quiet`, `TimeoutDue`, `HandlerSet`, `ConnectedWhenOperational`.
  For the echo server, `EchoInv`: what came back is 1, 2, ..., and what comes next is in
  writeBuffer_, behind the bytes that the running write(2) has passed on and shift() has not
  taken off yet. `EchoEffect` sorts the steps by what they do to the bytes. Theorems
  `EchoIsClient` (whatever is proved of a Socket holds in it), `EchoesAll`, the refinement of
  ByteQueue, and `SilentPeers`, for every size of reads, of the kernel's buffer and of the
  heap, and whether or not writeBuffer_ takes what was read, which the code does not look at.
- **FileProofs.** `WatchInv`: a File that does not exist holds no descriptor, and no watch
  is without a holder (`WatchesHeld`). `FreshInv`: an entry of the cache is as the file
  is, or the file was so when the entry was made or later; with the time to live that
  gives `FreshAnswers`, of every answer. `DiskInv`: versions of a file end in the order in which they
  began. `TagInv`: a copy carries the entity tag of a state of the file no later than its
  contents; so a tag that matches confirms contents no older than the entry
  (`ConfirmedIsRecent`). `MimetypeIs`: what the backward scan of get_mimetype() finds,
  for names of any length; with `MimeInv`, `TypesOfExtensions`.
- **ServerEffects, ServerInvariants, ServerOpenProofs, ServerSteps, ServerProofs.** For
  any number of servers, addresses, descriptors, connections and execs. The argument has
  two halves. ServerOpenProofs and ServerSteps show that each action
  keeps `Shape` (the types, and what holds of every application) and has one of six
  effects on who holds what, which ServerEffects defines: a server opens an address
  (`Opening`), lets go of its descriptor (`Closing`), a descriptor becomes a Socket's
  (`Joining`) or is freed (`Leaving`), nothing changes hands (`Steady`), or the image is
  replaced. The long part is `open()`, whose outcomes (`OpenEnds`) come from what
  getSocketInet() and getSocketUnix() find (`InheritedIsListed`), what systemd passed, or
  bind(). ServerInvariants and ServerProofs then show what the effects keep:
  - `OwnerInv`: listeners and clients are held once, and what is still to be handed out,
    by systemd or by the image before, is held by nobody. Without the second part an
    adopted descriptor could be one that a server has. Theorems `Owners` and `NeverHangs`;
    `DriverInv` gives the part about drivers.
  - `FileInv`: a path that a listener is at has its file, and the server that noted the
    path holds that listener; so who removes the file closes the listener. Theorem
    `FilesStay`.
  - `OrphanInv`: a listener is held, or open() of its address finds it; before the first
    exec the server that holds it has noted its address, so that the entry that is passed
    on names it. Theorem `NothingOrphaned`. In a process that makes its listeners itself it
    also says that the path that close() removes is that of the listener it closes, and
    with `OwnerInv` that nobody else's close() ends it: theorem `FilesGo`.

  Cardinality and least elements enter through `Counting`, which `CountingHolds` proves
  from the library's theorems.

Induction over data is avoided in two ways: an invariant says what is so far true of a
loop's result; and what a recursive function computes is shown by giving it in closed
form, and considering the least argument at which the two would differ (`MimetypeIs`).

Only model-checked: liveness (ClearReturns, CallReturns, ReadReturns, Drains,
CallsBack, Answered, Served), which is out of the prover's reach; ChunkedStream, whose
size is a fold over the chunks; and BufferView, whose
algorithms are compared with their reference definitions on bounded inputs.

## Not modelled

- Byte contents of Buffers outside BufferView and the streams, and so a BufferRef into
  a buffer that realloc moves; hashing, toDouble and case-insensitive comparison.
- HAVE_ACCEPT4 and WITH_MULTI_ACCEPT code, which no build configuration defines, and
  with it setMultiAcceptCount(); the inotify branch of FileMgr.cpp.
- TCP options and the backlog, whose only effect is inside the kernel.
- Stubs: the Socket methods of the streams and most methods of FilterStream and
  FileStream return a constant; Inotify::callback() is empty.
- loadMimetypes(): the parsing of a file into the map that get_mimetype() looks into.
- DateTime, TimeSpan, IPAddress, SocketSpec: values, made by strftime, inet_pton and
  floating point arithmetic. IPv6 and addresses other than the wildcard cannot be bound
  (bind() leaves sin_family zero), so addresses of InetServers are ports.
- The examples tcp-client and xiocp, which call what the other modules model in a
  straight line; the rest of sd-daemon, which the library does not call.
