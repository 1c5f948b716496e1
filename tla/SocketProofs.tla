---------------------------- MODULE SocketProofs ----------------------------
(***************************************************************************)
(* What a Socket's handler can rely on, proved for any number of calls by  *)
(* clients of any habits.  Then the echo server of the examples, which is  *)
(* one of these clients: what its writeBuffer_ takes is sent back, and a   *)
(* silent peer is timed, for any number and any sizes of reads and writes. *)
(***************************************************************************)
EXTENDS EchoServer, TLAPS

(* What the watchers rest on: only an active io_ has an event pending; a   *)
(* socket that is not armed watches nothing; and no timer runs, or is      *)
(* about to be reported, once its deal is settled.                         *)
WatchInv ==
    /\ TypeOK
    /\ "io" \in pending => "io" \in watching
    /\ armed = "no" => watching = {} /\ pending = {}
    /\ deal = "none" => "timer" \notin watching \cup pending

(* A new socket watches nothing. *)
LEMMA InitWatchInv == Init => WatchInv
    BY SocketAssumption DEF Init, WatchInv, TypeOK, Events

(* Every call, event and dispatch keeps the watchers consistent. *)
LEMMA NextWatchInv == WatchInv /\ [Next]_vars => WatchInv'
<1> SUFFICES ASSUME WatchInv, [Next]_vars PROVE WatchInv'
    OBVIOUS
<1> USE SocketAssumption DEF WatchInv, TypeOK, Events
<1>1. CASE Open \/ OpenRefused \/ OpenUnflagged
  <2>1. CASE Open
      BY <2>1 DEF Open, CallOpen, Call
  <2>2. CASE OpenRefused
      BY <2>2 DEF OpenRefused, CallOpen, Call
  <2>3. CASE OpenUnflagged
      BY <2>3 DEF OpenUnflagged, CallOpen, Call
  <2> QED
      BY <1>1, <2>1, <2>2, <2>3
<1>2. CASE Close
    BY <1>2 DEF Close, Call, Shut
<1>3. ASSUME NEW t \in {0, 1}, On(t) PROVE WatchInv'
    BY <1>3 DEF On, Call
<1>4. ASSUME NEW t \in {0, 1}, Watch(t) PROVE WatchInv'
    BY <1>4 DEF Watch, Call
<1>5. CASE Restart
    BY <1>5 DEF Restart, Call
<1>6. CASE Stop \/ Destroy
  <2>1. CASE Stop
      BY <2>1 DEF Stop, Call
  <2>2. CASE Destroy
      BY <2>2 DEF Destroy, Call
  <2> QED
      BY <1>6, <2>1, <2>2
<1>7. ASSUME NEW outcome \in {"up", "failed"}, Resolve(outcome) PROVE WatchInv'
    BY <1>7 DEF Resolve
<1>8. CASE IoReady \/ TimerExpires
  <2>1. CASE IoReady
      BY <2>1 DEF IoReady
  <2>2. CASE TimerExpires
      BY <2>2 DEF TimerExpires
  <2> QED
      BY <1>8, <2>1, <2>2
<1>9. CASE Io
    BY <1>9 DEF Io, CallBack
<1>10. CASE ConnectComplete
    BY <1>10 DEF ConnectComplete, CallBack, Shut
<1>11. CASE Timeout
    BY <1>11 DEF Timeout, CallBack
<1>12. CASE UNCHANGED vars
    BY <1>12 DEF vars
<1> QED
    BY <1>1, <1>2, <1>3, <1>4, <1>5, <1>6, <1>7, <1>8, <1>9, <1>10, <1>11, <1>12
    DEF Next, Dispatch

(* Every variable of the model keeps its type. *)
THEOREM TypeCorrect == Spec => []TypeOK
<1>1. WatchInv => TypeOK
    BY DEF WatchInv
<1> QED
    BY <1>1, InitWatchInv, NextWatchInv, PTL DEF Spec

(* io(), onConnectComplete() and timeout() only run on an armed socket. *)
THEOREM Quiet == Spec => QuietUnlessArmed
<1>1. WatchInv /\ [Next]_vars => [Dispatch => armed = "yes"]_vars
    BY DEF WatchInv, TypeOK, Dispatch, Io, ConnectComplete, Timeout
<1> QED
    BY <1>1, InitWatchInv, NextWatchInv, PTL DEF Spec, QuietUnlessArmed
-----------------------------------------------------------------------------
(* Without calls while events are pending, a timer event that is pending   *)
(* is that of the latest timeout asked for.                                *)
DueInv ==
    "whilePending" \notin habits /\ "timer" \in pending
        => deal = "expired" /\ "timer" \notin watching

(* Every step keeps DueInv: calls find nothing pending. *)
LEMMA NextDueInv ==
    ASSUME WatchInv, DueInv, [Next]_vars
    PROVE  DueInv'
<1> USE DEF DueInv, WatchInv, TypeOK, Events
<1>1. CASE IoReady \/ TimerExpires
    BY <1>1 DEF IoReady, TimerExpires
<1>2. CASE Dispatch
    BY <1>2 DEF Dispatch, Io, ConnectComplete, Timeout
<1>3. ASSUME NEW outcome \in {"up", "failed"}, Resolve(outcome) PROVE DueInv'
    BY <1>3 DEF Resolve
<1>4. CASE UNCHANGED vars
    BY <1>4 DEF vars
<1>5. ASSUME NEW t \in {0, 1}, On(t) \/ Watch(t) PROVE DueInv'
    BY <1>5 DEF On, Watch, Call
<1>6. CASE Open \/ OpenRefused \/ OpenUnflagged \/ Close
    BY <1>6 DEF Open, OpenRefused, OpenUnflagged, Close, CallOpen, Call
<1>7. CASE Restart \/ Stop \/ Destroy
    BY <1>7 DEF Restart, Stop, Destroy, Call
<1> QED
    BY <1>1, <1>2, <1>3, <1>4, <1>5, <1>6, <1>7 DEF Next

(* timeout() never runs once an event has settled its deal; and if client  *)
(* code only runs in the socket's own handler or outside the loop, it says *)
(* that the latest timeout has been reached.                               *)
THEOREM TimeoutDue == Spec => TimeoutIsDue
<1>1. Init => DueInv
    BY DEF Init, DueInv
<1>2. WatchInv /\ DueInv /\ [Next]_vars => DueInv'
    BY NextDueInv
<1>3. WatchInv /\ DueInv /\ [Next]_vars
      => [Timeout => deal # "none" /\ ("whilePending" \notin habits => deal = "expired")]_vars
    BY DEF WatchInv, DueInv, Timeout
<1> QED
    BY <1>1, <1>2, <1>3, InitWatchInv, NextWatchInv, PTL DEF Spec, TimeoutIsDue
-----------------------------------------------------------------------------
(* If the client does not watch before on(), whatever is watched has a handler. *)
HandlerInv ==
    "watchBare" \notin habits =>
        /\ crashed = "no"
        /\ watching # {} \/ pending # {} => handler = "set"

(* Every step keeps HandlerInv. *)
LEMMA NextHandlerInv ==
    ASSUME WatchInv, HandlerInv, [Next]_vars
    PROVE  HandlerInv'
<1> USE DEF HandlerInv, WatchInv, TypeOK, Events
<1>1. CASE Open \/ OpenRefused \/ OpenUnflagged \/ Close
    BY <1>1 DEF Open, OpenRefused, OpenUnflagged, Close, CallOpen, Call
<1>2. ASSUME NEW t \in {0, 1}, On(t) \/ Watch(t) PROVE HandlerInv'
    BY <1>2 DEF On, Watch, Call
<1>3. CASE Restart \/ Stop \/ Destroy
    BY <1>3 DEF Restart, Stop, Destroy, Call
<1>4. ASSUME NEW outcome \in {"up", "failed"}, Resolve(outcome) PROVE HandlerInv'
    BY <1>4 DEF Resolve
<1>5. CASE IoReady \/ TimerExpires
    BY <1>5 DEF IoReady, TimerExpires
<1>6. CASE Dispatch
    BY <1>6 DEF Dispatch, Io, ConnectComplete, Timeout
<1>7. CASE UNCHANGED vars
    BY <1>7 DEF vars
<1> QED
    BY <1>1, <1>2, <1>3, <1>4, <1>5, <1>6, <1>7 DEF Next

(* handler_ is never called empty, though timeout() and the Handshake case *)
(* of io() do not ask.                                                     *)
THEOREM HandlerSet == Spec => []NoCrash
<1>1. Init => HandlerInv
    BY DEF Init, HandlerInv
<1>2. WatchInv /\ HandlerInv /\ [Next]_vars => HandlerInv'
    BY NextHandlerInv
<1>3. WatchInv /\ HandlerInv => NoCrash
    BY DEF WatchInv, TypeOK, HandlerInv, NoCrash
<1> QED
    BY <1>1, <1>2, <1>3, InitWatchInv, NextWatchInv, PTL DEF Spec
-----------------------------------------------------------------------------
(* For clients that stop() before close() and open closed sockets only: a  *)
(* pending event is one of the descriptor there is, and of an attempt the  *)
(* kernel has finished.                                                    *)
ConnInv ==
    "closeWatched" \notin habits /\ "reopen" \notin habits =>
        /\ "io" \in pending => fd = "open" /\ conn # "pending"
        /\ state = "Connecting" => conn # "none"
        /\ state = "Operational" => conn = "up"

(* Every step keeps ConnInv. *)
LEMMA NextConnInv ==
    ASSUME WatchInv, ConnInv, [Next]_vars
    PROVE  ConnInv'
<1> USE DEF ConnInv, WatchInv, TypeOK, Events
<1>1. CASE Open \/ OpenRefused \/ OpenUnflagged
    BY <1>1 DEF Open, OpenRefused, OpenUnflagged, CallOpen, Call
<1>2. CASE Close
    BY <1>2 DEF Close, Shut, Call
<1>3. ASSUME NEW t \in {0, 1}, On(t) \/ Watch(t) PROVE ConnInv'
    BY <1>3 DEF On, Watch, Call
<1>4. CASE Restart \/ Stop \/ Destroy
    BY <1>4 DEF Restart, Stop, Destroy, Call
<1>5. ASSUME NEW outcome \in {"up", "failed"}, Resolve(outcome) PROVE ConnInv'
    BY <1>5 DEF Resolve
<1>6. CASE IoReady \/ TimerExpires
    BY <1>6 DEF IoReady, TimerExpires
<1>7. CASE Io \/ Timeout
    BY <1>7 DEF Io, Timeout
<1>8. CASE ConnectComplete
    BY <1>8 DEF ConnectComplete, Shut
<1>9. CASE UNCHANGED vars
    BY <1>9 DEF vars
<1> QED
    BY <1>1, <1>2, <1>3, <1>4, <1>5, <1>6, <1>7, <1>8, <1>9 DEF Next, Dispatch

(* onConnectComplete() makes a socket Operational only on behalf of the    *)
(* connection it has, and only when the kernel has established it.         *)
THEOREM ConnectedWhenOperational == Spec => []OperationalMeansConnected
<1>1. Init => ConnInv
    BY DEF Init, ConnInv
<1>2. WatchInv /\ ConnInv /\ [Next]_vars => ConnInv'
    BY NextConnInv
<1>3. ConnInv => OperationalMeansConnected
    BY DEF ConnInv, OperationalMeansConnected
<1> QED
    BY <1>1, <1>2, <1>3, InitWatchInv, NextWatchInv, PTL DEF Spec
-----------------------------------------------------------------------------
(* A step of the echo server is one that a client of its Socket, or the    *)
(* loop, may make.                                                         *)
LEMMA EchoNextIs == [EchoNext]_echoVars => [Next]_vars
<1> SUFFICES ASSUME [EchoNext]_echoVars PROVE [Next]_vars
    OBVIOUS
<1>1. CASE OfAny(Next)
    BY <1>1 DEF OfAny
<1>2. ASSUME NEW t \in {0, 1}, On(t) \/ Watch(t) PROVE Next
    BY <1>2 DEF Next
<1>3. ASSUME Destroy \/ IoReady \/ TimerExpires \/ Io \/ Timeout PROVE Next
    BY <1>3 DEF Next, Dispatch
<1>4. ASSUME NEW buffer, AfterWrite(buffer) PROVE [Next]_vars
    BY <1>2, <1>3, <1>4 DEF AfterWrite, DeleteThis, Gone, ReWatch
<1>5. CASE ServerStep
  <2>1. CASE Construct \/ Collect \/ Enter
      BY <1>2, <1>3, <2>1 DEF Construct, Collect, Enter
  <2>2. CASE HandleTimeout \/ HandleEof
      BY <1>3, <2>2 DEF HandleTimeout, HandleEof, DeleteThis, Gone
  <2>3. ASSUME NEW n \in 1..BUF_SIZE, HandleRead(n) PROVE Next
      BY <1>2, <2>3 DEF HandleRead, ReWatch
  <2>4. CASE HandleWrite \/ KernelTakes \/ Sig
      BY <2>4 DEF HandleWrite, KernelTakes, Sig
  <2>5. CASE WriteReturns \/ WriteFails
      BY <1>3, <1>4, <2>5 DEF WriteReturns, WriteFails, DeleteThis, Gone
  <2> QED
      BY <1>5, <2>1, <2>2, <2>3, <2>4, <2>5 DEF ServerStep
<1>6. CASE Expire \/ Interrupt
    BY <1>3, <1>4, <1>6 DEF Expire, Interrupt
<1>7. CASE (\E n \in 1..MaxSent : PeerSends(n)) \/ PeerReads \/ PeerEnds
    BY <1>7 DEF PeerSends, PeerReads, PeerEnds
<1>8. CASE UNCHANGED echoVars
    BY <1>8 DEF echoVars
<1> QED
    BY <1>1, <1>5, <1>6, <1>7, <1>8 DEF EchoNext

(* The echo server is a client of Socket: whatever is proved of the events *)
(* of a Socket holds in it.                                                *)
THEOREM EchoIsClient == EchoSpec => Spec
<1>1. EchoInit => Init
    BY DEF EchoInit
<1> QED
    BY <1>1, EchoNextIs, PTL DEF EchoSpec, Spec

(* Appending moves nothing. *)
LEMMA AppendingIs ==
    ASSUME NEW s \in Seq(Nat), NEW t \in Seq(Nat)
    PROVE  /\ s \o t \in Seq(Nat) /\ Len(s \o t) = Len(s) + Len(t)
           /\ \A i \in 1..Len(s) : (s \o t)[i] = s[i]
           /\ \A i \in 1..Len(t) : (s \o t)[Len(s) + i] = t[i]
    OBVIOUS

(* The bytes of data from off on are those after the number first. *)
Follows(data, off, first) ==
    /\ data \in Seq(Nat) /\ off \in 0..Len(data)
    /\ \A i \in 1..(Len(data) - off) : data[off + i] = first + i

Buffers == [kind : {"buffer"}, data : Seq(Nat), off : Nat, cap : Int]

(* A BufferStream whose unread bytes are those after the number first. *)
Holds(c, first) == c \in Buffers /\ Follows(c.data, c.off, first)

(* What came back is 1, 2, ... *)
Returned ==
    /\ echoed \in Seq(Nat) /\ \A i \in 1..Len(echoed) : echoed[i] = i
    /\ outbox \in Seq(Nat) /\ \A i \in 1..Len(outbox) : outbox[i] = Len(echoed) + i

(* What comes next is in writeBuffer_, behind the bytes that the running   *)
(* write(2) has passed on, until the Client is deleted.                    *)
EchoInv ==
    /\ stored \in Nat /\ written \in 0..Size(writeBuffer)
    /\ Returned /\ Len(echoed) + Len(outbox) <= stored
    /\ Holds(writeBuffer, stored - Size(writeBuffer))
    /\ phase \notin {"deleted", "killed"} =>
          Len(echoed) + Len(outbox) = stored - Size(writeBuffer) + written
    /\ phase # "writing" => written = 0

(* A new BufferStream is empty. *)
LEMMA NewBufferHolds ==
    ASSUME NEW first \in Int
    PROVE  Size(NewBuffer(0)) = 0 /\ Holds(NewBuffer(0), first)
<1>1. NewBuffer(0) = [kind |-> "buffer", data |-> <<>>, off |-> 0, cap |-> 0]
    BY DEF NewBuffer, Chunk, ReservedCap
<1>2. Follows(<<>>, 0, first)
    BY DEF Follows
<1> DEFINE b == NewBuffer(0)
<1>3. b.data = <<>> /\ b.off = 0 /\ b \in Buffers
  <2>1. <<>> \in Seq(Nat) /\ 0 \in Nat /\ 0 \in Int
      OBVIOUS
  <2>2. [kind |-> "buffer", data |-> <<>>, off |-> 0, cap |-> 0] \in Buffers
      BY Zenon, <2>1 DEF Buffers
  <2>3. b \in Buffers
      BY Zenon, <1>1, <2>2
  <2> QED
      BY <1>1, <2>3
<1> HIDE DEF b
<1>4. Follows(b.data, b.off, first) /\ Len(b.data) = 0
    BY <1>2, <1>3
<1>5. Size(b) = 0
    BY <1>3, <1>4 DEF Size
<1> QED
    BY <1>3, <1>4, <1>5 DEF Holds, b

(* Nothing has been read. *)
LEMMA InitEchoInv == EchoInit => EchoInv
    BY NewBufferHolds DEF EchoInit, EchoInv, Returned

(* shift() takes off the first n bytes. *)
LEMMA ShiftHolds ==
    ASSUME NEW c, NEW first \in Int, Holds(c, first), NEW n \in 0..Size(c)
    PROVE  Holds(Shift(c, n), first + n) /\ Size(Shift(c, n)) = Size(c) - n
<1> DEFINE data == c.data
           off == c.off
           d == Shift(c, n)
<1>0. c \in Buffers /\ Follows(data, off, first) /\ Size(c) = Len(data) - off
    BY DEF Holds, Size
<1>1. data \in Seq(Nat) /\ off \in 0..Len(data) /\ Len(data) \in Nat /\ n \in 0..(Len(data) - off)
    BY <1>0 DEF Follows
<1>2. CASE off + n < Len(data)
  <2>1. d = [c EXCEPT !.off = off + n]
      BY <1>2 DEF Shift
  <2>2. d.data = data /\ d.off = off + n /\ d \in Buffers
    <3>1. off + n \in Nat
        BY <1>1
    <3> HIDE DEF d
    <3> QED
        BY Zenon, <1>0, <2>1, <3>1 DEF Buffers
  <2> HIDE DEF data, off, d
  <2>3. Follows(data, off + n, first + n)
    <3>1. ASSUME NEW i \in 1..(Len(data) - (off + n))
          PROVE  data[(off + n) + i] = (first + n) + i
      <4>1. n + i \in 1..(Len(data) - off) /\ (off + n) + i = off + (n + i)
          BY <1>1
      <4>2. data[off + (n + i)] = first + (n + i)
          BY Zenon, <1>0, <4>1 DEF Follows
      <4> QED
          BY <1>1, <4>1, <4>2
    <3> QED
        BY <1>1, <1>2, <3>1 DEF Follows
  <2>4. Size(d) = Size(c) - n
      BY <1>0, <1>1, <2>2 DEF Size
  <2> QED
      BY <2>2, <2>3, <2>4 DEF Holds, d
<1>3. CASE ~(off + n < Len(data))
  <2>1. d = [c EXCEPT !.off = 0, !.data = <<>>]
      BY <1>3 DEF Shift
  <2>2. d.data = <<>> /\ d.off = 0 /\ d \in Buffers
    <3>1. <<>> \in Seq(Nat) /\ 0 \in Nat
        OBVIOUS
    <3> HIDE DEF d
    <3> QED
        BY Zenon, <1>0, <2>1, <3>1 DEF Buffers
  <2> HIDE DEF d, data, off
  <2>3. n = Size(c)
      BY <1>0, <1>1, <1>3
  <2>4. Follows(<<>>, 0, first + n)
      BY DEF Follows
  <2>5. Size(d) = Size(c) - n
    <3>1. Len(<<>>) = 0
        OBVIOUS
    <3>2. Size(d) = 0
        BY <2>2, <3>1 DEF Size
    <3> QED
        BY <1>0, <1>1, <2>3, <3>2
  <2> QED
      BY <2>2, <2>4, <2>5 DEF Holds, d
<1> QED
    BY <1>2, <1>3

(* Bytes that are appended follow those that are there. *)
LEMMA AppendedFollow ==
    ASSUME NEW data, NEW off, NEW first \in Int, Follows(data, off, first), NEW n \in Nat,
           first + (Len(data) - off) \in Nat
    PROVE  LET t == [i \in 1..n |-> first + (Len(data) - off) + i]
           IN  Follows(data \o t, off, first) /\ Len(data \o t) = Len(data) + n
<1> DEFINE k == Len(data) - off
           t == [i \in 1..n |-> first + k + i]
           u == data \o t
<1>1. data \in Seq(Nat) /\ off \in 0..Len(data) /\ k \in Nat /\ first + k \in Nat
    BY DEF Follows
<1>2. \A i \in 1..k : data[off + i] = first + i
    BY DEF Follows
<1>3. t \in Seq(Nat) /\ Len(t) = n /\ \A i \in 1..n : t[i] = first + k + i
    BY <1>1
<1> HIDE DEF t
<1>4. /\ u \in Seq(Nat) /\ Len(u) = Len(data) + n
      /\ \A i \in 1..Len(data) : u[i] = data[i]
      /\ \A i \in 1..n : u[Len(data) + i] = t[i]
  <2>1. data \in Seq(Nat) /\ t \in Seq(Nat) /\ Len(t) = n
      BY <1>1, <1>3
  <2> QED
    <3>1. /\ u \in Seq(Nat) /\ Len(u) = Len(data) + Len(t)
          /\ \A i \in 1..Len(data) : u[i] = data[i]
          /\ \A i \in 1..Len(t) : u[Len(data) + i] = t[i]
        BY Zenon, <2>1, AppendingIs
    <3> HIDE DEF u
    <3> QED
        BY <2>1, <3>1
<1> HIDE DEF u
<1>5. ASSUME NEW i \in 1..(Len(u) - off) PROVE u[off + i] = first + i
  <2>1. CASE i <= k
      BY <1>1, <1>2, <1>4, <2>1
  <2>2. CASE i > k
    <3>1. i - k \in 1..n /\ off + i = Len(data) + (i - k)
        BY <1>1, <1>4, <2>2
    <3>2. u[off + i] = t[i - k]
        BY Zenon, <1>4, <3>1
    <3> QED
        BY <1>1, <1>3, <3>1, <3>2
  <2> QED
      BY <1>1, <2>1, <2>2
<1>6. Follows(u, off, first)
    BY <1>1, <1>4, <1>5 DEF Follows
<1> QED
    BY <1>4, <1>6 DEF u, t

(* reserve() computes with whole numbers. *)
LEMMA ReservedIs ==
    ASSUME NEW cap \in Int, NEW need \in Int
    PROVE  ReservedCap(cap, need) \in Int
<1>1. (need - 1) % CHUNK_SIZE \in Int
    BY ChunkAssumption
<1> QED
    BY <1>1, ChunkAssumption DEF ReservedCap, GrownTo, PadUp

(* write() puts all of the bytes behind the others, or none. *)
LEMMA PushedHolds ==
    ASSUME NEW c, NEW first \in Int, Holds(c, first), NEW n \in Nat,
           first + Size(c) \in Nat
    PROVE  LET d == Pushed(c, [i \in 1..n |-> first + Size(c) + i])
           IN  Holds(d, first) /\ \E k \in Nat : /\ Len(d.data) = Len(c.data) + k
                                                /\ Size(d) = Size(c) + k
<1> DEFINE t == [i \in 1..n |-> first + Size(c) + i]
           cap == ReservedCap(c.cap, Len(c.data) + Len(t))
           data == IF Len(c.data) + Len(t) <= cap THEN c.data \o t ELSE c.data
<1>1. c \in Buffers /\ c.data \in Seq(Nat) /\ c.off \in 0..Len(c.data) /\ c.cap \in Int
    BY DEF Holds, Follows, Buffers
<1>2. Size(c) = Len(c.data) - c.off /\ Len(c.data) \in Nat /\ Len(t) = n
    BY <1>1 DEF Size
<1>3. Follows(c.data \o t, c.off, first) /\ Len(c.data \o t) = Len(c.data) + n
    BY <1>1, <1>2, AppendedFollow DEF Holds
<1>4. cap \in Int
  <2>1. Len(c.data) + Len(t) \in Int
      BY <1>2
  <2> QED
      BY Zenon, <1>1, <2>1, ReservedIs
<1>5. Pushed(c, t) = [c EXCEPT !.cap = cap, !.data = data]
    BY <1>1 DEF Pushed, Buffers
<1> HIDE DEF cap, t
<1>6. PICK k \in Nat : Follows(data, c.off, first) /\ Len(data) = Len(c.data) + k
  <2>0. data = c.data \/ data = c.data \o t
      BY Zenon
  <2> HIDE DEF data
  <2>1. CASE data = c.data
    <3>1. Follows(data, c.off, first) /\ Len(data) = Len(c.data) + 0
      <4>1. Len(data) = Len(c.data) + 0
          BY <1>2, <2>1
      <4> QED
          BY Zenon, <2>1, <4>1 DEF Holds
    <3> QED
        BY Zenon, <3>1
  <2>2. CASE data = c.data \o t
    <3>1. Follows(data, c.off, first) /\ Len(data) = Len(c.data) + n
        BY <1>3, <2>2
    <3> QED
        BY Zenon, <3>1
  <2> QED
      BY <2>0, <2>1, <2>2
<1> HIDE DEF data
<1>7. Pushed(c, t).data = data /\ Pushed(c, t).off = c.off /\ Pushed(c, t) \in Buffers
  <2>1. data \in Seq(Nat)
      BY <1>6 DEF Follows
  <2> QED
      BY Zenon, <1>1, <1>4, <1>5, <2>1 DEF Buffers
<1>8. Holds(Pushed(c, t), first)
    BY <1>6, <1>7 DEF Holds
<1>9. Size(Pushed(c, t)) = Size(c) + k
  <2>1. Len(data) = Len(c.data) + k /\ Size(Pushed(c, t)) = Len(data) - c.off
      BY <1>6, <1>7 DEF Size
  <2> QED
      BY <1>1, <1>2, <2>1
<1> QED
    BY Zenon, <1>6, <1>7, <1>8, <1>9 DEF t

(* What a step does to the bytes: nothing, drop them with the Client, take *)
(* off what write(2) has passed on, or store what was read; KernelTakes    *)
(* and PeerReads are the others.                                           *)
Over == {"deleted", "killed"}
Untouched ==
    /\ UNCHANGED <<stored, written, writeBuffer, echoed, outbox>>
    /\ phase' = phase \/ (phase \notin Over \cup {"writing"} /\ phase' \notin Over)
Dropped ==
    /\ phase' \in Over /\ writeBuffer' = NewBuffer(0) /\ written' = 0
    /\ UNCHANGED <<stored, echoed, outbox>>
Passed ==
    /\ phase = "writing" /\ phase' = "idle" /\ writeBuffer' = Rest /\ written' = 0
    /\ UNCHANGED <<stored, echoed, outbox>>
Storing(n) ==
    /\ phase = "handler" /\ phase' \in {"handler", "idle"}
    /\ writeBuffer' = Pushed(writeBuffer, [i \in 1..n |-> stored + i])
    /\ stored' = stored + (Len(writeBuffer'.data) - Len(writeBuffer.data))
    /\ UNCHANGED <<written, echoed, outbox>>

(* The actions of the echo server do that. *)
LEMMA EchoEffect ==
    [EchoNext]_echoVars => \/ Untouched \/ Dropped \/ Passed \/ (\E n \in Nat : Storing(n))
                           \/ KernelTakes \/ PeerReads
<1> SUFFICES ASSUME [EchoNext]_echoVars
             PROVE  \/ Untouched \/ Dropped \/ Passed \/ (\E n \in Nat : Storing(n))
                    \/ KernelTakes \/ PeerReads
    OBVIOUS
<1>1. ASSUME UNCHANGED <<vars, evars>> \/ UNCHANGED evars \/ UNCHANGED <<client, network>>
      PROVE  Untouched
    BY <1>1 DEF Untouched, evars, client, network
<1>2. ASSUME DeleteThis \/ Gone("killed"), UNCHANGED network PROVE Dropped
    BY <1>2 DEF DeleteThis, Gone, Dropped, Over, network
<1>3. ASSUME phase = "writing", AfterWrite(Rest), UNCHANGED network PROVE Dropped \/ Passed
    BY <1>2, <1>3 DEF AfterWrite, Passed, network
<1>4. CASE OfAny(Next) \/ Expire \/ Sig \/ UNCHANGED echoVars
    BY <1>1, <1>4 DEF OfAny, Expire, Sig, echoVars
<1>5. CASE Construct \/ Collect \/ Enter \/ HandleWrite
    BY <1>5 DEF Construct, Collect, Enter, HandleWrite, Untouched, Over, network
<1>6. CASE HandleTimeout \/ HandleEof
    BY <1>2, <1>6 DEF HandleTimeout, HandleEof
<1>7. ASSUME NEW n \in 1..BUF_SIZE, HandleRead(n) PROVE \E k \in Nat : Storing(k)
  <2>1. Storing(n)
      BY <1>7 DEF HandleRead, Storing, network
  <2>2. n \in Nat
      BY EchoAssumption
  <2> QED
      BY <2>1, <2>2
<1>8. CASE WriteReturns \/ WriteFails
    BY <1>2, <1>3, <1>8 DEF WriteReturns, WriteFails
<1>9. CASE Interrupt
    BY <1>1, <1>3, <1>9 DEF Interrupt
<1>10. CASE (\E n \in 1..MaxSent : PeerSends(n)) \/ PeerEnds
    BY <1>10 DEF PeerSends, PeerEnds, Untouched, client
<1> QED
    BY <1>4, <1>5, <1>6, <1>7, <1>8, <1>9, <1>10 DEF EchoNext, ServerStep

(* A BufferStream has no negative number of bytes. *)
LEMMA HeldSize == ASSUME NEW c, NEW first, Holds(c, first) PROVE Size(c) \in Nat
<1>1. c.off \in 0..Len(c.data) /\ Len(c.data) \in Nat
    BY DEF Holds, Follows
<1> QED
    BY <1>1 DEF Size

(* The next byte that the kernel takes is the next to come back. *)
LEMMA KernelTakesNext ==
    ASSUME EchoInv, KernelTakes
    PROVE  outbox' = Append(outbox, Len(echoed) + Len(outbox) + 1)
<1> DEFINE data == writeBuffer.data
           off == writeBuffer.off
           first == stored - Size(writeBuffer)
           k == written + 1
<1>1. Follows(data, off, first) /\ Size(writeBuffer) = Len(data) - off /\ Size(writeBuffer) \in Nat
    BY Zenon, HeldSize DEF EchoInv, Holds, Size
<1>2. /\ stored \in Nat /\ k \in 1..Size(writeBuffer) /\ written \in Nat
      /\ first + written = Len(echoed) + Len(outbox)
    BY <1>1 DEF EchoInv, KernelTakes
<1>3. off \in Nat /\ first \in Int
    BY <1>1, <1>2 DEF Follows
<1>4. outbox' = Append(outbox, data[off + k])
  <2>1. outbox' = Append(outbox, data[off + written + 1])
      BY DEF KernelTakes
  <2> HIDE DEF data, off
  <2>2. off + written + 1 = off + k
      BY <1>2, <1>3
  <2> QED
      BY <2>1, <2>2
<1> HIDE DEF data, off
<1>5. data[off + k] = first + k
    BY Zenon, <1>1, <1>2 DEF Follows
<1>6. first + k = Len(echoed) + Len(outbox) + 1
    BY <1>1, <1>2, <1>3
<1> QED
    BY <1>4, <1>5, <1>6

(* What is left when write(2) returns is what it has not passed on. *)
LEMMA RestHolds ==
    ASSUME EchoInv
    PROVE  /\ Holds(Rest, (stored - Size(writeBuffer)) + written)
           /\ Size(Rest) = Size(writeBuffer) - written /\ Size(Rest) \in Nat
<1> DEFINE size == Size(writeBuffer)
           first == stored - size
<1>1. /\ stored \in Nat /\ size \in Nat /\ written \in 0..size
      /\ first \in Int /\ Holds(writeBuffer, first)
    BY HeldSize DEF EchoInv
<1>2. CASE written > 0
  <2>1. Rest = Shift(writeBuffer, written)
      BY <1>2 DEF Rest
  <2> HIDE DEF first
  <2>2. Holds(Rest, first + written) /\ Size(Rest) = size - written
      BY <1>1, <2>1, ShiftHolds
  <2> HIDE DEF size
  <2> QED
      BY <1>1, <2>2 DEF first, size
<1>3. CASE ~(written > 0)
  <2>1. Rest = writeBuffer /\ written = 0
      BY <1>1, <1>3 DEF Rest
  <2>2. first + 0 = first /\ size - 0 = size
      BY <1>1
  <2> QED
      BY <1>1, <2>1, <2>2
<1> QED
    BY <1>2, <1>3

(* What was read is stored behind the rest, or not at all. *)
LEMMA StoringIs ==
    ASSUME EchoInv, NEW n \in Nat, Storing(n)
    PROVE  \E k \in Nat : /\ Holds(writeBuffer', stored - Size(writeBuffer))
                         /\ Size(writeBuffer') = Size(writeBuffer) + k
                         /\ stored' = stored + k
<1> DEFINE size == Size(writeBuffer)
           first == stored - size
<1>1. /\ stored \in Nat /\ size \in Nat
      /\ first \in Int /\ first + size = stored /\ Holds(writeBuffer, first)
    BY HeldSize DEF EchoInv
<1>2. /\ writeBuffer' = Pushed(writeBuffer, [i \in 1..n |-> stored + i])
      /\ stored' = stored + (Len(writeBuffer'.data) - Len(writeBuffer.data))
    BY DEF Storing
<1>3. writeBuffer' = Pushed(writeBuffer, [i \in 1..n |-> first + size + i])
  <2>1. [i \in 1..n |-> stored + i] = [i \in 1..n |-> first + size + i]
      BY <1>1
  <2> QED
      BY Zenon, <1>2, <2>1
<1> HIDE DEF first
<1>4. PICK k \in Nat : /\ Holds(writeBuffer', first)
                      /\ Len(writeBuffer'.data) = Len(writeBuffer.data) + k
                      /\ Size(writeBuffer') = size + k
    BY Zenon, <1>1, <1>3, PushedHolds
<1>5. stored' = stored + k
  <2> DEFINE old == Len(writeBuffer.data)
             new == Len(writeBuffer'.data)
  <2>1. old \in Nat /\ new = old + k /\ stored' = stored + (new - old)
      BY <1>1, <1>2, <1>4 DEF Holds, Follows
  <2> HIDE DEF old, new
  <2> QED
      BY <1>1, <2>1
<1> QED
    BY <1>4, <1>5 DEF first

(* The invariant is inductive. *)
LEMMA NextEchoInv == EchoInv /\ [EchoNext]_echoVars => EchoInv'
<1> SUFFICES ASSUME EchoInv, [EchoNext]_echoVars PROVE EchoInv'
    OBVIOUS
<1> DEFINE size == Size(writeBuffer)
           back == Len(echoed) + Len(outbox)
<1>0. /\ stored \in Nat /\ size \in Nat /\ back \in Nat /\ written \in 0..size
      /\ back <= stored /\ stored - size \in Int
  <2>1. echoed \in Seq(Nat) /\ outbox \in Seq(Nat)
      BY DEF EchoInv, Returned
  <2>2. size \in Nat
      BY HeldSize DEF EchoInv
  <2> QED
      BY <2>1, <2>2 DEF EchoInv
<1>1. CASE Untouched
    BY <1>1 DEF EchoInv, Untouched, Over, Returned
<1>2. CASE Dropped
  <2>1. Size(NewBuffer(0)) = 0 /\ Holds(NewBuffer(0), stored)
      BY <1>0, NewBufferHolds
  <2>2. stored' = stored /\ writeBuffer' = NewBuffer(0) /\ written' = 0 /\ phase' \in Over
      BY <1>2 DEF Dropped
  <2>3. Returned' /\ back' = back
      BY <1>2 DEF Dropped, EchoInv, Returned
  <2>4. Size(writeBuffer)' = 0 /\ Holds(writeBuffer, stored - Size(writeBuffer))'
    <3>1. stored - 0 = stored
        BY <1>0
    <3> QED
        BY <2>1, <2>2, <3>1
  <2> HIDE DEF size, back
  <2> QED
      BY <1>0, <2>2, <2>3, <2>4 DEF EchoInv, Over, size, back
<1>3. CASE Passed
  <2>1. Holds(Rest, (stored - size) + written) /\ Size(Rest) = size - written
      BY RestHolds
  <2>2. stored' = stored /\ writeBuffer' = Rest /\ written' = 0 /\ phase' = "idle"
      BY <1>3 DEF Passed
  <2>3. Returned' /\ back' = back /\ back = stored - size + written
      BY <1>3 DEF Passed, EchoInv, Returned
  <2>4. Size(writeBuffer)' = size - written /\ Holds(writeBuffer, stored - Size(writeBuffer))'
    <3>1. stored - (size - written) = (stored - size) + written
        BY <1>0
    <3> QED
        BY <2>1, <2>2, <3>1
  <2> HIDE DEF size, back
  <2> QED
      BY <1>0, <2>2, <2>3, <2>4 DEF EchoInv, back
<1>4. ASSUME NEW n \in Nat, Storing(n) PROVE EchoInv'
  <2> DEFINE first == stored - size
  <2>1. phase \notin Over \cup {"writing"} /\ phase' \notin Over \cup {"writing"}
      BY <1>4 DEF Storing, Over
  <2>2. Returned' /\ back' = back /\ back = stored - size + written /\ written' = 0 /\ written = 0
      BY <1>4 DEF Storing, EchoInv, Returned
  <2>3. PICK k \in Nat : /\ Holds(writeBuffer', first)
                        /\ Size(writeBuffer') = size + k
                        /\ stored' = stored + k
      BY <1>4, StoringIs
  <2>4. stored' - Size(writeBuffer') = first
      BY <1>0, <2>3
  <2> HIDE DEF size, back
  <2>5. stored' \in Nat /\ Size(writeBuffer') \in Nat /\ back <= stored'
      BY <1>0, <2>3
  <2>6. back' = stored' - Size(writeBuffer') + written'
      BY <1>0, <2>2, <2>3
  <2>7. Holds(writeBuffer', stored' - Size(writeBuffer'))
      BY <2>3, <2>4
  <2>8. written' \in 0..Size(writeBuffer')
      BY <2>2, <2>5
  <2> QED
      BY <2>2, <2>5, <2>6, <2>7, <2>8 DEF EchoInv, back
<1>5. CASE KernelTakes
  <2>1. outbox' = Append(outbox, back + 1)
      BY <1>5, KernelTakesNext
  <2>2. /\ stored' = stored /\ writeBuffer' = writeBuffer /\ phase' = "writing" /\ phase = "writing"
        /\ written' = written + 1 /\ written < size /\ echoed' = echoed
      BY <1>5 DEF KernelTakes
  <2>3. back = stored - size + written /\ Holds(writeBuffer, stored - size)
      BY <2>2 DEF EchoInv
  <2>4. Returned' /\ back' = back + 1
    <3>1. echoed \in Seq(Nat) /\ outbox \in Seq(Nat) /\ back + 1 \in Nat
        BY <1>0 DEF EchoInv, Returned
    <3>2. outbox' \in Seq(Nat) /\ Len(outbox') = Len(outbox) + 1
        BY <2>1, <3>1
    <3>3. ASSUME NEW i \in 1..Len(outbox') PROVE outbox'[i] = Len(echoed) + i
      <4>1. CASE i \in 1..Len(outbox)
          BY <2>1, <3>1, <4>1 DEF EchoInv, Returned
      <4>2. CASE i = Len(outbox) + 1
          BY <2>1, <3>1, <4>2
      <4> QED
          BY <3>1, <3>2, <4>1, <4>2
    <3>4. Returned'
        BY <2>2, <3>2, <3>3 DEF EchoInv, Returned
    <3> QED
        BY <2>2, <3>1, <3>2, <3>4
  <2> HIDE DEF size, back
  <2> QED
      BY <1>0, <2>2, <2>3, <2>4 DEF EchoInv, back, size
<1>6. CASE PeerReads
  <2>1. /\ outbox # <<>> /\ outbox' = Tail(outbox) /\ echoed' = Append(echoed, Head(outbox))
        /\ UNCHANGED <<stored, written, writeBuffer, phase>>
      BY <1>6 DEF PeerReads, client
  <2>2. Returned' /\ back' = back
    <3>1. echoed \in Seq(Nat) /\ outbox \in Seq(Nat) /\ Len(outbox) > 0
        BY <2>1 DEF EchoInv, Returned
    <3>2. /\ outbox' \in Seq(Nat) /\ Len(outbox') = Len(outbox) - 1
          /\ \A i \in 1..Len(outbox') : outbox'[i] = outbox[i + 1]
        BY <2>1, <3>1
    <3>3. Head(outbox) = Len(echoed) + 1
        BY <3>1 DEF EchoInv, Returned
    <3>4. echoed' \in Seq(Nat) /\ Len(echoed') = Len(echoed) + 1
        BY <2>1, <3>1, <3>3
    <3>5. ASSUME NEW i \in 1..Len(echoed') PROVE echoed'[i] = i
      <4>1. CASE i \in 1..Len(echoed)
          BY <2>1, <3>1, <4>1 DEF EchoInv, Returned
      <4>2. CASE i = Len(echoed) + 1
          BY <2>1, <3>1, <3>3, <4>2
      <4> QED
          BY <3>1, <3>4, <4>1, <4>2
    <3>6. ASSUME NEW i \in 1..Len(outbox') PROVE outbox'[i] = Len(echoed') + i
      <4>1. outbox[i + 1] = Len(echoed) + (i + 1)
          BY <3>1, <3>2 DEF EchoInv, Returned
      <4> QED
          BY <3>1, <3>2, <3>4, <4>1
    <3>7. Returned'
        BY <3>2, <3>4, <3>5, <3>6 DEF Returned
    <3> QED
        BY <3>1, <3>2, <3>4, <3>7
  <2> HIDE DEF size, back
  <2> QED
      BY <1>0, <2>1, <2>2 DEF EchoInv, size, back
<1> QED
    BY <1>1, <1>2, <1>3, <1>4, <1>5, <1>6, EchoEffect

(* The echo server is a queue of bytes between what writeBuffer_ took and  *)
(* what came back: each of its steps accepts bytes, delivers the next one, *)
(* or does neither.                                                        *)
THEOREM EchoesAll == EchoSpec => Echoes
<1>1. EchoInit => Echo!Init
  <2>1. <<>> \o <<>> = <<>>
      OBVIOUS
  <2> QED
      BY <2>1 DEF EchoInit, Echo!Init
<1>2. EchoInv /\ [EchoNext]_echoVars => [Echo!Next]_Echo!vars
  <2> SUFFICES ASSUME EchoInv, [EchoNext]_echoVars PROVE [Echo!Next]_Echo!vars
      OBVIOUS
  <2> DEFINE back == echoed \o outbox
  <2>1. /\ echoed \in Seq(Nat) /\ outbox \in Seq(Nat) /\ stored \in Nat
        /\ Len(echoed) + Len(outbox) <= stored /\ Len(back) = Len(echoed) + Len(outbox)
      BY DEF EchoInv, Returned
  <2>2. CASE Untouched \/ Dropped \/ Passed
      BY <2>2 DEF Untouched, Dropped, Passed, Echo!vars
  <2>3. ASSUME NEW n \in Nat, Storing(n) PROVE [Echo!Next]_Echo!vars
    <3>1. UNCHANGED back
        BY <2>3 DEF Storing
    <3>2. PICK k \in Nat : stored' = stored + k
        BY <2>3, StoringIs
    <3>3. stored' = stored \/ stored' > stored
        BY <2>1, <3>2
    <3> QED
        BY <3>1, <3>3 DEF Echo!Next, Echo!Accept, Echo!vars
  <2>4. CASE KernelTakes
    <3>1. outbox' = Append(outbox, Len(back) + 1) /\ UNCHANGED <<stored, echoed>>
        BY <2>1, <2>4, KernelTakesNext DEF KernelTakes
    <3>2. 1 \in 1..(stored - Len(back))
      <4>1. Len(echoed) + Len(outbox) = stored - Size(writeBuffer) + written /\ written < Size(writeBuffer)
          BY <2>4 DEF EchoInv, KernelTakes
      <4>2. Size(writeBuffer) \in Nat /\ written \in Nat
          BY HeldSize DEF EchoInv
      <4> QED
          BY <2>1, <4>1, <4>2
    <3>3. back' = back \o Echo!Following(1)
      <4>1. Echo!Following(1) = <<Len(back) + 1>>
          BY <2>1 DEF Echo!Following
      <4>2. echoed \o Append(outbox, Len(back) + 1) = back \o <<Len(back) + 1>>
          BY <2>1
      <4> QED
          BY Zenon, <3>1, <4>1, <4>2
    <3> QED
        BY Zenon, <3>1, <3>2, <3>3 DEF Echo!Next, Echo!Deliver
  <2>5. CASE PeerReads
    <3>1. UNCHANGED stored /\ outbox # <<>> /\ outbox' = Tail(outbox) /\ echoed' = Append(echoed, Head(outbox))
        BY <2>5 DEF PeerReads, client
    <3>2. Append(echoed, Head(outbox)) \o Tail(outbox) = back
        BY SMTT(20), <2>1, <3>1
    <3> QED
        BY <3>1, <3>2 DEF Echo!vars
  <2> QED
      BY <2>2, <2>3, <2>4, <2>5, EchoEffect
<1> QED
    BY <1>1, <1>2, InitEchoInv, NextEchoInv, PTL DEF EchoSpec, Echoes, Echo!Spec

(* io() and timeout() are what ends a wait, and the handler they call ends *)
(* with watch(), or with bytes left over from a short write.               *)
LEMMA NextSilence == SilenceIsTimed /\ EchoInv /\ [EchoNext]_echoVars => SilenceIsTimed'
<1> SUFFICES ASSUME SilenceIsTimed, EchoInv, [EchoNext]_echoVars, (user = "echo" /\ phase = "idle")'
             PROVE  \/ "timer" \in watching' \cup pending'
                    \/ "io" \in pending'
                    \/ short' = "yes" /\ Size(writeBuffer') > 0
    BY DEF SilenceIsTimed
<1> DEFINE Timed == "timer" \in watching' \cup pending'
<1>1. ASSUME ReWatch({"read"}) \/ ReWatch({"read", "write"}) \/ On(1) PROVE Timed
    BY <1>1 DEF ReWatch, Watch, On, Events
<1>2. ASSUME AfterWrite(Rest)
      PROVE  Timed \/ (short' = "yes" /\ Size(writeBuffer') > 0)
  <2>1. Size(Rest) \in Nat
      BY RestHolds
  <2> QED
      BY <1>1, <1>2, <2>1 DEF AfterWrite, DeleteThis, Gone
<1>3. CASE UNCHANGED <<vars, user, client>>
    BY <1>3 DEF SilenceIsTimed, vars, client
<1>4. CASE OfAny(Next)
    BY <1>4 DEF OfAny, evars, SilenceIsTimed
<1>5. CASE Construct \/ \E n \in 1..BUF_SIZE : HandleRead(n)
    BY Zenon, <1>1, <1>5 DEF Construct, HandleRead
<1>6. CASE Collect \/ Expire
    BY <1>6 DEF Collect, IoReady, Expire, TimerExpires
<1>7. CASE Enter \/ HandleTimeout \/ HandleEof \/ HandleWrite \/ KernelTakes
    BY <1>7 DEF Enter, HandleTimeout, HandleEof, DeleteThis, Gone, HandleWrite, KernelTakes
<1>8. CASE WriteReturns \/ WriteFails \/ Interrupt
    BY <1>2, <1>3, <1>8 DEF WriteReturns, WriteFails, DeleteThis, Gone, Interrupt
<1>9. CASE Sig \/ (\E n \in 1..MaxSent : PeerSends(n)) \/ PeerReads \/ PeerEnds \/ UNCHANGED echoVars
    BY <1>3, <1>9 DEF Sig, PeerSends, PeerReads, PeerEnds, echoVars, evars
<1> QED
    BY <1>4, <1>5, <1>6, <1>7, <1>8, <1>9 DEF EchoNext, ServerStep

(* A peer that falls silent is timed, but after a short write: whenever    *)
(* the handler has returned, the timer runs, or a call is pending, or      *)
(* bytes are left over from a write(2) that came back short.               *)
THEOREM SilentPeers == EchoSpec => []SilenceIsTimed
<1>1. EchoInit => SilenceIsTimed
    BY DEF EchoInit, SilenceIsTimed
<1> QED
    BY <1>1, InitEchoInv, NextEchoInv, NextSilence, PTL DEF EchoSpec
=============================================================================
