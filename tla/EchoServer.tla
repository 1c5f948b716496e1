----------------------------- MODULE EchoServer -----------------------------
(***************************************************************************)
(* Clients of one Socket: any client, as in that module, or the Client of  *)
(* examples/echo-server.cpp, which reads with a timeout, stores what it    *)
(* gets in a BufferStream, and writes it back when the socket is writable. *)
(*                                                                         *)
(* The accepted socket is a blocking one, although the server is opened    *)
(* with O_NONBLOCK (module ServerSocket): write(2) returns when the kernel *)
(* has taken everything, or less after a signal.  It is the only call of   *)
(* the handler that takes time; meanwhile the loop stands still.           *)
(***************************************************************************)
EXTENDS Socket, StreamChunks

CONSTANTS
    MaxSent,    \* bound: bytes the peer sends
    BUF_SIZE,   \* sizeof(buf); 1024 in the code
    SNDBUF      \* bytes the kernel keeps for the peer

ASSUME EchoAssumption ==
    MaxSent \in Nat /\ BUF_SIZE \in Nat \ {0} /\ SNDBUF \in Nat \ {0}

VARIABLES
    user,         \* "any" client, or "echo"
    phase,        \* of the Client: "new", "idle" between two handler calls,
                  \* in the "handler", in write(2) ("writing"), "expired"
                  \* (called with TIMEOUT), "deleted", or "killed"
    mode,         \* the events io_ is set for
    revents,      \* the events collected, then those left to the handler
    writeBuffer,  \* writeBuffer_
    close,        \* close_: "yes" or "no"
    got,          \* how many bytes the Client has read
    stored,       \* history: how many of these writeBuffer_ took
    written,      \* bytes the running write(2) has passed on
    short,        \* history: "yes" once a write(2) has come back short
    listening,    \* the server's listener is watched: "yes" or "no"
    sigint,       \* "none", "raised", "handled"
    sent,         \* how many bytes the peer has sent
    peer,         \* "here", "half" (sends no more), or "gone"
    outbox,       \* bytes the kernel has for the peer
    echoed        \* bytes the peer has read

client == <<phase, mode, revents, writeBuffer, close, got, stored, written, short>>
server == <<listening, sigint>>
network == <<sent, peer, outbox, echoed>>
evars == <<user, client, server, network>>
echoVars == <<vars, evars>>

(* ServerSocket::acceptOne() has made the socket. *)
EchoInit ==
    /\ Init
    /\ user \in {"any", "echo"}
    /\ user = "echo" => habits = {} /\ state = "Operational"
    /\ phase = "new" /\ mode = {} /\ revents = {} /\ writeBuffer = NewBuffer(0)
    /\ close = "no" /\ got = 0 /\ stored = 0 /\ written = 0 /\ short = "no"
    /\ listening = "yes" /\ sigint = "none"
    /\ sent = 0 /\ peer = "here" /\ outbox = <<>> /\ echoed = <<>>
-----------------------------------------------------------------------------
(* Client::Client(): on(READ, 10 seconds) *)
Construct ==
    /\ user = "echo" /\ phase = "new"
    /\ On(1)
    /\ phase' = "idle" /\ mode' = {"read"}
    /\ UNCHANGED <<user, revents, writeBuffer, close, got, stored, written, short>>
    /\ UNCHANGED <<server, network>>

(* What the kernel reports of the socket; a connection that is broken, or  *)
(* at its end, is ready for everything.                                    *)
ReadyFor ==
    mode \cap ((IF got < sent \/ peer # "here" THEN {"read"} ELSE {})
          \cup (IF Len(outbox) < SNDBUF \/ peer = "gone" THEN {"write"} ELSE {}))

Collect ==
    /\ user = "echo" /\ phase = "idle" /\ ReadyFor # {}
    /\ IoReady
    /\ revents' = ReadyFor
    /\ UNCHANGED <<user, phase, mode, writeBuffer, close, got, stored, written, short>>
    /\ UNCHANGED <<server, network>>

Expire ==
    /\ user = "echo" /\ phase = "idle"
    /\ TimerExpires
    /\ UNCHANGED evars

(* Socket::io() and Socket::timeout() call the handler. *)
Enter ==
    /\ user = "echo" /\ phase = "idle"
    /\ \/ Io /\ phase' = "handler"
       \/ Timeout /\ phase' = "expired"
    /\ UNCHANGED <<user, mode, revents, writeBuffer, close, got, stored, written, short>>
    /\ UNCHANGED <<server, network>>

(* ~Client() and ~Socket(), or the end of the process *)
Gone(outcome) ==
    /\ Destroy
    /\ phase' = outcome /\ mode' = {} /\ revents' = {} /\ written' = 0
    /\ writeBuffer' = NewBuffer(0) /\ close' = "no"
    /\ UNCHANGED <<user, got, stored, short>>

(* delete this *)
DeleteThis == Gone("deleted")

(* The handler is called with TIMEOUT. *)
HandleTimeout == phase = "expired" /\ DeleteThis /\ UNCHANGED <<server, network>>

(* The handler's read finds the end of the stream, or an error. *)
HandleEof ==
    /\ phase = "handler" /\ "read" \in revents
    /\ (got = sent /\ peer # "here") \/ peer = "gone"
    /\ DeleteThis /\ UNCHANGED <<server, network>>

(* What the two calls of strncmp() can make of a chunk of n bytes.  They   *)
(* compare n - 2 bytes: of a chunk of one byte, all of it, and of one of   *)
(* two bytes, nothing.                                                     *)
Command(n) ==
    IF n = 1 THEN {"none", "close"}
    ELSE IF n = 2 THEN {"stop"}
    ELSE IF n = 3 THEN {"none", "stop"}
    ELSE {"none", "stop", "close"}

(* Mutant: the watchers are left as io() left them. *)
ReWatchNot(events) == UNCHANGED <<vars, mode>>

(* socket_->watch(events), with the timeout that on() was given *)
ReWatch(events) == Watch(1) /\ mode' = events

(* The handler reads n bytes; whether writeBuffer_ takes them is not       *)
(* looked at.                                                              *)
HandleRead(n) ==
    /\ phase = "handler" /\ "read" \in revents /\ n <= sent - got /\ n <= BUF_SIZE
    /\ got' = got + n
    /\ writeBuffer' = Pushed(writeBuffer, [i \in 1..n |-> stored + i])
    /\ stored' = stored + (Len(writeBuffer'.data) - Len(writeBuffer.data))
    /\ ReWatch({"read", "write"})
    /\ \E command \in Command(n) :
          /\ close' = IF command = "none" THEN close ELSE "yes"
          /\ listening' = IF command = "stop" THEN "no" ELSE listening
    /\ revents' = revents \ {"read"}
    /\ phase' = IF "write" \in revents THEN "handler" ELSE "idle"
    /\ UNCHANGED <<user, written, short, sigint, network>>

(* The handler calls write(2) with all that is in writeBuffer_. *)
HandleWrite ==
    /\ phase = "handler" /\ revents = {"write"}
    /\ phase' = "writing" /\ revents' = {}
    /\ UNCHANGED <<vars, user, mode, writeBuffer, close, got, stored, written, short>>
    /\ UNCHANGED <<server, network>>

KernelTakes ==
    /\ phase = "writing" /\ written < Size(writeBuffer) /\ Len(outbox) < SNDBUF
    /\ outbox' = Append(outbox, writeBuffer.data[writeBuffer.off + written + 1])
    /\ written' = written + 1
    /\ UNCHANGED <<vars, user, phase, mode, revents, writeBuffer, close, got, stored, short>>
    /\ UNCHANGED <<server, sent, peer, echoed>>

(* Mutant: after a short write, too, only READ is watched for. *)
AfterWriteReads(buffer) ==
    IF Size(buffer) = 0 /\ close = "yes" THEN DeleteThis
    ELSE /\ writeBuffer' = buffer
         /\ phase' = "idle" /\ written' = 0
         /\ IF Size(buffer) # 0 THEN short' = "yes" /\ mode' = {"read"} /\ UNCHANGED vars
                                ELSE UNCHANGED short /\ ReWatch({"read"})
         /\ UNCHANGED <<user, revents, close, got, stored>>

(* write(2) has returned, and buffer is what is left.  After a short write *)
(* the watchers stay as they are: io_ is active, and timer_ is not.        *)
AfterWrite(buffer) ==
    IF Size(buffer) = 0 /\ close = "yes" THEN DeleteThis
    ELSE /\ writeBuffer' = buffer
         /\ phase' = "idle" /\ written' = 0
         /\ IF Size(buffer) # 0 THEN short' = "yes" /\ UNCHANGED <<vars, mode>>
                                ELSE UNCHANGED short /\ ReWatch({"read"})
         /\ UNCHANGED <<user, revents, close, got, stored>>

(* Mutant: what the running write(2) has passed on is not taken off. *)
RestKeeps == writeBuffer

(* What is left of writeBuffer_ when write(2) returns. *)
Rest == IF written > 0 THEN Shift(writeBuffer, written) ELSE writeBuffer

WriteReturns ==
    /\ phase = "writing" /\ written = Size(writeBuffer)
    /\ AfterWrite(Rest)
    /\ UNCHANGED <<server, network>>

(* The peer is gone: write(2) fails, or returns what it had passed on.     *)
(* SIGPIPE is not ignored, and may end the process.                        *)
WriteFails ==
    /\ phase = "writing" /\ peer = "gone" /\ written < Size(writeBuffer)
    /\ \/ written > 0 /\ AfterWrite(Rest)
       \/ written = 0 /\ (DeleteThis \/ Gone("killed"))
    /\ UNCHANGED <<server, network>>

(* SIGINT ends a write(2) that has passed something on. *)
Interrupt ==
    /\ user = "echo" /\ sigint = "none" /\ sigint' = "raised"
    /\ IF phase = "writing" /\ written > 0 THEN AfterWrite(Rest)
                                           ELSE UNCHANGED <<vars, user, client>>
    /\ UNCHANGED <<listening, network>>

(* Server::sig() and Server::stop(), called by the loop *)
Sig ==
    /\ sigint = "raised" /\ phase \in {"idle", "deleted"}
    /\ sigint' = "handled" /\ listening' = "no"
    /\ UNCHANGED <<vars, user, client, network>>

(* The peer sends, reads, says that it sends no more, goes. *)
PeerSends(n) ==
    /\ user = "echo" /\ peer = "here" /\ sent + n <= MaxSent
    /\ sent' = sent + n
    /\ UNCHANGED <<vars, user, client, server, peer, outbox, echoed>>

PeerReads ==
    /\ peer # "gone" /\ outbox # <<>>
    /\ outbox' = Tail(outbox) /\ echoed' = Append(echoed, Head(outbox))
    /\ UNCHANGED <<vars, user, client, server, sent, peer>>

PeerEnds ==
    /\ user = "echo"
    /\ \/ peer = "here" /\ peer' \in {"half", "gone"}
       \/ peer = "half" /\ peer' = "gone"
    /\ UNCHANGED <<vars, user, client, server, sent, outbox, echoed>>

OfAny(action) == user = "any" /\ action /\ UNCHANGED evars

(* What the server and the kernel below it do by themselves. *)
ServerStep ==
    \/ Construct \/ Collect \/ Enter \/ HandleTimeout \/ HandleEof
    \/ \E n \in 1..BUF_SIZE : HandleRead(n)
    \/ HandleWrite \/ KernelTakes \/ WriteReturns \/ WriteFails \/ Sig

EchoNext ==
    \/ OfAny(Next) \/ ServerStep \/ Expire \/ Interrupt
    \/ (\E n \in 1..MaxSent : PeerSends(n)) \/ PeerReads \/ PeerEnds

(* The loop runs, time passes, and the peer reads what it gets. *)
EchoSpec ==
    /\ EchoInit /\ [][EchoNext]_echoVars
    /\ WF_echoVars(OfAny(TimerExpires)) /\ WF_echoVars(OfAny(Dispatch))
    /\ WF_echoVars(ServerStep) /\ WF_echoVars(Expire) /\ WF_echoVars(PeerReads)
-----------------------------------------------------------------------------
(* The bytes that writeBuffer_ took, and those that came back. *)
Echo == INSTANCE ByteQueue WITH accepted <- stored, delivered <- echoed \o outbox

(* Every byte that writeBuffer_ took is sent back once and in order, over  *)
(* short writes, reads and writes in one handler call, and deletion in     *)
(* between.                                                                *)
Echoes == Echo!Spec

(* Between two handler calls the timer runs or its expiry is pending, so   *)
(* that a silent peer is dropped after ten seconds, unless a write came    *)
(* back short: then nobody starts the timer that io() stopped, until the   *)
(* rest is written.                                                        *)
SilenceIsTimed ==
    user = "echo" /\ phase = "idle" =>
        \/ "timer" \in watching \cup pending
        \/ "io" \in pending
        \/ short = "yes" /\ Size(writeBuffer) > 0

(* What has been read is written back, and a Client that was told to close *)
(* is deleted, if the peer reads; or the Client is gone anyhow.            *)
Answered == Size(writeBuffer) > 0 \/ close = "yes" ~> Size(writeBuffer) = 0 /\ close = "no"
=============================================================================
