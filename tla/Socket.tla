------------------------------- MODULE Socket -------------------------------
(***************************************************************************)
(* Event handling of one xio::Socket (lib/Socket.cpp): the state machine   *)
(* of the connection, the I/O watcher io_ and the one-shot timer timer_ on *)
(* a libev loop, and the handler they call.  The loop collects events      *)
(* (IoReady, TimerExpires) and dispatches them one by one (Io, Timeout).   *)
(* Client code runs between two dispatches; because the call of handler_   *)
(* is the last thing a dispatch does, that includes what the handler does. *)
(* A dispatch drops the socket's other pending event first, so that the    *)
(* handler finds none; client code that another watcher of the loop calls  *)
(* may find some (habit "whilePending").                                   *)
(***************************************************************************)
EXTENDS Integers

CONSTANT MaxCalls  \* bound: calls the client makes

(* What some clients do and others do not: calls from another watcher's    *)
(* callback, while events of this socket are pending; close() while the    *)
(* watchers run; watch() before the first on(); open() on a socket that is *)
(* open.                                                                   *)
Habits == {"whilePending", "closeWatched", "watchBare", "reopen"}

ASSUME SocketAssumption == MaxCalls \in Nat

VARIABLES
    habits,    \* the client's habits, which never change
    fd,        \* fd_: "none" (-1), "open", or "stale" once it was closed
    state,     \* state_
    handler,   \* "set", or "empty"
    timeout,   \* timeout_: 0 or 1 (any other time)
    watching,  \* the active watchers, "io" and "timer"
    pending,   \* events the loop has collected and not yet dispatched
    conn,      \* the kernel's view of the connection behind fd_
    armed,     \* history: "yes" from on() or watch() to the end of watching
    deal,      \* history: the latest timeout asked for is "waiting" to
               \* expire, has "expired", or is settled or void ("none")
    crashed,   \* "yes" once an empty std::function was called
    calls      \* calls made so far

vars == <<habits, fd, state, handler, timeout, watching, pending, conn,
          armed, deal, crashed, calls>>

Events == {"io", "timer"}

TypeOK ==
    /\ habits \in SUBSET Habits
    /\ fd \in {"none", "open", "stale"}
    /\ state \in {"Closed", "Connecting", "Handshake", "Operational"}
    /\ handler \in {"set", "empty"} /\ timeout \in {0, 1}
    /\ watching \in SUBSET Events /\ pending \in SUBSET Events
    /\ conn \in {"none", "pending", "up", "failed"}
    /\ armed \in {"yes", "no"} /\ deal \in {"none", "waiting", "expired"}
    /\ crashed \in {"yes", "no"} /\ calls \in 0..MaxCalls

(* Socket(loop), and Socket(loop, fd, af, state) around a connected fd. *)
Init ==
    /\ habits \in SUBSET Habits
    /\ \/ fd = "none" /\ state = "Closed" /\ conn = "none"
       \/ fd = "open" /\ state \in {"Handshake", "Operational"} /\ conn = "up"
    /\ handler = "empty" /\ timeout = 0 /\ watching = {} /\ pending = {}
    /\ armed = "no" /\ deal = "none" /\ crashed = "no" /\ calls = 0
-----------------------------------------------------------------------------
Call ==
    /\ crashed = "no" /\ calls < MaxCalls
    /\ pending = {} \/ "whilePending" \in habits
    /\ calls' = calls + 1
    /\ UNCHANGED <<habits, crashed>>

CallOpen ==
    /\ Call
    /\ (state = "Closed" /\ fd # "open") \/ "reopen" \in habits
    /\ UNCHANGED <<handler, timeout, watching, pending, armed, deal>>

(* open(): connect() succeeds, or is in progress. *)
Open ==
    /\ CallOpen
    /\ fd' = "open"
    /\ \/ state' = "Operational" /\ conn' = "up"
       \/ state' = "Connecting" /\ conn' = "pending"

(* open() returns Closed, at socket(), at connect() or for an unknown      *)
(* address family: no descriptor is left.  Only connect() sets state_.     *)
OpenRefused ==
    /\ CallOpen
    /\ fd' = "none" /\ conn' = "none" /\ state' \in {state, "Closed"}

(* open() returns Closed because fcntl() failed: the descriptor stays. *)
OpenUnflagged ==
    /\ CallOpen
    /\ fd' = "open" /\ conn' = "none" /\ UNCHANGED state

(* ::close(fd_) and state_ = Closed, where fd_ >= 0; fd_ keeps its value   *)
(* and the watchers are left alone.                                        *)
Shut ==
    IF fd = "none" THEN UNCHANGED <<fd, state, conn>>
    ELSE fd' = "stale" /\ state' = "Closed" /\ conn' = "none"

(* close() by the client *)
Close ==
    /\ Call
    /\ (watching = {} /\ pending = {}) \/ "closeWatched" \in habits
    /\ Shut
    /\ UNCHANGED <<handler, timeout, watching, pending, armed, deal>>

(* Mutant: the handler is not stored. *)
OnForgetsHandler(t) ==
    /\ Call /\ fd # "none"
    /\ timeout' = t /\ watching' = Events /\ pending' = pending \ watching
    /\ armed' = "yes" /\ deal' = "waiting"
    /\ UNCHANGED <<fd, state, conn, handler>>

(* on(mode, t, cb).  ev++ start() restarts a watcher that is active, and   *)
(* thereby drops a pending event of it.  io_ is active while an event of   *)
(* it is pending; timer_, having expired, is not.                          *)
On(t) ==
    /\ Call /\ fd # "none"
    /\ handler' = "set" /\ timeout' = t
    /\ watching' = Events /\ pending' = pending \ watching
    /\ armed' = "yes" /\ deal' = "waiting"
    /\ UNCHANGED <<fd, state, conn>>

(* watch(mode, t) with t # 0, and watch(mode) with t = timeout_ *)
Watch(t) ==
    /\ Call /\ fd # "none" /\ (t # 0 \/ timeout = 0)
    /\ handler = "set" \/ "watchBare" \in habits
    /\ timeout' = t
    /\ watching' = IF t # 0 THEN Events ELSE watching \cup {"io"}
    /\ pending' = pending \ (IF t # 0 THEN watching ELSE watching \cap {"io"})
    /\ armed' = "yes" /\ deal' = IF t # 0 THEN "waiting" ELSE deal
    /\ UNCHANGED <<fd, state, conn, handler>>

(* restart(): likewise only an active timer_ is stopped. *)
Restart ==
    /\ Call /\ "io" \in watching
    /\ watching' = IF timeout # 0 THEN Events ELSE {"io"}
    /\ pending' = pending \ (watching \cap {"timer"})
    /\ deal' = IF timeout # 0 THEN "waiting"
               ELSE IF "timer" \in watching THEN "none" ELSE deal
    /\ UNCHANGED <<fd, state, conn, handler, timeout, armed>>

(* stop(); std::move(handler_) moves nothing. *)
Stop ==
    /\ Call
    /\ watching' = {} /\ pending' = {}
    /\ armed' = "no" /\ deal' = "none"
    /\ UNCHANGED <<fd, state, conn, handler, timeout>>

(* ~Socket(), and the client makes a new Socket(loop). *)
Destroy ==
    /\ Call
    /\ fd' = "none" /\ state' = "Closed" /\ conn' = "none"
    /\ handler' = "empty" /\ timeout' = 0 /\ watching' = {} /\ pending' = {}
    /\ armed' = "no" /\ deal' = "none"
-----------------------------------------------------------------------------
(* The kernel finishes a connection attempt. *)
Resolve(outcome) ==
    /\ conn = "pending" /\ conn' = outcome
    /\ UNCHANGED <<fd, state, handler, timeout, watching, pending, armed,
                   deal, crashed, calls, habits>>

(* The loop finds the descriptor ready. *)
IoReady ==
    /\ crashed = "no" /\ "io" \in watching \ pending
    /\ fd = "open" /\ conn # "pending"
    /\ pending' = pending \cup {"io"}
    /\ UNCHANGED <<fd, state, handler, timeout, watching, conn, armed, deal,
                   crashed, calls, habits>>

(* The loop finds the timer expired; a one-shot timer stops. *)
TimerExpires ==
    /\ crashed = "no" /\ "timer" \in watching
    /\ watching' = watching \ {"timer"} /\ pending' = pending \cup {"timer"}
    /\ deal' = "expired"
    /\ UNCHANGED <<fd, state, handler, timeout, conn, armed, crashed, calls, habits>>

(* handler_ is called if there is one, which settles the deal. *)
CallBack == deal' = IF handler = "set" THEN "none" ELSE deal

(* Mutant: the timer runs on when an event is dispatched. *)
IoKeepsTimer ==
    /\ crashed = "no" /\ "io" \in pending /\ state # "Connecting"
    /\ pending' = pending \ {"io"}
    /\ crashed' = IF state = "Handshake" /\ handler = "empty" THEN "yes" ELSE "no"
    /\ CallBack
    /\ UNCHANGED <<fd, state, handler, timeout, watching, conn, armed, calls, habits>>

(* io() on a socket that is not connecting: the timer is stopped, and the  *)
(* handler called; Handshake does not ask whether there is one.            *)
Io ==
    /\ crashed = "no" /\ "io" \in pending /\ state # "Connecting"
    /\ pending' = {} /\ watching' = watching \ {"timer"}
    /\ crashed' = IF state = "Handshake" /\ handler = "empty" THEN "yes" ELSE "no"
    /\ CallBack
    /\ UNCHANGED <<fd, state, handler, timeout, conn, armed, calls, habits>>

(* Mutant: stop() moves the handler away before it is called. *)
ConnectCompleteMoved ==
    /\ crashed = "no" /\ "io" \in pending /\ state = "Connecting"
    /\ pending' = {} /\ watching' = {} /\ armed' = "no"
    /\ IF conn = "failed" \/ fd # "open" THEN Shut
       ELSE state' = "Operational" /\ UNCHANGED <<fd, conn>>
    /\ handler' = "empty"
    /\ UNCHANGED <<timeout, deal, crashed, calls, habits>>

(* Mutant: whatever SO_ERROR says, the socket is operational. *)
ConnectCompleteBlind ==
    /\ crashed = "no" /\ "io" \in pending /\ state = "Connecting"
    /\ pending' = {} /\ watching' = {} /\ armed' = "no"
    /\ state' = "Operational"
    /\ CallBack
    /\ UNCHANGED <<fd, conn, handler, timeout, crashed, calls, habits>>

(* io() on a connecting socket: onConnectComplete() stops both watchers,   *)
(* asks for SO_ERROR (0 also while the attempt is in progress) and calls   *)
(* back with CONNECTED.  getsockopt() fails without a descriptor, which a  *)
(* refused open() of a connecting socket leaves, and so does close() then: *)
(* the state stays Connecting.                                             *)
ConnectComplete ==
    /\ crashed = "no" /\ "io" \in pending /\ state = "Connecting"
    /\ pending' = {} /\ watching' = {} /\ armed' = "no"
    /\ IF conn = "failed" \/ fd # "open" THEN Shut
       ELSE state' = "Operational" /\ UNCHANGED <<fd, conn>>
    /\ CallBack
    /\ UNCHANGED <<handler, timeout, crashed, calls, habits>>

(* Mutant: the I/O watcher goes on after the timeout. *)
TimeoutKeepsIo ==
    /\ crashed = "no" /\ "timer" \in pending
    /\ pending' = {} /\ watching' = watching \ {"timer"}
    /\ armed' = "no" /\ crashed' = IF handler = "empty" THEN "yes" ELSE "no"
    /\ CallBack
    /\ UNCHANGED <<fd, state, handler, timeout, conn, calls, habits>>

(* timeout(): both watchers are stopped and handler_ called, if set or not. *)
Timeout ==
    /\ crashed = "no" /\ "timer" \in pending
    /\ pending' = {} /\ watching' = {}
    /\ armed' = "no" /\ crashed' = IF handler = "empty" THEN "yes" ELSE "no"
    /\ CallBack
    /\ UNCHANGED <<fd, state, handler, timeout, conn, calls, habits>>

Dispatch == Io \/ ConnectComplete \/ Timeout

Next ==
    \/ Open \/ OpenRefused \/ OpenUnflagged \/ Close
    \/ \E t \in {0, 1} : On(t) \/ Watch(t)
    \/ Restart \/ Stop \/ Destroy
    \/ \E outcome \in {"up", "failed"} : Resolve(outcome)
    \/ IoReady \/ TimerExpires \/ Dispatch

Spec == Init /\ [][Next]_vars

(* Time passes, and the loop dispatches what it has collected. *)
FairSpec == Spec /\ WF_vars(TimerExpires) /\ WF_vars(Dispatch)
-----------------------------------------------------------------------------
(* The handler hears of nothing unless the client has armed the socket     *)
(* since the last timeout, completed connect or stop(), whatever was       *)
(* pending then.                                                           *)
QuietUnlessArmed == [][Dispatch => armed = "yes"]_vars

(* An event settles the timeout: TIMEOUT never follows the event it was    *)
(* waiting for, however the two are queued, unless the client arms again.  *)
(* And it says that the latest timeout asked for has been reached          *)
(* (Socket.cpp:156-161), if the client makes no calls while it is pending. *)
TimeoutIsDue ==
    [][Timeout => deal # "none" /\ ("whilePending" \notin habits => deal = "expired")]_vars

(* A socket is Operational only when the kernel has connected it, if the   *)
(* client stops before it closes and opens closed sockets only.            *)
OperationalMeansConnected ==
    "closeWatched" \notin habits /\ "reopen" \notin habits /\ state = "Operational" => conn = "up"

(* No callback through an empty handler_, though timeout() and Handshake   *)
(* do not ask, unless the client watches before the first on().            *)
NoCrash == crashed = "yes" => "watchBare" \in habits

(* Socket.cpp:156: on() and watch() "will call back on either event or     *)
(* timeout expiry", unless the client calls it off.                        *)
CallsBack == deal = "waiting" /\ "watchBare" \notin habits ~> deal = "none"
=============================================================================
