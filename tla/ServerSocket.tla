---------------------------- MODULE ServerSocket ----------------------------
(***************************************************************************)
(* The listening sockets of one process (lib/ServerSocket.cpp,             *)
(* lib/InetServer.cpp, lib/UnixServer.cpp): objects on one libev loop, the *)
(* descriptor table they share with the accepted clients, the socket files *)
(* of UNIX servers, and how listeners come from systemd or pass from one   *)
(* program image to the next through exec and XZERO_LISTEN_FDS.            *)
(*                                                                         *)
(* An address of Inet is a port of the IPv4 wildcard address: bind() does  *)
(* not fill in sin_family, and the kernel takes no other address then.     *)
(* HAVE_ACCEPT4 and WITH_MULTI_ACCEPT are not defined by any build.        *)
(***************************************************************************)
EXTENDS ServerOpen

Init ==
    /\ app \in Applications
    /\ srv = [s \in Servers |-> Dead]
    /\ table = [f \in Fds |-> IF f \in SdFds THEN Listener(app.sd[f - 2], {}) ELSE Closed]
    /\ files = {app.sd[i] : i \in 1..Len(app.sd)} \cap Unix
    /\ drivers = IF "driver" \in app.habits THEN {"own"} ELSE {}
    /\ env = <<>> /\ clients = {} /\ pending = {} /\ blocked = "none"
    /\ opened = {} /\ missed = "no" /\ conns = 0 /\ execs = 0
-----------------------------------------------------------------------------
Create(s, kind) ==
    /\ Run /\ srv[s].alive = "no"
    /\ srv' = [srv EXCEPT ![s] = Fresh(s, kind)]
    /\ drivers' = drivers \cup {s}
    /\ UNCHANGED <<app, table, files, env, clients, pending, blocked, opened, missed, conns, execs>>

(* setReusePort(true) asserts that the server is not open. *)
SetReusePort(s) ==
    /\ Run /\ "reuse" \in app.habits
    /\ srv[s].alive = "yes" /\ srv[s].kind = "inet" /\ srv[s].fd = -1
    /\ srv' = [srv EXCEPT ![s].reuse = "yes"]
    /\ UNCHANGED <<app, table, files, env, drivers, clients, pending,
                   blocked, opened, missed, conns, execs>>

(* start() asserts that the watcher is not active, so clients call open()  *)
(* on a server that is not open.                                           *)
Open(s, a, flags) ==
    /\ Run /\ srv[s].alive = "yes" /\ srv[s].fd = -1
    /\ a \in IF srv[s].kind = "inet" THEN Inet ELSE Unix
    /\ a \notin opened \/ "reopen" \in app.habits
    /\ DoOpen(s, [srv[s] EXCEPT !.asked = flags, !.cloned = "no"], a, flags)
    /\ opened' = opened \cup {a}
    /\ UNCHANGED <<app, env, drivers, clients, pending, blocked, conns, execs>>

(* t = s.clone(loop), of a server that has an address.  The application    *)
(* asks for what it asked of s; what open() gets is flags_, from which     *)
(* O_CLOEXEC and O_NONBLOCK are gone.                                      *)
Clone(s, t) ==
    /\ Run /\ "clone" \in app.habits
    /\ srv[s].alive = "yes" /\ srv[s].addr # NoAddr /\ srv[t].alive = "no"
    /\ LET o == [Fresh(t, srv[s].kind) EXCEPT !.reuse = srv[s].reuse,
                                               !.asked = srv[s].asked, !.cloned = "yes"]
       IN  DoOpen(t, o, srv[s].addr, srv[s].flags)
    /\ opened' = opened \cup {srv[s].addr}
    /\ drivers' = drivers \cup {t}
    /\ UNCHANGED <<app, env, clients, pending, blocked, conns, execs>>

Start(s) ==
    /\ Run /\ srv[s].alive = "yes" /\ srv[s].fd # -1 /\ srv[s].active = "no"
    /\ srv' = [srv EXCEPT ![s].active = "yes"]
    /\ UNCHANGED <<app, table, files, env, drivers, clients, pending,
                   blocked, opened, missed, conns, execs>>

Stop(s) ==
    /\ Run /\ srv[s].active = "yes"
    /\ srv' = [srv EXCEPT ![s].active = "no"]
    /\ pending' = pending \ {s}
    /\ UNCHANGED <<app, table, files, env, drivers, clients, blocked, opened, missed, conns, execs>>

(* ServerSocket::close() on fields o *)
BaseClose(o) == IF o.fd = -1 THEN Result(o, table, files)
                ELSE Failed([o EXCEPT !.active = "no"], table, files)

(* Mutant: the base class' close() is called, and the file stays. *)
CloseKeepsFile(s) ==
    /\ Run /\ srv[s].alive = "yes" /\ (srv[s].fd # -1 \/ "closeTwice" \in app.habits)
    /\ Becomes(s, BaseClose(srv[s]))
    /\ pending' = pending \ {s}
    /\ UNCHANGED <<app, env, drivers, clients, blocked, opened, missed, conns, execs>>

(* InetServer::close() and UnixServer::close() *)
Close(s) ==
    /\ Run /\ srv[s].alive = "yes" /\ (srv[s].fd # -1 \/ "closeTwice" \in app.habits)
    /\ LET r == BaseClose(srv[s]) IN
       IF srv[s].kind = "inet" THEN Becomes(s, [r EXCEPT !.o.reuse = "no"])
                               ELSE Becomes(s, [r EXCEPT !.files = @ \ {srv[s].addr}])
    /\ pending' = pending \ {s}
    /\ UNCHANGED <<app, env, drivers, clients, blocked, opened, missed, conns, execs>>

(* delete s: the destructor runs the base class' close() and deletes the   *)
(* driver.                                                                 *)
Delete(s) ==
    /\ Run /\ srv[s].alive = "yes"
    /\ Becomes(s, [BaseClose(srv[s]) EXCEPT !.o = Dead])
    /\ drivers' = drivers \ {srv[s].driver}
    /\ pending' = pending \ {s}
    /\ UNCHANGED <<app, env, clients, blocked, opened, missed, conns, execs>>

(* setSocketDriver(d), which takes the driver over, the one that s has     *)
(* included                                                                *)
SetSocketDriver(s, d) ==
    /\ Run /\ srv[s].alive = "yes" /\ "driver" \in app.habits
    /\ d \in drivers /\ \A t \in Servers \ {s} : srv[t].driver # d
    /\ drivers' = IF srv[s].driver = d THEN drivers ELSE drivers \ {srv[s].driver}
    /\ srv' = [srv EXCEPT ![s].driver = d]
    /\ UNCHANGED <<app, table, files, env, clients, pending, blocked, opened, missed, conns, execs>>

(* SocketDriver::create(loop, ipaddr, port): the descriptor of a           *)
(* connection that is not made is closed, and the table does not change.   *)
DriverConnects ==
    /\ Run /\ "driver" \in app.habits /\ "own" \in drivers /\ Free(table) # {}
    /\ conns < MaxConns /\ conns' = conns + 1
    /\ clients' = clients \cup {NewFd(table)}
    /\ table' = [table EXCEPT ![NewFd(table)] =
                     [kind |-> "client", addr |-> NoAddr, flags |-> {}, queue |-> 0]]
    /\ UNCHANGED <<app, srv, files, env, drivers, pending, blocked, opened, missed, execs>>

(* setCloseOnExec(false): the application prepares to hand the listener on. *)
KeepOnExec(s) ==
    /\ Run /\ srv[s].fd # -1 /\ "exec" \in app.habits
    /\ table' = [table EXCEPT ![srv[s].fd].flags = @ \ {"cloexec"}]
    /\ UNCHANGED <<app, srv, files, env, drivers, clients, pending, blocked,
                   opened, missed, conns, execs>>

(* setNonBlocking(false) *)
SetBlocking(s) ==
    /\ Run /\ srv[s].fd # -1 /\ "blocking" \in app.habits
    /\ table' = [table EXCEPT ![srv[s].fd].flags = @ \ {"nonblock"}]
    /\ srv' = [srv EXCEPT ![s].asked = @ \ {"nonblock"}]
    /\ UNCHANGED <<app, files, env, drivers, clients, pending, blocked,
                   opened, missed, conns, execs>>
-----------------------------------------------------------------------------
(* libev: one iteration collects the servers with something to accept, and *)
(* runs when the events of the last one are dispatched.                    *)
Ready == {s \in Servers : srv[s].active = "yes" /\ table[srv[s].fd].queue > 0}

Poll ==
    /\ Run /\ pending = {} /\ Ready # {}
    /\ pending' = Ready
    /\ UNCHANGED <<app, srv, table, files, env, drivers, clients, blocked,
                   opened, missed, conns, execs>>

(* accept() takes a connection from f; the client gets flags_ with F_SETFL, *)
(* and is closed when that fails.                                          *)
TakeClient(o) ==
    LET rest == [table EXCEPT ![o.fd].queue = @ - 1] IN
    \/ /\ table' = [rest EXCEPT ![NewFd(table)] =
                        [kind |-> "client", addr |-> table[o.fd].addr,
                         flags |-> o.flags, queue |-> 0]]
       /\ clients' = clients \cup {NewFd(table)}
    \/ /\ o.flags # {}
       /\ table' = rest
       /\ UNCHANGED clients

(* Mutant: EAGAIN is retried before the loop goes on. *)
AcceptRetries(s) ==
    LET l == table[srv[s].fd] IN
    /\ \/ Run /\ s \in pending
       \/ blocked = s /\ l.queue > 0
    /\ pending' = IF Run /\ l.queue = 0 THEN pending ELSE pending \ {s}
    /\ IF l.kind # "listen" \/ (l.queue > 0 /\ Free(table) = {})
       THEN blocked' = "none" /\ UNCHANGED <<table, clients>>
       ELSE IF l.queue > 0 THEN blocked' = "none" /\ TakeClient(srv[s])
       ELSE /\ blocked' = IF "nonblock" \in l.flags THEN "none" ELSE s
            /\ UNCHANGED <<table, clients>>
    /\ UNCHANGED <<app, srv, files, env, drivers, opened, missed, conns, execs>>

(* accept(ev::io&, int), handleOne() and acceptOne(), with the callback of *)
(* an application that keeps the client; io_ is level-triggered, so a      *)
(* connection that finds the table full is tried again.                    *)
Accept(s) ==
    LET l == table[srv[s].fd] IN
    /\ \/ Run /\ s \in pending
       \/ blocked = s /\ l.queue > 0
    /\ pending' = pending \ {s}
    /\ IF l.kind # "listen" \/ (l.queue > 0 /\ Free(table) = {})
       THEN blocked' = "none" /\ UNCHANGED <<table, clients>>
       ELSE IF l.queue > 0 THEN blocked' = "none" /\ TakeClient(srv[s])
       ELSE /\ blocked' = IF "nonblock" \in l.flags THEN "none" ELSE s
            /\ UNCHANGED <<table, clients>>
    /\ UNCHANGED <<app, srv, files, env, drivers, opened, missed, conns, execs>>

(* The application deletes the Socket around f. *)
CloseClient(f) ==
    /\ Run /\ f \in clients
    /\ clients' = clients \ {f}
    /\ table' = [table EXCEPT ![f] = Closed]
    /\ UNCHANGED <<app, srv, files, env, drivers, pending, blocked, opened, missed, conns, execs>>

(* A peer connects; a peer gives up before it is accepted. *)
Connect(f) ==
    /\ table[f].kind = "listen" /\ conns < MaxConns
    /\ table[f].addr \in Unix => table[f].addr \in files
    /\ table' = [table EXCEPT ![f].queue = @ + 1]
    /\ conns' = conns + 1
    /\ UNCHANGED <<app, srv, files, env, drivers, clients, pending, blocked, opened, missed, execs>>

PeerAborts(f) ==
    /\ table[f].queue > 0
    /\ table' = [table EXCEPT ![f].queue = @ - 1]
    /\ UNCHANGED <<app, srv, files, env, drivers, clients, pending, blocked,
                   opened, missed, conns, execs>>

Application ==
    \/ \E s \in Servers :
          \/ \E kind \in {"inet", "unix"} : Create(s, kind)
          \/ SetReusePort(s) \/ Start(s) \/ Stop(s) \/ Close(s) \/ Delete(s)
          \/ KeepOnExec(s) \/ SetBlocking(s)
          \/ \E a \in Addrs, flags \in app.flags : Open(s, a, flags)
          \/ \E t \in Servers : Clone(s, t)
          \/ \E d \in Drivers : SetSocketDriver(s, d)
    \/ DriverConnects
    \/ Exec

Loop == Poll \/ \E s \in Servers : Accept(s)

Next ==
    \/ Application \/ Loop
    \/ \E f \in Fds : CloseClient(f) \/ Connect(f) \/ PeerAborts(f)

Spec == Init /\ [][Next]_vars

(* The loop runs, and the application gets done with its clients. *)
FairSpec ==
    /\ Spec
    /\ WF_vars(Loop) /\ WF_vars(\E f \in Fds : CloseClient(f))
-----------------------------------------------------------------------------
(* Whatever open() failures, clones, accepts and reuse of descriptor       *)
(* numbers come in between: every open server holds a listening descriptor *)
(* and every Socket a connected one, and no two hold the same, unless      *)
(* open() was called for an address that systemd had no socket for, or a   *)
(* listener could be passed twice.  The SocketDriver that accept() goes    *)
(* through exists and is no other's.                                       *)
OwnersValid ==
    /\ Unshared /\ missed = "no" =>
          /\ \A s \in Servers : IsOpen(s) => table[srv[s].fd].kind = "listen"
          /\ \A f \in clients : table[f].kind = "client"
          /\ \A s, t \in Servers : IsOpen(s) /\ srv[s].fd = srv[t].fd => s = t
    /\ \A s \in Servers : srv[s].alive = "yes" =>
          srv[s].driver \in drivers /\ \A t \in Servers \ {s} : srv[t].driver # srv[s].driver

(* Nothing is lost: a listener that is open in the process is held by a    *)
(* server, or open() of its address still finds it; that goes for one      *)
(* exec, since a listener that was inherited has no address to pass on,    *)
(* and for one listener per address, since only the first entry is found.  *)
(* Drivers go with their servers (ServerSocket.cpp:136).                   *)
NoOrphan ==
    /\ OpensOnce \/ "exec" \notin app.habits =>
          \A f \in Fds : execs < 2 /\ table[f].kind = "listen" =>
              \/ \E s \in Servers : srv[s].fd = f
              \/ Inherited(table, table[f].addr) = f
              \/ f \in SdFds
    /\ \A d \in drivers \ {"own"} : \E s \in Servers : srv[s].driver = d

(* A UNIX socket that listens can be reached: its file is there, whoever   *)
(* closes what.  An application that opens a path again must not close() a *)
(* server that is not open, nor get listeners from elsewhere: a server     *)
(* would remove the file of the path that it had before.                   *)
FileStays ==
    OpensOnce \/ (OnItsOwn /\ "closeTwice" \notin app.habits) =>
        \A f \in Fds : table[f].kind = "listen" /\ table[f].addr \in Unix =>
            table[f].addr \in files

(* A UNIX listener ends with its socket file, so that the path can be      *)
(* opened again: no step of an application that makes its listeners itself *)
(* closes one and leaves the file the kernel has for it, but for the       *)
(* destructor of its server, which only runs the base class' close().      *)
FileGoesWithListener ==
    [][OnItsOwn =>
          \A f \in Fds :
              /\ table[f].kind = "listen" /\ table[f].addr \in Unix
              /\ table'[f].kind # "listen"
              => \/ table[f].addr \notin files'
                 \/ \E s \in Servers : srv[s].fd = f /\ srv'[s].alive = "no"]_vars

(* accept() does not hang the loop when O_NONBLOCK was asked for, though   *)
(* the peer may be gone by the time the event is dispatched; with the      *)
(* exceptions of OwnersValid, and of a clone, which never gets the flag    *)
(* that its original was opened with.                                      *)
LoopNeverHangs ==
    Unshared /\ missed = "no" /\ blocked # "none" => ~Promised(srv[blocked])

(* A connection that waits at a watched listener is accepted, unless the   *)
(* application stops watching, the peer gives up, accept() hangs on a      *)
(* listener that was left blocking, or descriptors are lost: accepted      *)
(* sockets do not get O_CLOEXEC, and nobody has those from before an exec. *)
Waiting(s) == srv[s].active = "yes" /\ table[srv[s].fd].queue > 0
Hung == blocked # "none" /\ ~Promised(srv[blocked])
Leaked == \E f \in Fds \ clients : table[f].kind = "client"
Served == \A s \in Servers : Waiting(s) ~> ~Waiting(s) \/ Hung \/ Leaked
=============================================================================
