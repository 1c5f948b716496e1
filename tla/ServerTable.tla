---------------------------- MODULE ServerTable -----------------------------
(***************************************************************************)
(* The state of the listening sockets of one process: the ServerSocket     *)
(* objects (include/xio/ServerSocket.h), the descriptor table, the socket  *)
(* files, and XZERO_LISTEN_FDS, through which a program image names its    *)
(* listeners to the next one; both ends of that.                           *)
(***************************************************************************)
EXTENDS Integers, Sequences, FiniteSets

CONSTANTS
    Servers,      \* the ServerSocket objects
    Inet, Unix,   \* addresses of InetServers and of UnixServers
    NoAddr,       \* ipaddr_ and port_, or path_, before the first bind()
    MaxFd,        \* bound: RLIMIT_NOFILE; descriptors are 3..MaxFd
    MaxConns,     \* bound: connections that are made, by peers or by us
    MaxExecs,     \* bound: calls of exec
    Applications  \* records of what an application does (habits), of the
                  \* addresses systemd listens on for it, from fd 3 on (sd),
                  \* and of the flags it passes to open() (flags)

(* What some applications do: open() of an address that this image opened  *)
(* before; clone(); close() on a server that is not open;                  *)
(* setNonBlocking(false); exec; a SocketDriver of its own and connections  *)
(* made with it; setReusePort(true).                                       *)
Habits == {"reopen", "clone", "closeTwice", "blocking", "exec", "driver", "reuse"}

Addrs == Inet \cup Unix
Fds == 3..MaxFd
Flags == {"cloexec", "nonblock", "async"}

ASSUME ServerAssumption ==
    /\ IsFiniteSet(Servers) /\ Servers \cap {"own", "none"} = {}
    /\ Inet \cap Unix = {} /\ NoAddr \notin Addrs /\ "any" \notin Addrs \cup {NoAddr}
    /\ MaxFd \in Nat /\ MaxConns \in Nat /\ MaxExecs \in Nat
    /\ \A app \in Applications :
          /\ app.habits \subseteq Habits /\ app.flags \subseteq SUBSET Flags
          /\ app.sd \in Seq(Addrs) /\ 2 + Len(app.sd) <= MaxFd

VARIABLES
    app,       \* the application, which never changes
    srv,       \* the objects' fields; asked and cloned are history
    table,     \* the process' descriptors
    files,     \* the socket files that exist
    env,       \* XZERO_LISTEN_FDS, a sequence of entries, which are sequences
    drivers,   \* the SocketDriver objects that exist
    clients,   \* descriptors of the accepted Socket objects
    pending,   \* servers whose io_ event is collected and not dispatched
    blocked,   \* the server whose accept() does not return, or "none"
    opened,    \* history: addresses this image called open() with
    missed,    \* history: "yes" once systemd had no socket for an address
    conns, execs

vars == <<app, srv, table, files, env, drivers, clients, pending, blocked, opened,
          missed, conns, execs>>

Closed == [kind |-> "closed", addr |-> NoAddr, flags |-> {}, queue |-> 0]
Listener(a, flags) == [kind |-> "listen", addr |-> a, flags |-> flags, queue |-> 0]

(* ServerSocket(loop) as the object s; kind is the class.  The driver it   *)
(* allocates has the name of the object; the application's own is "own".   *)
Fresh(s, kind) ==
    [alive |-> "yes", kind |-> kind, fd |-> -1, addr |-> NoAddr, flags |-> {},
     reuse |-> "no", active |-> "no", driver |-> s,
     asked |-> {}, cloned |-> "no"]
Dead == [Fresh("none", "inet") EXCEPT !.alive = "no"]
Drivers == Servers \cup {"own"}

Objects ==
    [alive : {"yes", "no"}, kind : {"inet", "unix"}, fd : Fds \cup {-1},
     addr : Addrs \cup {NoAddr}, flags : SUBSET Flags, reuse : {"yes", "no"},
     active : {"yes", "no"}, driver : Drivers \cup {"none"},
     asked : SUBSET Flags, cloned : {"yes", "no"}]

Descriptors ==
    [kind : {"closed", "listen", "client"}, addr : Addrs \cup {NoAddr},
     flags : SUBSET (Flags \cup {"reuse"}), queue : 0..MaxConns]

TypeOK ==
    /\ app \in Applications /\ missed \in {"yes", "no"}
    /\ srv \in [Servers -> Objects] /\ table \in [Fds -> Descriptors]
    /\ files \in SUBSET Unix
    /\ \A i \in 1..Len(env) : env[i][Len(env[i])] \in Fds
    /\ drivers \in SUBSET Drivers
    /\ clients \in SUBSET Fds /\ pending \in SUBSET Servers
    /\ blocked \in Servers \cup {"none"}
    /\ opened \in SUBSET (Addrs \cup {NoAddr})
    /\ conns \in 0..MaxConns /\ execs \in 0..MaxExecs

SdFds == 3..(2 + Len(app.sd))
-----------------------------------------------------------------------------
(* The descriptor, the token at position at, of the first entry that       *)
(* begins with name, if it is a socket, or -1                              *)
FirstListed(t, name, at) ==
    LET hits == {i \in 1..Len(env) : SubSeq(env[i], 1, Len(name)) = name} IN
    IF hits = {} THEN -1
    ELSE LET fd == env[CHOOSE i \in hits : \A j \in hits : i <= j][at]
         IN  IF t[fd].kind = "closed" THEN -1 ELSE fd

(* getSocketInet(address, port) *)
getSocketInet(t, a) == FirstListed(t, <<"any", a>>, 3)

(* getSocketUnix(path) *)
getSocketUnix(t, a) == FirstListed(t, <<a>>, 2)

Inherited(t, a) == IF a \in Inet THEN getSocketInet(t, a) ELSE getSocketUnix(t, a)

(* The kernel hands out the lowest free descriptor. *)
Free(t) == {f \in Fds : t[f].kind = "closed"}
NewFd(t) == CHOOSE f \in Free(t) : \A g \in Free(t) : f <= g
-----------------------------------------------------------------------------
Run == blocked = "none"

(* serialize() of every server whose descriptor survives exec, in the      *)
(* order in which the application keeps them.                              *)
Passed == {s \in Servers : srv[s].fd # -1 /\ "cloexec" \notin table[srv[s].fd].flags}

serialize(s) == IF srv[s].kind = "inet" THEN <<"any", srv[s].addr, srv[s].fd>>
                                        ELSE <<srv[s].addr, srv[s].fd>>

(* The application sets XZERO_LISTEN_FDS and replaces its program image. *)
Exec ==
    /\ Run /\ "exec" \in app.habits /\ execs < MaxExecs
    /\ \E order \in [1..Cardinality(Passed) -> Passed] :
          /\ \A s \in Passed : \E i \in DOMAIN order : order[i] = s
          /\ env' = [i \in DOMAIN order |-> serialize(order[i])]
    /\ table' = [f \in Fds |-> IF "cloexec" \in table[f].flags THEN Closed ELSE table[f]]
    /\ srv' = [s \in Servers |-> Dead]
    /\ drivers' = {} /\ clients' = {} /\ pending' = {} /\ opened' = {}
    /\ execs' = execs + 1
    /\ UNCHANGED <<app, files, blocked, missed, conns>>
-----------------------------------------------------------------------------
IsOpen(s) == srv[s].fd # -1

(* The application asked open() of the server with fields o for a listener *)
(* that does not block.  A clone blocks whatever was asked of its original *)
(* (InetServer.cpp:114 and 141, UnixServer.cpp:100 and 126).               *)
Promised(o) == "nonblock" \in o.asked /\ o.cloned = "no"

(* Applications that open an address once in the life of an image; and     *)
(* those to which a listener is not passed twice: they make all of their   *)
(* listeners themselves, or open an address once, and get listeners from   *)
(* systemd or from the image before, not from both.                        *)
OpensOnce == app.habits \cap {"reopen", "clone"} = {}
OnItsOwn == app.sd = <<>> /\ "exec" \notin app.habits
Unshared == OnItsOwn \/ (OpensOnce /\ (app.sd = <<>> \/ "exec" \notin app.habits))
=============================================================================
