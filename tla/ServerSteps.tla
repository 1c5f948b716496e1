---------------------------- MODULE ServerSteps -----------------------------
(***************************************************************************)
(* Every step of ServerSocket has one of the effects of ServerEffects,     *)
(* keeps the types, and leaves drivers with their servers.                 *)
(***************************************************************************)
EXTENDS ServerSocket, ServerOpenProofs

(* What a step does that only touches fields of the server s: they become  *)
(* those of o.                                                             *)
Refreshed(s, o) ==
    /\ Run /\ UNCHANGED <<app, env, execs, files, clients, opened, missed, table, conns, blocked>>
    /\ o \in Objects /\ srv' = [srv EXCEPT ![s] = o]
    /\ o.fd = srv[s].fd /\ o.addr = srv[s].addr
    /\ (Promised(o) <=> Promised(srv[s])) \/ srv[s].fd = -1
    /\ Fields(o)
    /\ pending' \subseteq pending /\ (s \in pending' => o.active = "yes")
    /\ drivers' \in SUBSET Drivers

(* Such a step moves no descriptor and no file. *)
LEMMA RefreshedEffect ==
    ASSUME Shape, NEW s \in Servers, NEW o, Refreshed(s, o)
    PROVE  Shape' /\ Steady
<1>1. srv' \in [Servers -> Objects] /\ srv'[s] = o /\ \A r \in Servers \ {s} : srv'[r] = srv[r]
    BY Parts DEF Refreshed
<1>2. /\ Run /\ UNCHANGED <<app, env, execs, files, clients, opened, missed, table, conns, blocked>>
      /\ Fields(o) /\ pending' \subseteq pending /\ (s \in pending' => o.active = "yes")
      /\ drivers' \in SUBSET Drivers
      /\ o.fd = srv[s].fd /\ o.addr = srv[s].addr
      /\ (Promised(o) <=> Promised(srv[s])) \/ srv[s].fd = -1
    BY DEF Refreshed
<1>3. Shape'
  <2>1. opened \in SUBSET (Addrs \cup {NoAddr}) /\ missed \in {"yes", "no"}
        /\ (app.sd = <<>> => missed = "no")
      BY DEF Shape, TypeOK
  <2> QED
      BY <1>1, <1>2, <2>1, Parts, ServerShape
<1>4. Steady
    BY <1>1, <1>2 DEF Steady, Constant
<1> QED
    BY <1>3, <1>4

(* A new server, and what only touches one server's fields. *)
LEMMA FieldsEffect ==
    ASSUME Shape, NEW s \in Servers,
           \/ \E kind \in {"inet", "unix"} : Create(s, kind)
           \/ SetReusePort(s) \/ Start(s) \/ Stop(s)
           \/ \E d \in Drivers : SetSocketDriver(s, d)
    PROVE  Shape' /\ Steady
<1>1. srv[s] \in Objects /\ Fields(srv[s]) /\ drivers \in SUBSET Drivers
      /\ pending \in SUBSET Servers /\ \A r \in pending : srv[r].active = "yes"
    BY Parts
<1> SUFFICES \E o : Refreshed(s, o)
    BY RefreshedEffect
<1>2. ASSUME NEW kind \in {"inet", "unix"}, Create(s, kind) PROVE Refreshed(s, Fresh(s, kind))
  <2>1. /\ Fresh(s, kind) \in Objects /\ Fields(Fresh(s, kind))
        /\ srv[s].fd = -1 /\ srv[s].addr = NoAddr /\ srv[s].active = "no"
        /\ Fresh(s, kind).fd = -1 /\ Fresh(s, kind).addr = NoAddr
      BY <1>1, <1>2 DEF Create, Objects, Fresh, Drivers, Fields
  <2> QED
      BY <1>1, <1>2, <2>1 DEF Create, Refreshed, Drivers
<1>3. CASE SetReusePort(s)
  <2> DEFINE o == [srv[s] EXCEPT !.reuse = "yes"]
  <2>1. /\ o \in Objects /\ Fields(o) /\ o.fd = srv[s].fd /\ o.addr = srv[s].addr
        /\ (Promised(o) <=> Promised(srv[s])) /\ o.active = srv[s].active
      BY <1>1 DEF Objects, Fields, Promised
  <2> QED
      BY Zenon, <1>1, <1>3, <2>1 DEF SetReusePort, Refreshed
<1>4. CASE Start(s)
  <2> DEFINE o == [srv[s] EXCEPT !.active = "yes"]
  <2>1. /\ o \in Objects /\ Fields(o) /\ o.fd = srv[s].fd /\ o.addr = srv[s].addr
        /\ (Promised(o) <=> Promised(srv[s])) /\ o.active = "yes"
      BY <1>1, <1>4 DEF Start, Objects, Fields, Promised
  <2> QED
      BY Zenon, <1>1, <1>4, <2>1 DEF Start, Refreshed
<1>5. CASE Stop(s)
  <2> DEFINE o == [srv[s] EXCEPT !.active = "no"]
  <2>1. /\ o \in Objects /\ Fields(o) /\ o.fd = srv[s].fd /\ o.addr = srv[s].addr
        /\ (Promised(o) <=> Promised(srv[s]))
      BY <1>1 DEF Objects, Fields, Promised
  <2> QED
      BY Zenon, <1>1, <1>5, <2>1 DEF Stop, Refreshed
<1>6. ASSUME NEW d \in Drivers, SetSocketDriver(s, d) PROVE \E o : Refreshed(s, o)
  <2> DEFINE o == [srv[s] EXCEPT !.driver = d]
  <2>1. /\ o \in Objects /\ Fields(o) /\ o.fd = srv[s].fd /\ o.addr = srv[s].addr
        /\ (Promised(o) <=> Promised(srv[s])) /\ o.active = srv[s].active
      BY <1>1, <1>6 DEF SetSocketDriver, Objects, Fields, Promised
  <2> QED
      BY Zenon, <1>1, <1>6, <2>1 DEF SetSocketDriver, Refreshed
<1> QED
    BY <1>2, <1>3, <1>4, <1>5, <1>6

(* What the base class' close() leaves. *)
LEMMA BaseCloses ==
    ASSUME Shape, NEW s \in Servers, NEW r, r = BaseClose(srv[s])
    PROVE  /\ r.o \in Objects /\ r.o.fd = -1 /\ r.o.addr = srv[s].addr /\ r.o.kind = srv[s].kind
           /\ r.o.alive = srv[s].alive /\ r.o.active = "no" /\ r.o.driver = srv[s].driver
           /\ r.table \in [Fds -> Descriptors]
           /\ srv[s].fd # -1 => r.table[srv[s].fd] = Closed
           /\ \A f \in Fds \ {srv[s].fd} : r.table[f] = table[f]
           /\ r.files = files /\ DOMAIN r = {"o", "table", "files"}
<1>1. srv[s] \in Objects /\ Fields(srv[s]) /\ table \in [Fds -> Descriptors]
    BY Parts
<1>2. CASE srv[s].fd = -1
  <2>1. r = [o |-> srv[s], table |-> table, files |-> files]
      BY <1>2 DEF BaseClose, Result
  <2>2. srv[s].active = "no"
      BY <1>1, <1>2 DEF Fields, Objects
  <2> QED
      BY <1>1, <1>2, <2>1, <2>2
<1>3. CASE srv[s].fd # -1
  <2> DEFINE o1 == [srv[s] EXCEPT !.active = "no"]
             o2 == [o1 EXCEPT !.fd = -1]
             t2 == IF o1.fd \in Fds THEN [table EXCEPT ![o1.fd] = Closed] ELSE table
  <2>1. r = [o |-> o2, table |-> t2, files |-> files]
      BY <1>3 DEF BaseClose, Failed, Result
  <2>2. o1 \in Objects /\ o1.fd = srv[s].fd /\ o1.fd \in Fds /\ o1.addr = srv[s].addr
        /\ o1.kind = srv[s].kind /\ o1.alive = srv[s].alive /\ o1.active = "no"
        /\ o1.driver = srv[s].driver
      BY <1>1, <1>3 DEF Objects
  <2> HIDE DEF o1
  <2>3. o2 \in Objects /\ o2.fd = -1 /\ o2.addr = srv[s].addr
        /\ o2.kind = srv[s].kind /\ o2.alive = srv[s].alive /\ o2.active = "no"
        /\ o2.driver = srv[s].driver
      BY <2>2 DEF Objects
  <2>4. Closed \in Descriptors
      BY ServerAssumption DEF Closed, Descriptors
  <2>5. t2 \in [Fds -> Descriptors] /\ t2[srv[s].fd] = Closed
        /\ \A f \in Fds \ {srv[s].fd} : t2[f] = table[f]
      BY <1>1, <2>2, <2>4
  <2> HIDE DEF o2, t2
  <2> QED
      BY <2>1, <2>3, <2>5
<1> QED
    BY <1>2, <1>3

(* What close() and the destructor do to the server s, which becomes o. *)
LetsGo(s, o) ==
    /\ o \in Objects /\ srv' = [srv EXCEPT ![s] = o]
    /\ table' = BaseClose(srv[s]).table
    /\ files' \in {files, files \ {srv[s].addr}}
    /\ files' # files => srv[s].fd # -1 \/ "closeTwice" \in app.habits
    /\ o.fd = -1 /\ o.active = "no"
    /\ \/ o.addr = srv[s].addr /\ o.kind = srv[s].kind /\ o.alive = "yes"
          /\ srv[s].addr \notin files'
       \/ o.addr = NoAddr /\ o.driver = "none" /\ o.alive = "no"

(* close() and the destructor are such steps. *)
LEMMA CloseLetsGo ==
    ASSUME Shape, NEW s \in Servers, Close(s) \/ Delete(s)
    PROVE  \E o : LetsGo(s, o)
<1> DEFINE r == BaseClose(srv[s])
<1>1. /\ r.o \in Objects /\ r.o.fd = -1 /\ r.o.addr = srv[s].addr /\ r.o.kind = srv[s].kind
      /\ r.o.alive = srv[s].alive /\ r.o.active = "no"
      /\ r.files = files /\ DOMAIN r = {"o", "table", "files"}
    BY BaseCloses
<1> HIDE DEF r
<1>2. CASE Close(s) /\ srv[s].kind = "inet"
  <2> DEFINE r2 == [r EXCEPT !.o.reuse = "no"]
             o  == [r.o EXCEPT !.reuse = "no"]
  <2>1. Becomes(s, r2) /\ srv[s].alive = "yes"
      BY <1>2 DEF Close, r
  <2>2. r2.o = o /\ r2.table = r.table /\ r2.files = files
      BY <1>1
  <2>3. o \in Objects /\ o.fd = -1 /\ o.addr = srv[s].addr /\ o.kind = srv[s].kind
        /\ o.alive = srv[s].alive /\ o.active = "no"
      BY <1>1 DEF Objects
  <2>4. srv[s].addr \notin files
      BY <1>2, Parts, ServerAssumption DEF Fields, Family, Addrs
  <2> HIDE DEF r2, o
  <2> QED
      BY Zenon, <2>1, <2>2, <2>3, <2>4 DEF Becomes, LetsGo, r
<1>3. CASE Close(s) /\ srv[s].kind # "inet"
  <2> DEFINE r2 == [r EXCEPT !.files = @ \ {srv[s].addr}]
  <2>1. /\ Becomes(s, r2) /\ srv[s].alive = "yes"
        /\ srv[s].fd # -1 \/ "closeTwice" \in app.habits
      BY <1>3 DEF Close, r
  <2>2. r2.o = r.o /\ r2.table = r.table /\ r2.files = files \ {srv[s].addr}
      BY <1>1
  <2> HIDE DEF r2
  <2> QED
      BY Zenon, <1>1, <2>1, <2>2 DEF Becomes, LetsGo, r
<1>4. CASE Delete(s)
  <2> DEFINE r2 == [r EXCEPT !.o = Dead]
  <2>1. Becomes(s, r2)
      BY <1>4 DEF Delete, r
  <2>2. r2.o = Dead /\ r2.table = r.table /\ r2.files = files
      BY <1>1
  <2>3. Dead \in Objects /\ Dead.fd = -1 /\ Dead.addr = NoAddr /\ Dead.active = "no"
        /\ Dead.driver = "none" /\ Dead.alive = "no"
      BY DEF Dead, Fresh, Objects
  <2> HIDE DEF r2
  <2> QED
      BY Zenon, <2>1, <2>2, <2>3 DEF Becomes, LetsGo, r
<1> QED
    BY <1>2, <1>3, <1>4

(* close() and the destructor *)
LEMMA ClosingEffect ==
    ASSUME Shape, NEW s \in Servers, Close(s) \/ Delete(s)
    PROVE  Shape' /\ Closing(s)
<1>1. PICK o : LetsGo(s, o)
    BY CloseLetsGo
<1> DEFINE r == BaseClose(srv[s])
<1>2. /\ r.table \in [Fds -> Descriptors]
      /\ srv[s].fd # -1 => r.table[srv[s].fd] = Closed
      /\ \A f \in Fds \ {srv[s].fd} : r.table[f] = table[f]
    BY BaseCloses
<1>3. /\ UNCHANGED <<app, env, execs, clients, opened, missed, conns, blocked>> /\ Run
      /\ pending' = pending \ {s} /\ drivers' \in SUBSET drivers
    BY DEF Close, Delete
<1>4. /\ srv' \in [Servers -> Objects] /\ srv'[s] = o /\ \A q \in Servers \ {s} : srv'[q] = srv[q]
      /\ table' = r.table
    BY <1>1, Parts DEF LetsGo
<1> HIDE DEF r
<1>5. Closing(s)
    BY <1>1, <1>2, <1>3, <1>4 DEF Closing, Constant, LetsGo
<1>6. Shape'
  <2>1. Fields(o) /\ files' \in SUBSET Unix
      BY <1>1, Parts DEF LetsGo, Fields
  <2>2. \A f \in Fds : Descriptor(table'[f], conns)
    <3>1. \A f \in Fds : table'[f] = Closed \/ table'[f] = table[f]
        BY <1>2, <1>4, ServerAssumption DEF Fds
    <3>2. Descriptor(Closed, conns)
        BY Parts DEF Descriptor, Closed
    <3> QED
        BY <3>1, <3>2, Parts
  <2>3. opened \in SUBSET (Addrs \cup {NoAddr}) /\ missed \in {"yes", "no"}
        /\ (app.sd = <<>> => missed = "no")
      BY DEF Shape, TypeOK
  <2> QED
      BY <1>2, <1>3, <1>4, <2>1, <2>2, <2>3, Parts, ServerShape
<1> QED
    BY <1>5, <1>6

(* A closed descriptor has no flags to clear. *)
LEMMA ClosedHasNoFlags ==
    ASSUME NEW x
    PROVE  [Closed EXCEPT !.flags = @ \ {x}] = Closed
    BY DEF Closed

(* What clearing a flag x of the descriptor f leaves. *)
LEMMA Cleared ==
    ASSUME Shape, NEW f \in Fds, NEW x, table' = [table EXCEPT ![f].flags = @ \ {x}]
    PROVE  /\ table' \in [Fds -> Descriptors] /\ \A g \in Fds \ {f} : table'[g] = table[g]
           /\ table'[f].kind = table[f].kind /\ table'[f].addr = table[f].addr
           /\ table'[f].flags = table[f].flags \ {x}
           /\ \A g \in Fds : Descriptor(table'[g], conns)
<1>1. table \in [Fds -> Descriptors] /\ \A g \in Fds : Descriptor(table[g], conns)
    BY Parts
<1>2. /\ table'[f] = [table[f] EXCEPT !.flags = @ \ {x}]
      /\ \A g \in Fds \ {f} : table'[g] = table[g]
    BY <1>1
<1>3. /\ table'[f] \in Descriptors
      /\ table'[f].kind = table[f].kind /\ table'[f].addr = table[f].addr
      /\ table'[f].queue = table[f].queue /\ table'[f].flags = table[f].flags \ {x}
    BY <1>1, <1>2 DEF Descriptors
<1>4. table' \in [Fds -> Descriptors]
    BY <1>1, <1>2, <1>3
<1>5. Descriptor(table'[f], conns)
  <2>1. table[f].kind = "closed" => table[f] = Closed
      BY <1>1 DEF Descriptor
  <2>2. table[f].kind = "closed" => table'[f] = Closed
      BY <1>2, <2>1, ClosedHasNoFlags
  <2> QED
      BY <1>1, <1>3, <2>2 DEF Descriptor
<1> QED
    BY <1>1, <1>2, <1>3, <1>4, <1>5

(* setCloseOnExec(false) *)
LEMMA KeepEffect ==
    ASSUME Shape, NEW s \in Servers, KeepOnExec(s)
    PROVE  Shape' /\ Steady
<1>1. /\ UNCHANGED <<app, env, execs, srv, files, drivers, opened, missed>>
      /\ UNCHANGED <<pending, blocked, clients, conns>>
      /\ srv[s].fd # -1 /\ table' = [table EXCEPT ![srv[s].fd].flags = @ \ {"cloexec"}]
    BY DEF KeepOnExec
<1>2. srv[s].fd \in Fds
    BY <1>1, Parts DEF Objects
<1>3. /\ table' \in [Fds -> Descriptors] /\ \A g \in Fds \ {srv[s].fd} : table'[g] = table[g]
      /\ table'[srv[s].fd].kind = table[srv[s].fd].kind
      /\ table'[srv[s].fd].addr = table[srv[s].fd].addr
      /\ table'[srv[s].fd].flags = table[srv[s].fd].flags \ {"cloexec"}
      /\ \A g \in Fds : Descriptor(table'[g], conns)
    BY Zenon, <1>1, <1>2, Cleared
<1>4. Shape'
  <2>0. conns' = conns
      BY <1>1
  <2>1. conns' \in conns..MaxConns /\ \A g \in Fds : Descriptor(table'[g], conns')
      BY <1>3, <2>0, Parts
  <2>2. /\ pending' \in SUBSET Servers /\ \A r \in pending' : srv[r].active = "yes"
        /\ blocked' \in {blocked, "none"} /\ clients' \in SUBSET Fds
      BY <1>1, Parts
  <2> QED
      BY Zenon, <1>1, <1>3, <2>1, <2>2, TableShape
<1>5. Steady
    BY <1>1, <1>2, <1>3 DEF Steady, Constant
<1> QED
    BY <1>4, <1>5

(* setNonBlocking(false) *)
LEMMA BlockingEffect ==
    ASSUME Shape, NEW s \in Servers, SetBlocking(s)
    PROVE  Shape' /\ Steady
<1>1. /\ UNCHANGED <<app, env, execs, clients, blocked, conns, files, drivers, opened, missed, pending>>
      /\ Run /\ srv[s].fd # -1 /\ table' = [table EXCEPT ![srv[s].fd].flags = @ \ {"nonblock"}]
      /\ srv' = [srv EXCEPT ![s].asked = @ \ {"nonblock"}]
    BY DEF SetBlocking
<1>2. srv[s].fd \in Fds
    BY <1>1, Parts DEF Objects
<1>3. /\ table' \in [Fds -> Descriptors] /\ \A g \in Fds \ {srv[s].fd} : table'[g] = table[g]
      /\ table'[srv[s].fd].kind = table[srv[s].fd].kind
      /\ table'[srv[s].fd].addr = table[srv[s].fd].addr
      /\ \A g \in Fds : Descriptor(table'[g], conns)
    BY Zenon, <1>1, <1>2, Cleared
<1>4. /\ srv' \in [Servers -> Objects] /\ \A r \in Servers \ {s} : srv'[r] = srv[r]
      /\ srv'[s].fd = srv[s].fd /\ srv'[s].addr = srv[s].addr /\ srv'[s].kind = srv[s].kind
      /\ srv'[s].alive = srv[s].alive /\ srv'[s].active = srv[s].active
      /\ srv'[s].driver = srv[s].driver /\ ~Promised(srv'[s])
    BY <1>1, Parts DEF Objects, Promised
<1>5. Steady
  <2>1. \A f \in Fds :
          /\ table'[f].kind = table[f].kind /\ table'[f].addr = table[f].addr
          /\ "nonblock" \in table[f].flags \ table'[f].flags =>
                \E r \in Servers : srv[r].fd = f /\ ~Promised(srv'[r])
      BY <1>2, <1>3, <1>4
  <2>2. \A r \in Servers :
          /\ srv'[r].fd = srv[r].fd /\ srv'[r].addr = srv[r].addr
          /\ srv[r].fd # -1 /\ Promised(srv'[r]) => Promised(srv[r])
      BY <1>4
  <2> QED
      BY Zenon, <1>1, <2>1, <2>2 DEF Steady, Constant
<1>6. Shape'
  <2>1. Fields(srv'[s])
      BY <1>4, Parts DEF Fields
  <2>2. opened \in SUBSET (Addrs \cup {NoAddr}) /\ missed \in {"yes", "no"}
        /\ (app.sd = <<>> => missed = "no")
      BY DEF Shape, TypeOK
  <2> QED
      BY Zenon, <1>1, <1>3, <1>4, <2>1, <2>2, Parts, ServerShape
<1> QED
    BY <1>5, <1>6

(* A connection comes, or goes before it was accepted. *)
LEMMA PeerEffect ==
    ASSUME Shape, NEW f \in Fds, Connect(f) \/ PeerAborts(f)
    PROVE  Shape' /\ Steady
<1>1. /\ UNCHANGED <<app, env, execs, srv, files, drivers, opened, missed>>
      /\ UNCHANGED <<pending, blocked, clients>>
      /\ \/ /\ table[f].kind = "listen" /\ table' = [table EXCEPT ![f].queue = @ + 1]
            /\ conns < MaxConns /\ conns' = conns + 1
         \/ /\ table[f].queue > 0 /\ table' = [table EXCEPT ![f].queue = @ - 1]
            /\ conns' = conns
    BY DEF Connect, PeerAborts
<1>2. /\ table[f].queue \in 0..MaxConns /\ table[f].queue <= conns
      /\ table[f].kind = "closed" => table[f] = Closed
    BY Parts DEF Descriptors, Descriptor
<1>3. table[f].kind # "closed"
    BY <1>1, <1>2 DEF Closed
<1>4. /\ table' \in [Fds -> Descriptors] /\ \A g \in Fds \ {f} : table'[g] = table[g]
      /\ table'[f].kind = table[f].kind /\ table'[f].addr = table[f].addr
      /\ table'[f].queue <= conns' /\ table'[f].flags = table[f].flags
    BY <1>1, <1>2, Parts DEF Descriptors
<1>5. conns' \in conns..MaxConns
    BY <1>1, Parts
<1>6. \A g \in Fds : Descriptor(table'[g], conns')
  <2>1. Descriptor(table'[f], conns')
      BY <1>3, <1>4, Parts DEF Descriptor
  <2>2. ASSUME NEW g \in Fds \ {f} PROVE Descriptor(table[g], conns')
    <3>1. table[g].queue \in Int /\ Descriptor(table[g], conns)
        BY Parts DEF Descriptors
    <3> QED
        BY <1>5, <3>1, Parts DEF Descriptor
  <2> QED
      BY <1>4, <2>1, <2>2
<1>7. Shape'
  <2>1. /\ pending' \in SUBSET Servers /\ \A r \in pending' : srv[r].active = "yes"
        /\ blocked' \in {blocked, "none"} /\ clients' \in SUBSET Fds
      BY <1>1, Parts
  <2> QED
      BY <1>1, <1>4, <1>5, <1>6, <2>1, TableShape
<1>8. Steady
    BY <1>1, <1>4 DEF Steady, Constant
<1> QED
    BY <1>7, <1>8

(* The loop collects events. *)
LEMMA PollEffect ==
    ASSUME Shape, Poll
    PROVE  Shape' /\ Steady
<1>1. /\ UNCHANGED <<app, env, execs, srv, files, drivers, opened, missed>>
      /\ UNCHANGED <<table, blocked, clients, conns>>
      /\ pending' \in SUBSET Servers /\ \A s \in pending' : srv[s].active = "yes"
    BY DEF Poll, Ready
<1>2. Shape'
  <2>1. /\ conns' \in conns..MaxConns /\ \A g \in Fds : Descriptor(table'[g], conns')
        /\ table' \in [Fds -> Descriptors]
        /\ blocked' \in {blocked, "none"} /\ clients' \in SUBSET Fds
      BY <1>1, Parts
  <2> QED
      BY <1>1, <2>1, TableShape
<1>3. Steady
    BY <1>1 DEF Steady, Constant
<1> QED
    BY <1>2, <1>3

(* A descriptor becomes that of a Socket. *)
LEMMA NewClient ==
    ASSUME Shape, UNCHANGED <<app, env, execs, srv, files, drivers, opened, missed>>,
           pending' \in SUBSET Servers, \A s \in pending' : srv[s].active = "yes",
           blocked' \in {blocked, "none"}, conns' \in conns..MaxConns,
           NEW n \in Fds, table[n].kind = "closed", clients' = clients \cup {n},
           NEW c \in Descriptors, c.kind = "client", c.queue = 0,
           table' \in [Fds -> Descriptors], table'[n] = c,
           \A g \in Fds \ {n} : /\ table'[g].kind = table[g].kind
                                /\ table'[g].addr = table[g].addr
                                /\ table'[g].flags = table[g].flags
                                /\ table'[g].queue <= table[g].queue
                                /\ table[g].kind = "closed" => table'[g] = table[g]
    PROVE  Shape' /\ Joining(n)
<1>1. \A g \in Fds : Descriptor(table'[g], conns')
  <2>1. Descriptor(c, conns')
      BY Parts DEF Descriptor
  <2>2. ASSUME NEW g \in Fds \ {n} PROVE Descriptor(table'[g], conns')
    <3>1. table[g].queue \in Int /\ table'[g].queue \in Int /\ Descriptor(table[g], conns)
        BY Parts DEF Descriptors
    <3> QED
        BY <3>1, Parts DEF Descriptor
  <2> QED
      BY <2>1, <2>2
<1>2. Shape'
    BY <1>1, Parts, TableShape
<1>3. Joining(n)
    BY DEF Joining, Constant
<1> QED
    BY <1>2, <1>3

(* SocketDriver::create() *)
LEMMA ConnectsEffect ==
    ASSUME Shape, DriverConnects
    PROVE  Shape' /\ \E f \in Fds : Joining(f)
<1> DEFINE n == NewFd(table)
           c == [kind |-> "client", addr |-> NoAddr, flags |-> {}, queue |-> 0]
<1>1. /\ UNCHANGED <<app, env, execs, srv, files, drivers, opened, missed, pending, blocked>>
      /\ conns < MaxConns /\ conns' = conns + 1 /\ Free(table) # {}
      /\ clients' = clients \cup {n} /\ table' = [table EXCEPT ![n] = c]
    BY DEF DriverConnects
<1>2. n \in Fds /\ table[n].kind = "closed"
    BY <1>1, NewFdIsFree
<1>3. c \in Descriptors /\ c.kind = "client" /\ c.queue = 0
    BY ServerAssumption DEF Descriptors
<1> HIDE DEF n, c
<1>4. /\ table' \in [Fds -> Descriptors] /\ table'[n] = c
      /\ \A g \in Fds \ {n} : table'[g] = table[g]
    BY <1>1, <1>2, <1>3, Parts
<1>5. \A g \in Fds : table[g].queue <= table[g].queue
    BY Parts DEF Descriptors
<1>6. /\ pending' \in SUBSET Servers /\ \A s \in pending' : srv[s].active = "yes"
      /\ blocked' \in {blocked, "none"} /\ conns' \in conns..MaxConns
    BY <1>1, Parts
<1> QED
    BY <1>1, <1>2, <1>3, <1>4, <1>5, <1>6, NewClient

(* What accept() on the server s leaves alone, and who waits then. *)
LEMMA Accepting ==
    ASSUME Shape, NEW s \in Servers, Accept(s)
    PROVE  /\ UNCHANGED <<app, env, execs, srv, files, drivers, opened, missed, conns>>
           /\ pending' \in SUBSET Servers /\ \A r \in pending' : srv[r].active = "yes"
           /\ srv[s].active = "yes" /\ srv[s].fd \in Fds
           /\ blocked' \in {"none", s}
<1>1. /\ UNCHANGED <<app, env, execs, srv, files, drivers, opened, missed, conns>>
      /\ pending' = pending \ {s} /\ s \in pending \cup {blocked}
      /\ blocked' \in {"none", s}
    BY DEF Accept
<1>2. srv[s].active = "yes"
    BY <1>1 DEF Shape
<1> QED
    BY <1>1, <1>2, Parts DEF Fields, Objects

(* accept() takes a connection from the server s. *)
LEMMA TakeEffect ==
    ASSUME Shape, NEW s \in Servers, Accept(s), table[srv[s].fd].kind = "listen",
           table[srv[s].fd].queue > 0, Free(table) # {}
    PROVE  Shape' /\ (Steady \/ \E f \in Fds : Joining(f))
<1> DEFINE f == srv[s].fd
           n == NewFd(table)
           rest == [table EXCEPT ![f].queue = @ - 1]
           c == [kind |-> "client", addr |-> table[f].addr, flags |-> srv[s].flags, queue |-> 0]
<1>1. TakeClient(srv[s]) /\ blocked' = "none"
    BY Zenon DEF Accept
<1>2. \/ table' = [rest EXCEPT ![n] = c] /\ clients' = clients \cup {n}
      \/ table' = rest /\ clients' = clients
    BY <1>1 DEF TakeClient
<1>3. n \in Fds /\ table[n].kind = "closed"
    BY NewFdIsFree
<1>4. f \in Fds /\ table[f].queue \in 1..MaxConns
    BY Accepting, Parts DEF Descriptors
<1>5. c \in Descriptors /\ c.kind = "client" /\ c.queue = 0
    BY <1>4, Parts DEF Objects, Descriptors
<1>6. n # f /\ table[f].kind = "listen"
    BY <1>3
<1> HIDE DEF f, n, c
<1>7. /\ rest \in [Fds -> Descriptors] /\ \A g \in Fds \ {f} : rest[g] = table[g]
      /\ rest[f].kind = table[f].kind /\ rest[f].addr = table[f].addr
      /\ rest[f].queue = table[f].queue - 1 /\ rest[f].flags = table[f].flags
    BY <1>4, Parts DEF Descriptors
<1> HIDE DEF rest
<1>8. \A g \in Fds : /\ rest[g].kind = table[g].kind /\ rest[g].addr = table[g].addr
                     /\ rest[g].flags = table[g].flags /\ rest[g].queue <= table[g].queue
                     /\ table[g].kind = "closed" => rest[g] = table[g]
  <2>1. \A g \in Fds : table[g].queue \in Int
      BY Parts DEF Descriptors
  <2> QED
      BY <1>4, <1>6, <1>7, <2>1
<1>9. /\ UNCHANGED <<app, env, execs, srv, files, drivers, opened, missed, conns>>
      /\ pending' \in SUBSET Servers /\ \A r \in pending' : srv[r].active = "yes"
      /\ blocked' \in {blocked, "none"} /\ conns' \in conns..MaxConns
    BY <1>1, Accepting, Parts
<1>10. CASE table' = [rest EXCEPT ![n] = c] /\ clients' = clients \cup {n}
  <2>1. /\ table' \in [Fds -> Descriptors] /\ table'[n] = c
        /\ \A g \in Fds \ {n} : table'[g] = rest[g]
      BY SMTT(20), <1>3, <1>5, <1>7, <1>10
  <2>2. Shape' /\ Joining(n)
      BY SMTT(20), <1>3, <1>5, <1>8, <1>9, <1>10, <2>1, NewClient
  <2> QED
      BY <1>3, <2>2
<1>11. CASE table' = rest /\ clients' = clients
  <2>1. \A g \in Fds : Descriptor(table'[g], conns')
    <3>1. ASSUME NEW g \in Fds PROVE Descriptor(rest[g], conns)
      <4>1. rest[g].queue \in Int /\ table[g].queue \in Int /\ Descriptor(table[g], conns)
          BY <1>7, Parts DEF Descriptors
      <4> QED
          BY <1>8, <4>1, Parts DEF Descriptor
    <3> QED
        BY <1>9, <1>11, <3>1
  <2>2. Shape'
      BY <1>7, <1>9, <1>11, <2>1, Parts, TableShape
  <2>3. Steady
      BY <1>8, <1>9, <1>11 DEF Steady, Constant
  <2> QED
      BY <2>2, <2>3
<1> QED
    BY <1>2, <1>10, <1>11

(* A connection gets a descriptor; or accept() has none to give, fails or  *)
(* hangs.                                                                  *)
LEMMA AcceptEffect ==
    ASSUME Shape, NEW s \in Servers, Accept(s)
    PROVE  Shape' /\ (Steady \/ \E f \in Fds : Joining(f))
<1>1. CASE table[srv[s].fd].kind = "listen" /\ table[srv[s].fd].queue > 0 /\ Free(table) # {}
    BY <1>1, TakeEffect
<1>2. CASE ~(table[srv[s].fd].kind = "listen" /\ table[srv[s].fd].queue > 0 /\ Free(table) # {})
  <2>1. UNCHANGED <<table, clients>>
      BY <1>2, Zenon DEF Accept
  <2>2. /\ conns' \in conns..MaxConns /\ \A g \in Fds : Descriptor(table'[g], conns')
        /\ table' \in [Fds -> Descriptors] /\ clients' \in SUBSET Fds
      BY <2>1, Accepting, Parts
  <2>3. Shape'
      BY <2>2, Accepting, TableShape
  <2>4. Steady
      BY <2>1, Accepting DEF Steady, Constant
  <2> QED
      BY <2>3, <2>4
<1> QED
    BY <1>1, <1>2

(* A Socket is deleted. *)
LEMMA LeavingEffect ==
    ASSUME Shape, NEW f \in Fds, CloseClient(f)
    PROVE  Shape' /\ Leaving(f)
<1>1. /\ UNCHANGED <<app, env, execs, srv, files, drivers, opened, missed, pending, blocked, conns>>
      /\ f \in clients /\ clients' = clients \ {f} /\ table' = [table EXCEPT ![f] = Closed]
    BY DEF CloseClient
<1>2. Closed \in Descriptors /\ Descriptor(Closed, conns)
    BY Parts DEF Descriptors, Descriptor, Closed
<1>3. /\ table' \in [Fds -> Descriptors] /\ table'[f] = Closed
      /\ \A g \in Fds \ {f} : table'[g] = table[g]
    BY <1>1, <1>2, Parts
<1>4. Shape'
  <2>1. \A g \in Fds : Descriptor(table'[g], conns')
      BY <1>1, <1>2, <1>3, Parts
  <2>2. /\ pending' \in SUBSET Servers /\ \A r \in pending' : srv[r].active = "yes"
        /\ blocked' \in {blocked, "none"} /\ clients' \in SUBSET Fds /\ conns' \in conns..MaxConns
      BY <1>1, Parts
  <2> QED
      BY <1>1, <1>3, <2>1, <2>2, TableShape
<1>5. Leaving(f)
    BY <1>1, <1>3 DEF Leaving, Constant
<1> QED
    BY <1>4, <1>5

(* open() of a server that is closed. *)
LEMMA OpenCalls ==
    ASSUME Shape, NEW s \in Servers, NEW a \in Addrs, NEW flags \in app.flags, Open(s, a, flags)
    PROVE  LET o == [srv[s] EXCEPT !.asked = flags, !.cloned = "no"]
           IN  Called(s, o, a, flags) /\ o.driver = srv[s].driver
<1> DEFINE o == [srv[s] EXCEPT !.asked = flags, !.cloned = "no"]
<1>1. /\ srv[s].fd = -1 /\ srv[s].alive = "yes" /\ DoOpen(s, o, a, flags)
      /\ a \in Family(srv[s].kind) /\ opened' = opened \cup {a} /\ drivers' = drivers
      /\ a \notin opened \/ "reopen" \in app.habits
    BY DEF Open, Family
<1>2. srv[s].active = "no" /\ srv[s].addr \in Family(srv[s].kind) \cup {NoAddr}
    BY <1>1, Parts DEF Fields, Objects
<1>3. flags \in SUBSET Flags /\ a \in Addrs
    BY ServerAssumption DEF Shape, TypeOK
<1>4. /\ o \in Objects /\ o.fd = srv[s].fd /\ o.active = srv[s].active /\ o.alive = srv[s].alive
      /\ o.addr = srv[s].addr /\ o.kind = srv[s].kind /\ o.driver = srv[s].driver
      /\ Promised(o) => "nonblock" \in flags
  <2>1. srv[s] \in Objects
      BY Parts
  <2> QED
      BY Zenon, <1>3, <2>1 DEF Objects, Promised
<1>5. drivers \in SUBSET Drivers
    BY Parts
<1> HIDE DEF o
<1> QED
    BY <1>1, <1>2, <1>3, <1>4, <1>5 DEF Called, OpensOnce, o

(* The clone opens the address of the server it is made from. *)
LEMMA CloneCalls ==
    ASSUME Shape, NEW r \in Servers, NEW s \in Servers, Clone(r, s)
    PROVE  LET o == [Fresh(s, srv[r].kind) EXCEPT !.reuse = srv[r].reuse,
                                                       !.asked = srv[r].asked, !.cloned = "yes"]
           IN  Called(s, o, srv[r].addr, srv[r].flags) /\ o.driver = s
<1> DEFINE o == [Fresh(s, srv[r].kind) EXCEPT !.reuse = srv[r].reuse,
                                                !.asked = srv[r].asked, !.cloned = "yes"]
<1>1. /\ "clone" \in app.habits /\ srv[r].addr # NoAddr /\ srv[s].alive = "no"
      /\ DoOpen(s, o, srv[r].addr, srv[r].flags)
      /\ opened' = opened \cup {srv[r].addr} /\ drivers' = drivers \cup {s}
    BY DEF Clone
<1>2. srv[r] \in Objects /\ srv[r].addr \in Family(srv[r].kind)
    BY <1>1, Parts DEF Fields
<1>3. srv[s].fd = -1 /\ srv[s].addr = NoAddr /\ srv[s].active = "no"
    BY <1>1, Parts DEF Fields, Objects
<1>4. /\ o \in Objects /\ o.fd = -1 /\ o.active = "no" /\ o.alive = "yes"
      /\ o.addr = NoAddr /\ o.kind = srv[r].kind /\ o.driver = s
      /\ ~Promised(o)
    BY Zenon, <1>2 DEF Fresh, Objects, Drivers, Promised
<1>5. drivers' \in SUBSET Drivers
    BY <1>1, Parts DEF Drivers
<1>6. srv[r].flags \in SUBSET Flags /\ srv[r].addr \in Addrs
    BY <1>2 DEF Objects, Family, Addrs
<1> HIDE DEF o
<1> QED
    BY <1>1, <1>2, <1>3, <1>4, <1>5, <1>6 DEF Called, OpensOnce, o

(* open(), on a server that is there or on its clone. *)
LEMMA OpeningEffect ==
    ASSUME Shape, NEW s \in Servers,
           \/ \E a \in Addrs, flags \in app.flags : Open(s, a, flags)
           \/ \E r \in Servers : Clone(r, s)
    PROVE  Shape' /\ Opening(s)
<1>1. \E o0, a, flags : Called(s, o0, a, flags)
    BY Zenon, OpenCalls, CloneCalls
<1>2. PICK o0, a, flags : Called(s, o0, a, flags)
    BY <1>1
<1>3. UNCHANGED <<app, env, clients, pending, blocked, conns, execs>> /\ Run
    BY Zenon DEF Open, Clone
<1> QED
    BY <1>2, <1>3, CalledEffect

(* Every step keeps Shape, and is of one of the kinds above. *)
LEMMA NextEffect == Shape /\ [Next]_vars => Shape' /\ Effect
<1> SUFFICES ASSUME Shape, [Next]_vars PROVE Shape' /\ Effect
    OBVIOUS
<1>1. CASE Application
  <2>1. ASSUME NEW s \in Servers,
               \/ \E kind \in {"inet", "unix"} : Create(s, kind)
               \/ SetReusePort(s) \/ Start(s) \/ Stop(s)
               \/ \E d \in Drivers : SetSocketDriver(s, d)
        PROVE  Shape' /\ Effect
      BY <2>1, FieldsEffect DEF Effect
  <2>2. ASSUME NEW s \in Servers, Close(s) \/ Delete(s) PROVE Shape' /\ Effect
      BY <2>2, ClosingEffect DEF Effect
  <2>3. ASSUME NEW s \in Servers, KeepOnExec(s) \/ SetBlocking(s) PROVE Shape' /\ Effect
      BY <2>3, KeepEffect, BlockingEffect DEF Effect
  <2>4. ASSUME NEW s \in Servers,
               \/ \E a \in Addrs, flags \in app.flags : Open(s, a, flags)
               \/ \E r \in Servers : Clone(r, s)
        PROVE  Shape' /\ Effect
      BY <2>4, OpeningEffect DEF Effect
  <2>5. CASE DriverConnects
      BY <2>5, ConnectsEffect DEF Effect
  <2>6. CASE Exec
      BY <2>6, ExecShape DEF Effect
  <2> QED
      BY <1>1, <2>1, <2>2, <2>3, <2>4, <2>5, <2>6 DEF Application
<1>2. CASE Loop
    BY <1>2, PollEffect, AcceptEffect DEF Loop, Effect
<1>3. ASSUME NEW f \in Fds, CloseClient(f) \/ Connect(f) \/ PeerAborts(f)
      PROVE  Shape' /\ Effect
    BY <1>3, LeavingEffect, PeerEffect DEF Effect
<1>4. CASE UNCHANGED vars
  <2>1. Shape'
      BY <1>4 DEF vars, Shape, TypeOK
  <2>2. Steady
      BY <1>4 DEF vars, Steady, Constant
  <2> QED
      BY <2>1, <2>2 DEF Effect
<1> QED
    BY <1>1, <1>2, <1>3, <1>4 DEF Next

(* Who has which driver: a server has the one it allocated, or the         *)
(* application's, which one server at most has.                            *)
DriverInv ==
    /\ \A s \in Servers : srv[s].alive = "yes" => srv[s].driver \in {s, "own"} \cap drivers
    /\ \A s, r \in Servers : srv[s].driver = "own" /\ srv[r].driver = "own" => s = r
    /\ \A d \in drivers \ {"own"} : d \in Servers /\ srv[d].driver = d

(* Only the constructor, the destructor and setSocketDriver() change who   *)
(* has which driver.                                                       *)
LEMMA NextDriverInv == Shape /\ DriverInv /\ [Next]_vars => DriverInv'
<1> SUFFICES ASSUME Shape, DriverInv, [Next]_vars PROVE DriverInv'
    OBVIOUS
<1>1. srv \in [Servers -> Objects] /\ drivers \in SUBSET Drivers
    BY Parts
<1>2. \A s \in Servers : /\ srv[s].alive \in {"yes", "no"}
                         /\ srv[s].alive = "no" => srv[s].driver = "none"
    BY Parts DEF Fields, Objects
<1>3. "own" \notin Servers /\ "none" \notin Servers
    BY ServerAssumption
<1>4. ASSUME UNCHANGED drivers,
             \A s \in Servers : srv'[s].alive = srv[s].alive /\ srv'[s].driver = srv[s].driver
      PROVE  DriverInv'
    BY <1>4 DEF DriverInv
<1>5. CASE UNCHANGED <<srv, drivers>>
    BY <1>4, <1>5
<1>6. ASSUME NEW s \in Servers, NEW kind \in {"inet", "unix"}, Create(s, kind) PROVE DriverInv'
  <2>1. /\ srv'[s].driver = s /\ \A r \in Servers \ {s} : srv'[r] = srv[r]
        /\ srv[s].alive = "no" /\ drivers' = drivers \cup {s}
      BY <1>1, <1>6 DEF Create, Fresh
  <2> QED
      BY <1>2, <1>3, <2>1 DEF DriverInv
<1>7. ASSUME NEW s \in Servers, SetReusePort(s) \/ Start(s) \/ Stop(s) \/ SetBlocking(s)
      PROVE  DriverInv'
  <2>1. \A r \in Servers : srv'[r].alive = srv[r].alive /\ srv'[r].driver = srv[r].driver
      BY <1>1, <1>7 DEF SetReusePort, Start, Stop, SetBlocking, Objects
  <2>2. UNCHANGED drivers
      BY <1>7 DEF SetReusePort, Start, Stop, SetBlocking
  <2> QED
      BY <1>4, <2>1, <2>2
<1>8. ASSUME NEW s \in Servers, Close(s) PROVE DriverInv'
  <2> DEFINE r == BaseClose(srv[s])
  <2>1. r.o.alive = srv[s].alive /\ r.o.driver = srv[s].driver /\ r.o \in Objects
        /\ DOMAIN r = {"o", "table", "files"}
      BY BaseCloses
  <2> HIDE DEF r
  <2>2. /\ \/ srv' = [srv EXCEPT ![s] = [r EXCEPT !.o.reuse = "no"].o]
           \/ srv' = [srv EXCEPT ![s] = [r EXCEPT !.files = @ \ {srv[s].addr}].o]
        /\ UNCHANGED drivers
      BY <1>8 DEF Close, Becomes, r
  <2>3. /\ [r EXCEPT !.o.reuse = "no"].o = [r.o EXCEPT !.reuse = "no"]
        /\ [r EXCEPT !.files = @ \ {srv[s].addr}].o = r.o
      BY <2>1
  <2>4. /\ [r.o EXCEPT !.reuse = "no"].alive = srv[s].alive
        /\ [r.o EXCEPT !.reuse = "no"].driver = srv[s].driver
      BY <2>1 DEF Objects
  <2>5. \A q \in Servers : srv'[q].alive = srv[q].alive /\ srv'[q].driver = srv[q].driver
      BY Zenon, <1>1, <2>1, <2>2, <2>3, <2>4
  <2> QED
      BY <1>4, <2>2, <2>5
<1>9. ASSUME NEW s \in Servers, Delete(s) PROVE DriverInv'
  <2> DEFINE r == BaseClose(srv[s])
  <2>1. /\ srv' = [srv EXCEPT ![s] = [r EXCEPT !.o = Dead].o]
        /\ drivers' = drivers \ {srv[s].driver} /\ srv[s].alive = "yes"
      BY <1>9 DEF Delete, Becomes
  <2>2. DOMAIN r = {"o", "table", "files"}
      BY BaseCloses
  <2> HIDE DEF r
  <2>3. [r EXCEPT !.o = Dead].o = Dead
      BY <2>2
  <2>4. Dead.alive = "no" /\ Dead.driver = "none"
      BY DEF Dead, Fresh
  <2>5. /\ srv'[s].driver = "none" /\ srv'[s].alive = "no"
        /\ \A q \in Servers \ {s} : srv'[q] = srv[q]
      BY <1>1, <2>1, <2>3, <2>4
  <2> QED
      BY <1>2, <1>3, <2>1, <2>5 DEF DriverInv
<1>10. ASSUME NEW s \in Servers, NEW d \in Drivers, SetSocketDriver(s, d) PROVE DriverInv'
  <2>1. /\ srv'[s].driver = d /\ srv'[s].alive = "yes"
        /\ \A q \in Servers \ {s} : srv'[q] = srv[q]
      BY <1>1, <1>10 DEF SetSocketDriver, Objects
  <2>2. /\ d \in drivers /\ \A q \in Servers \ {s} : srv[q].driver # d
        /\ drivers' = IF srv[s].driver = d THEN drivers ELSE drivers \ {srv[s].driver}
        /\ srv[s].alive = "yes"
      BY <1>10 DEF SetSocketDriver
  <2>3. d \in {s, "own"}
      BY SMTT(20), <2>2 DEF DriverInv
  <2> QED
      BY <1>2, <1>3, <2>1, <2>2, <2>3 DEF DriverInv
<1>11. ASSUME NEW s \in Servers, NEW a \in Addrs, NEW flags \in app.flags, Open(s, a, flags)
       PROVE  DriverInv'
  <2>1. UNCHANGED drivers
      BY <1>11 DEF Open
  <2>2. PICK o : Called(s, o, a, flags) /\ o.driver = srv[s].driver
      BY Zenon, <1>11, OpenCalls
  <2>3. Opened(s, o, a) /\ o.alive = "yes" /\ srv[s].alive = "yes"
      BY <1>11, <2>2, CalledOpens DEF Called, Open
  <2> QED
      BY <1>4, <2>1, <2>2, <2>3 DEF Opened, Sound
<1>12. ASSUME NEW r \in Servers, NEW s \in Servers, Clone(r, s) PROVE DriverInv'
  <2>1. PICK o : Called(s, o, srv[r].addr, srv[r].flags) /\ o.driver = s
      BY Zenon, <1>12, CloneCalls
  <2>2. Opened(s, o, srv[r].addr)
      BY SMTT(20), <2>1, CalledOpens
  <2>3. srv'[s].driver = s /\ \A q \in Servers \ {s} : srv'[q] = srv[q]
      BY <2>1, <2>2 DEF Opened, Sound
  <2>4. drivers' = drivers \cup {s} /\ srv[s].alive = "no"
      BY <1>12 DEF Clone
  <2> QED
      BY <1>2, <1>3, <2>3, <2>4 DEF DriverInv
<1>13. CASE Exec
  <2>1. drivers' = {} /\ srv' = [s \in Servers |-> Dead]
      BY <1>13, Zenon DEF Exec
  <2>2. \A s \in Servers : srv'[s].alive = "no" /\ srv'[s].driver = "none"
      BY <2>1 DEF Dead, Fresh
  <2> QED
      BY <2>1, <2>2 DEF DriverInv
<1>14. ASSUME NEW s \in Servers, KeepOnExec(s) \/ Accept(s) PROVE DriverInv'
    BY <1>5, <1>14, Zenon DEF KeepOnExec, Accept
<1>15. CASE DriverConnects \/ Poll
    BY <1>5, <1>15 DEF DriverConnects, Poll
<1>16. ASSUME NEW f \in Fds, CloseClient(f) \/ Connect(f) \/ PeerAborts(f) PROVE DriverInv'
    BY <1>5, <1>16 DEF CloseClient, Connect, PeerAborts
<1>17. CASE UNCHANGED vars
    BY <1>5, <1>17 DEF vars
<1> QED
    BY Zenon, <1>6, <1>7, <1>8, <1>9, <1>10, <1>11, <1>12, <1>13, <1>14, <1>15, <1>16, <1>17
    DEF Next, Application, Loop
=============================================================================
