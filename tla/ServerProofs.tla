---------------------------- MODULE ServerProofs ----------------------------
(***************************************************************************)
(* Theorems about ServerSocket, for any number of servers, addresses,      *)
(* descriptors, connections and calls of exec, and for applications of any *)
(* habits.                                                                 *)
(***************************************************************************)
EXTENDS ServerSteps, ServerInvariants, FiniteSetTheorems, WellFoundedInduction

(* Every set of natural numbers that is not empty has a least element: the *)
(* "lowest descriptor", the "first entry" and the "longest extension" that *)
(* the code looks for exist, and a statement about all numbers holds if it *)
(* has no least exception, which is induction.                             *)
LEMMA LeastElement ==
    ASSUME NEW T, T \subseteq Nat, T # {}
    PROVE  \E m \in T : \A n \in T : m <= n
<1> DEFINE R == {p \in Nat \X Nat : p[1] < p[2]}
<1>1. R = OpToRel(<, Nat)
    BY DEF OpToRel
<1>2. IsWellFoundedOn(R, Nat)
    BY <1>1, NatLessThanWellFounded
<1>3. \E x \in T : \A y \in T : <<y, x>> \notin R
    BY Zenon, <1>2, WFMin
<1>4. ASSUME NEW x \in T, NEW y \in T, <<y, x>> \notin R PROVE x <= y
    BY <1>4
<1> QED
    BY Zenon, <1>3, <1>4

(* A set of numbers has a least element, and a set of servers a size. *)
LEMMA CountingHolds == Counting
    BY Zenon, ServerAssumption, LeastElement, FS_Subset, FS_CardinalityType DEF Counting

(* A process starts with nothing but what systemd passes. *)
LEMMA InitShape == Init => Shape
<1> SUFFICES ASSUME Init PROVE Shape
    OBVIOUS
<1>1. app \in Applications /\ app.sd \in Seq(Addrs)
    BY ServerAssumption DEF Init
<1>2. Dead \in Objects /\ Fields(Dead)
    BY DEF Dead, Fresh, Objects, Fields
<1>3. srv \in [Servers -> Objects] /\ \A s \in Servers : srv[s] = Dead
    BY <1>2 DEF Init
<1>4. /\ Closed \in Descriptors /\ Descriptor(Closed, 0)
      /\ \A a \in Addrs : Listener(a, {}) \in Descriptors /\ Descriptor(Listener(a, {}), 0)
    BY ServerAssumption DEF Closed, Listener, Descriptors, Descriptor
<1>5. \A f \in SdFds : app.sd[f - 2] \in Addrs
    BY <1>1 DEF SdFds
<1>6. /\ table \in [Fds -> Descriptors]
      /\ \A f \in Fds : table[f] = Closed \/ \E a \in Addrs : table[f] = Listener(a, {})
    BY <1>4, <1>5 DEF Init
<1>7. \A f \in Fds : Descriptor(table[f], 0)
    BY <1>4, <1>6
<1>8. TypeOK
    BY <1>1, <1>3, <1>6, ServerAssumption DEF Init, TypeOK, Drivers
<1>9. /\ env = <<>> /\ conns = 0 /\ execs = 0 /\ missed = "no" /\ pending = {} /\ blocked = "none"
    BY DEF Init
<1> QED
    BY <1>2, <1>3, <1>7, <1>8, <1>9, CountingHolds, ServerAssumption DEF Shape

(* Every variable of the model keeps its type. *)
THEOREM TypeCorrect == Spec => []TypeOK
<1>1. Shape => TypeOK
    BY DEF Shape
<1> QED
    BY <1>1, InitShape, NextEffect, PTL DEF Spec

(* No server has anything at first. *)
LEMMA InitOwnerInv == Init => OwnerInv /\ DriverInv
<1> SUFFICES ASSUME Init PROVE OwnerInv /\ DriverInv
    OBVIOUS
<1>1. \A s \in Servers : srv[s].fd = -1 /\ srv[s].alive = "no" /\ srv[s].driver = "none"
    BY DEF Init, Dead, Fresh
<1>2. Len(env) = 0 /\ clients = {} /\ drivers \subseteq {"own"}
    BY DEF Init
<1> QED
  <2>1. OwnerInv
      BY <1>1, <1>2 DEF OwnerInv, Holding, Untouched, IsOpen
  <2>2. DriverInv
      BY <1>1, <1>2, ServerAssumption DEF DriverInv
  <2> QED
      BY <2>1, <2>2

(* No step takes a descriptor from its holder. *)
LEMMA NextOwnerInv == Shape /\ OwnerInv /\ [Next]_vars => OwnerInv'
    BY NextEffect, EffectOwnerInv

(* Every open server holds a listening descriptor and every Socket a       *)
(* connected one, and no two hold the same, however open() fails, clones   *)
(* come and go and numbers are used again, unless a listener could be      *)
(* passed twice or systemd had none for an address; and every server has   *)
(* the SocketDriver that its accept() calls.                               *)
THEOREM Owners == Spec => []OwnersValid
<1>1. OwnerInv /\ DriverInv /\ Shape => OwnersValid
  <2> SUFFICES ASSUME OwnerInv, DriverInv, Shape PROVE OwnersValid
      OBVIOUS
  <2>1. ASSUME NEW s \in Servers, srv[s].alive = "yes", NEW r \in Servers \ {s}
        PROVE  srv[r].driver # srv[s].driver
    <3>1. srv[r].alive \in {"yes", "no"} /\ (srv[r].alive = "no" => srv[r].driver = "none")
        BY Parts DEF Fields, Objects
    <3> QED
        BY <2>1, <3>1, ServerAssumption DEF DriverInv
  <2> QED
      BY <2>1 DEF OwnersValid, OwnerInv, Holding, DriverInv
<1>2. Shape /\ [Next]_vars => Shape'
    BY NextEffect
<1> QED
    BY <1>1, <1>2, InitShape, InitOwnerInv, NextOwnerInv, NextDriverInv, PTL DEF Spec

(* While accept() hangs, no call is made. *)
LEMMA NextNeverHangs ==
    Shape /\ OwnerInv /\ LoopNeverHangs /\ [Next]_vars => LoopNeverHangs'
<1> SUFFICES ASSUME Shape, OwnerInv, LoopNeverHangs, [Next]_vars,
                    Unshared', missed' = "no", blocked' # "none"
             PROVE  ~Promised(srv'[blocked'])
    BY DEF LoopNeverHangs
<1>1. CASE UNCHANGED <<app, missed, srv, blocked>>
    BY <1>1 DEF LoopNeverHangs, Unshared, OnItsOwn, OpensOnce
<1>2. ASSUME Run, blocked' = blocked PROVE FALSE
    BY <1>2 DEF Run
<1>3. ASSUME NEW s \in Servers, Accept(s) PROVE ~Promised(srv'[blocked'])
  <2>1. /\ UNCHANGED <<app, missed, srv>> /\ blocked' = s
        /\ table[srv[s].fd].kind = "listen" /\ "nonblock" \notin table[srv[s].fd].flags
      BY <1>3 DEF Accept
  <2>2. IsOpen(s)
      BY <1>3, Accepting, ServerAssumption DEF Fds, IsOpen
  <2>3. Unshared /\ missed = "no"
      BY <2>1 DEF Unshared, OnItsOwn, OpensOnce
  <2> QED
      BY <2>1, <2>2, <2>3 DEF OwnerInv, Holding
<1>4. CASE Application
  <2>1. ASSUME NEW s \in Servers, \/ \E kind \in {"inet", "unix"} : Create(s, kind)
                                 \/ SetReusePort(s) \/ Start(s) \/ Stop(s)
        PROVE  FALSE
      BY Zenon, <1>2, <2>1 DEF Create, SetReusePort, Start, Stop
  <2>2. ASSUME NEW s \in Servers, Close(s) \/ Delete(s) \/ KeepOnExec(s) \/ SetBlocking(s)
        PROVE  FALSE
      BY Zenon, <1>2, <2>2 DEF Close, Delete, KeepOnExec, SetBlocking
  <2>3. ASSUME NEW s \in Servers, \/ \E a \in Addrs, flags \in app.flags : Open(s, a, flags)
                                 \/ \E t \in Servers : Clone(s, t)
                                 \/ \E d \in Drivers : SetSocketDriver(s, d)
        PROVE  FALSE
      BY Zenon, <1>2, <2>3 DEF Open, Clone, SetSocketDriver
  <2>4. ASSUME DriverConnects \/ Exec PROVE FALSE
      BY Zenon, <1>2, <2>4 DEF DriverConnects, Exec
  <2> QED
      BY Zenon, <1>4, <2>1, <2>2, <2>3, <2>4 DEF Application
<1>5. CASE Poll
    BY <1>2, <1>5 DEF Poll
<1>6. ASSUME NEW f \in Fds, CloseClient(f) \/ Connect(f) \/ PeerAborts(f)
      PROVE  ~Promised(srv'[blocked'])
    BY <1>1, <1>6 DEF CloseClient, Connect, PeerAborts
<1>7. CASE UNCHANGED vars
    BY <1>1, <1>7 DEF vars
<1> QED
    BY <1>3, <1>4, <1>5, <1>6, <1>7 DEF Next, Loop

(* accept() does not hang the loop when O_NONBLOCK was asked for, though   *)
(* the connection may be gone when the event is dispatched: whatever way   *)
(* the listener came, it got the flag.                                     *)
THEOREM NeverHangs == Spec => []LoopNeverHangs
<1>1. Init => LoopNeverHangs
    BY DEF Init, LoopNeverHangs
<1>2. Shape /\ [Next]_vars => Shape'
    BY NextEffect
<1> QED
    BY <1>1, <1>2, InitShape, InitOwnerInv, NextOwnerInv, NextNeverHangs, PTL DEF Spec

(* The files of the sockets that systemd passes are there. *)
LEMMA InitFileInv == Init => FileInv
<1> SUFFICES ASSUME Init PROVE FileInv
    OBVIOUS
<1>1. \A s \in Servers : srv[s].fd = -1 /\ srv[s].addr = NoAddr
    BY DEF Init, Dead, Fresh
<1>2. app.sd \in Seq(Addrs)
    BY ServerAssumption DEF Init
<1>3. \A f \in Fds : table[f].kind = "listen" => f \in SdFds /\ table[f].addr = app.sd[f - 2]
    BY DEF Init, Closed, Listener
<1>4. \A f \in SdFds : f - 2 \in 1..Len(app.sd)
    BY <1>2 DEF SdFds
<1>5. \A f \in Fds : table[f].kind = "listen" /\ table[f].addr \in Unix => table[f].addr \in files
    BY <1>3, <1>4 DEF Init
<1> QED
    BY <1>1, <1>5, ServerAssumption DEF FileInv, IsOpen, Addrs

(* No step takes the file of a socket that listens. *)
LEMMA NextFileInv == Shape /\ OwnerInv /\ FileInv /\ [Next]_vars => FileInv'
    BY NextEffect, EffectFileInv

(* Whoever closes what: the file of a UNIX socket that listens is there,   *)
(* for applications that open a path once, and for those that make all of  *)
(* their listeners and close() open servers only.                          *)
THEOREM FilesStay == Spec => []FileStays
<1>1. Init => FileInv
    BY InitFileInv
<1>2. FileInv => FileStays
    BY DEF FileInv, FileStays, Tidy
<1>3. Shape /\ [Next]_vars => Shape'
    BY NextEffect
<1> QED
    BY <1>1, <1>2, <1>3, InitShape, InitOwnerInv, NextOwnerInv, NextFileInv, PTL DEF Spec

(* What open() would find, it finds after a step that does not close it    *)
(* and leaves XZERO_LISTEN_FDS alone.                                      *)
LEMMA StillFound ==
    ASSUME NEW a, NEW f, Inherited(table, a) = f, f # -1, table'[f].kind # "closed", env' = env
    PROVE  Inherited(table, a)' = f
<1>1. ASSUME NEW name, NEW at, FirstListed(table, name, at) = f
      PROVE  FirstListed(table, name, at)' = f
  <2> DEFINE hits == {i \in 1..Len(env) : SubSeq(env[i], 1, Len(name)) = name}
             fd == env[CHOOSE i \in hits : \A j \in hits : i <= j][at]
  <2>1. FirstListed(table, name, at) = IF hits = {} THEN -1
            ELSE IF table[fd].kind = "closed" THEN -1 ELSE fd
      BY DEF FirstListed
  <2>2. FirstListed(table, name, at)' = IF hits = {} THEN -1
            ELSE IF table'[fd].kind = "closed" THEN -1 ELSE fd
      BY DEF FirstListed
  <2> HIDE DEF hits, fd
  <2> QED
      BY <1>1, <2>1, <2>2, Zenon
<1>2. CASE a \in Inet
  <2>1. FirstListed(table, <<"any", a>>, 3)' = f
      BY <1>1, <1>2 DEF Inherited, getSocketInet
  <2> QED
      BY <1>2, <2>1 DEF Inherited, getSocketInet
<1>3. CASE a \notin Inet
  <2>1. FirstListed(table, <<a>>, 2)' = f
      BY <1>1, <1>3 DEF Inherited, getSocketUnix
  <2> QED
      BY <1>3, <2>1 DEF Inherited, getSocketUnix
<1> QED
    BY <1>2, <1>3

(* The applications that NoOrphan is about. *)
Single == OpensOnce \/ "exec" \notin app.habits

Reachable(f) ==
    \/ \E s \in Servers : srv[s].fd = f
    \/ \E a \in Addrs : a = table[f].addr /\ Inherited(table, a) = f
    \/ f \in SdFds

(* A listener is reachable; before the first exec it is held by a server   *)
(* that noted its address, which no other server has noted if addresses    *)
(* are opened once: so the entry that exec makes for it is the only one.   *)
OrphanInv ==
    /\ Single => \A f \in Fds : execs < 2 /\ table[f].kind = "listen" => Reachable(f)
    /\ Single /\ execs = 0 =>
          \A f \in Fds \ SdFds : table[f].kind = "listen" =>
              \E s \in Servers : srv[s].fd = f /\ srv[s].addr = table[f].addr
    /\ OpensOnce => \A s, r \in Servers : srv[s].addr = srv[r].addr /\ srv[s].addr # NoAddr => s = r

(* A step that leaves env alone, and makes listeners for servers only,     *)
(* loses none.                                                             *)
LEMMA StepOrphanInv ==
    ASSUME Shape, OrphanInv, UNCHANGED <<app, env, execs>>,
           OpensOnce => \A s, r \in Servers : srv'[s].addr = srv'[r].addr /\ srv'[s].addr # NoAddr => s = r,
           \A f \in Fds : table'[f].kind = "listen" =>
              \/ \E s \in Servers : srv'[s].fd = f /\ srv'[s].addr = table'[f].addr
              \/ /\ table[f].kind = "listen" /\ table'[f].addr = table[f].addr
                 /\ \A s \in Servers : srv[s].fd = f => srv'[s].fd = f /\ srv'[s].addr = srv[s].addr
    PROVE  OrphanInv'
<1>1. OpensOnce' = OpensOnce /\ Single' = Single /\ SdFds' = SdFds
    BY DEF OpensOnce, Single, SdFds
<1>2. ASSUME Single, execs < 2, NEW f \in Fds, table'[f].kind = "listen" PROVE Reachable(f)'
  <2>1. CASE \E s \in Servers : srv'[s].fd = f
      BY <2>1 DEF Reachable
  <2>2. CASE ~ \E s \in Servers : srv'[s].fd = f
    <3>1. /\ table[f].kind = "listen" /\ table'[f].addr = table[f].addr
          /\ \A s \in Servers : srv[s].fd # f
        BY <1>2, <2>2
    <3>2. f \in SdFds \/ \E a \in Addrs : a = table[f].addr /\ Inherited(table, a) = f
        BY <1>2, <3>1 DEF OrphanInv, Reachable
    <3>3. f # -1
        BY ServerAssumption DEF Fds
    <3>4. ASSUME NEW a \in Addrs, a = table[f].addr, Inherited(table, a) = f
          PROVE  Reachable(f)'
      <4>1. Inherited(table, a)' = f
          BY <1>2, <3>3, <3>4, StillFound
      <4> QED
          BY <3>1, <3>4, <4>1 DEF Reachable
    <3> QED
        BY <1>1, <3>2, <3>4 DEF Reachable
  <2> QED
      BY <2>1, <2>2
<1>3. ASSUME Single, execs = 0, NEW f \in Fds \ SdFds, table'[f].kind = "listen"
      PROVE  \E s \in Servers : srv'[s].fd = f /\ srv'[s].addr = table'[f].addr
    BY <1>3 DEF OrphanInv
<1> QED
    BY <1>1, <1>2, <1>3 DEF OrphanInv

(* exec lists the listeners that it passes on, each under its address. *)
LEMMA ExecOrphanInv ==
    ASSUME Shape, Shape', Findable', OrphanInv, Exec
    PROVE  OrphanInv'
<1>1. /\ \A s \in Servers : srv'[s].addr = NoAddr
      /\ app' = app /\ "exec" \in app.habits /\ execs' = execs + 1 /\ execs \in Nat
      /\ \A f \in Fds : table'[f].kind = "listen" =>
            table'[f] = table[f] /\ "cloexec" \notin table[f].flags
    BY Ranges DEF Exec, Dead, Fresh, Closed
<1>2. OpensOnce' = OpensOnce /\ Single' = Single /\ SdFds' = SdFds /\ (Single => OpensOnce)
    BY <1>1 DEF OpensOnce, Single, SdFds
<1>3. ASSUME Single, execs' < 2, NEW f \in Fds, table'[f].kind = "listen", f \notin SdFds
      PROVE  Reachable(f)'
  <2> DEFINE a == table[f].addr
  <2>1. execs = 0 /\ table[f].kind = "listen" /\ a \in Addrs /\ table'[f].addr = a
      BY <1>1, <1>3 DEF Shape, Descriptor
  <2>2. PICK s \in Servers : srv[s].fd = f /\ srv[s].addr = a
      BY <1>3, <2>1 DEF OrphanInv
  <2>3. PICK order \in [1..Cardinality(Passed) -> Passed] :
            /\ \A r \in Passed : \E i \in DOMAIN order : order[i] = r
            /\ env' = [i \in DOMAIN order |-> serialize(order[i])]
      BY Zenon DEF Exec
  <2>4. Len(env') = Cardinality(Passed)
      BY <2>3, PassedIs
  <2>5. s \in Passed
    <3>1. srv[s].fd # -1 /\ "cloexec" \notin table[srv[s].fd].flags
        BY <1>1, <1>3, <2>2, ServerAssumption DEF Fds
    <3> QED
        BY <3>1, PassedIs
  <2>6. PICK k \in 1..Len(env') : order[k] = s
      BY <2>3, <2>4, <2>5
  <2>7. Lists(env'[k], a, f)
    <3>1. env'[k] = serialize(s)
        BY <2>3, <2>4, <2>6
    <3>2. srv[s].kind = "inet" <=> a \in Inet
      <4>1. srv[s].addr \in Family(srv[s].kind) \cup {NoAddr}
          BY DEF Shape, Fields
      <4> QED
          BY <2>1, <2>2, <4>1, ServerAssumption DEF Family, Addrs
    <3> HIDE DEF a
    <3> QED
        BY <2>1, <2>2, <3>1, <3>2 DEF serialize, Lists, Addrs
  <2>8. ASSUME NEW i \in 1..Len(env'), NEW g \in Fds, Lists(env'[i], a, g) PROVE g = f
    <3>1. order[i] \in Servers /\ env'[i] = serialize(order[i])
        BY <2>3, <2>4, PassedIs
    <3>2. srv[order[i]].fd = g /\ srv[order[i]].addr = a
      <4> HIDE DEF a
      <4> QED
        BY <2>1, <2>8, <3>1, EntryLists
    <3>3. order[i] = s
        BY <1>2, <1>3, <2>1, <2>2, <3>1, <3>2, ServerAssumption DEF OrphanInv
    <3> QED
        BY <2>2, <3>2, <3>3
  <2>9. PICK b \in Addrs : b = a
      BY <2>1
  <2>10. Inherited(table, b)' = f
    <3> HIDE DEF a
    <3> QED
        BY <1>3, <2>7, <2>8, <2>9 DEF Findable
  <2> QED
      BY <2>1, <2>9, <2>10 DEF Reachable
<1>4. ASSUME Single, execs' < 2, NEW f \in Fds, table'[f].kind = "listen" PROVE Reachable(f)'
    BY <1>2, <1>3, <1>4 DEF Reachable
<1> QED
    BY <1>1, <1>2, <1>4 DEF OrphanInv

(* Every effect keeps OrphanInv. *)
LEMMA EffectOrphanInv ==
    ASSUME Shape, Shape', Findable', Effect, FileInv, OrphanInv
    PROVE  OrphanInv'
<1>1. Shape' /\ Findable' /\ Effect
    OBVIOUS
<1>2. \A r \in Servers : srv[r].fd \in Fds \cup {-1}
    BY Ranges
<1>3. -1 \notin Fds /\ NoAddr \notin Addrs /\ Closed.kind = "closed"
    BY ServerAssumption DEF Fds, Closed
<1>4. ASSUME NEW s \in Servers, Opening(s) PROVE OrphanInv'
  <2>1. PICK a \in Addrs, o0 \in Objects :
            /\ OpensOnce => a \notin opened
            /\ o0.addr = srv[s].addr
            /\ Opened(s, o0, a)
      BY <1>4 DEF Opening
  <2>2. /\ UNCHANGED <<app, env, execs>> /\ srv[s].fd = -1
        /\ \A r \in Servers \ {s} : srv'[r] = srv[r]
      BY <1>4, <2>1 DEF Opening, Constant, Opened, Sound
  <2>3. /\ srv'[s].addr \in {srv[s].addr, a}
        /\ \A f \in Fds : \/ Kept(f) \/ table'[f] = Closed
                          \/ srv'[s].fd = f /\ srv'[s].addr = a /\ table'[f].addr = a
      BY <2>1 DEF Opened, Adopted, Dropped, Refused, Wasted, Made, Missed, Bound
  <2>4. OpensOnce => \A r \in Servers : srv[r].addr # a
      BY <1>3, <2>1 DEF FileInv, Tidy
  <2>5. OpensOnce => \A q, r \in Servers : srv'[q].addr = srv'[r].addr /\ srv'[q].addr # NoAddr => q = r
      BY <2>2, <2>3, <2>4 DEF OrphanInv
  <2>6. \A f \in Fds : table'[f].kind = "listen" =>
              \/ \E q \in Servers : srv'[q].fd = f /\ srv'[q].addr = table'[f].addr
              \/ /\ table[f].kind = "listen" /\ table'[f].addr = table[f].addr
                 /\ \A q \in Servers : srv[q].fd = f => srv'[q].fd = f /\ srv'[q].addr = srv[q].addr
      BY <1>3, <2>2, <2>3 DEF Kept
  <2> QED
      BY <2>2, <2>5, <2>6, StepOrphanInv
<1>5. ASSUME NEW s \in Servers, Closing(s) PROVE OrphanInv'
  <2>1. /\ UNCHANGED <<app, env, execs>>
        /\ srv'[s].addr \in {srv[s].addr, NoAddr}
        /\ \A r \in Servers \ {s} : srv'[r] = srv[r]
        /\ \A f \in Fds : table'[f].kind = "listen" => f # srv[s].fd /\ table'[f] = table[f]
      BY <1>2, <1>3, <1>5 DEF Closing, Constant
  <2>2. OpensOnce => \A q, r \in Servers : srv'[q].addr = srv'[r].addr /\ srv'[q].addr # NoAddr => q = r
      BY <2>1 DEF OrphanInv
  <2>3. \A f \in Fds : table'[f].kind = "listen" =>
              /\ table[f].kind = "listen" /\ table'[f].addr = table[f].addr
              /\ \A q \in Servers : srv[q].fd = f => srv'[q].fd = f /\ srv'[q].addr = srv[q].addr
      BY <2>1
  <2> QED
      BY <2>1, <2>2, <2>3, StepOrphanInv
<1>6. ASSUME UNCHANGED <<app, env, execs>>,
             \A q \in Servers : srv'[q].fd = srv[q].fd /\ srv'[q].addr = srv[q].addr,
             \A f \in Fds : table'[f].kind = "listen" =>
                table[f].kind = "listen" /\ table'[f].addr = table[f].addr
      PROVE  OrphanInv'
  <2>1. OpensOnce => \A q, r \in Servers : srv'[q].addr = srv'[r].addr /\ srv'[q].addr # NoAddr => q = r
      BY <1>6 DEF OrphanInv
  <2> QED
      BY <1>6, <2>1, StepOrphanInv
<1>7. ASSUME NEW f \in Fds, Joining(f) \/ Leaving(f) PROVE OrphanInv'
    BY SMTT(20), <1>3, <1>6, <1>7 DEF Joining, Leaving, Constant
<1>8. CASE Steady
    BY <1>6, <1>8 DEF Steady, Constant
<1>9. CASE Exec
    BY <1>1, <1>9, ExecOrphanInv
<1> QED
    BY <1>1, <1>4, <1>5, <1>7, <1>8, <1>9 DEF Effect

(* No step loses a listener. *)
LEMMA NextOrphanInv == Shape /\ FileInv /\ OrphanInv /\ [Next]_vars => OrphanInv'
<1> SUFFICES ASSUME Shape, FileInv, OrphanInv, [Next]_vars PROVE OrphanInv'
    OBVIOUS
<1>1. Shape' /\ Effect
    BY NextEffect
<1>2. (Shape => Findable)'
    BY ListedIsFound, PTL
<1> QED
    BY <1>1, <1>2, EffectOrphanInv

(* At first the listeners are systemd's. *)
LEMMA InitOrphanInv == Init => OrphanInv
<1> SUFFICES ASSUME Init PROVE OrphanInv
    OBVIOUS
<1>1. \A s \in Servers : srv[s].addr = NoAddr
    BY DEF Init, Dead, Fresh
<1>2. \A f \in Fds : table[f].kind = "listen" => f \in SdFds
    BY DEF Init, Closed
<1> QED
    BY <1>1, <1>2 DEF OrphanInv, Reachable

(* Nothing is lost: a listener that is open in the process is held by a    *)
(* server, or systemd's, or open() of its address would find it.  A driver *)
(* is its server's, or the application's.                                  *)
THEOREM NothingOrphaned == Spec => []NoOrphan
<1>1. OrphanInv /\ DriverInv => NoOrphan
    BY DEF OrphanInv, DriverInv, NoOrphan, Single, Reachable
<1>2. Shape /\ [Next]_vars => Shape'
    BY NextEffect
<1> QED
    BY <1>1, <1>2, InitShape, InitOwnerInv, InitFileInv, InitOrphanInv, NextOwnerInv,
       NextDriverInv, NextFileInv, NextOrphanInv, PTL DEF Spec

(* The listener f at a path is closed, and that is no destructor's doing:  *)
(* then its file goes too.                                                 *)
LEMMA EndsWithFile ==
    ASSUME Shape, Shape', Effect, OwnerInv, OrphanInv, OnItsOwn, NEW f \in Fds,
           table[f].kind = "listen", table[f].addr \in Unix, table'[f].kind # "listen",
           \A s \in Servers : srv[s].fd = f => srv'[s].alive # "no"
    PROVE  table[f].addr \notin files'
<1>1. app.sd = <<>> /\ "exec" \notin app.habits /\ execs = 0 /\ Len(env) = 0 /\ missed = "no"
    BY DEF OnItsOwn, Shape
<1>2. Holding
    BY <1>1 DEF OwnerInv, Unshared
<1>3. PICK s \in Servers : srv[s].fd = f /\ srv[s].addr = table[f].addr
  <2>1. f \notin SdFds
      BY <1>1 DEF SdFds
  <2> QED
      BY <1>1, <2>1 DEF OrphanInv, Single
<1>4. ASSUME NEW r \in Servers, Opening(r) PROVE FALSE
  <2>1. PICK a \in Addrs, o0 \in Objects : Opened(r, o0, a)
      BY <1>4 DEF Opening
  <2>2. \A g : ~Handed(a, g)
      BY SMTT(20), <1>1 DEF Handed
  <2>3. Kept(f)
      BY SMTT(20), <1>1, <2>1, <2>2 DEF Opened, Adopted, Dropped, Refused, Wasted, Made, Missed
  <2> QED
      BY <2>3 DEF Kept
<1>5. ASSUME NEW r \in Servers, Closing(r) PROVE srv[s].addr \notin files'
  <2>1. srv[r].fd = f
      BY <1>5 DEF Closing
  <2>2. r = s
      BY SMTT(20), <1>2, <1>3, <2>1, ServerAssumption DEF Holding, IsOpen, Fds
  <2>3. srv'[s].alive = "yes"
    <3>1. srv'[s].alive \in {"yes", "no"}
        BY SMTT(20) DEF Shape, TypeOK, Objects
    <3> QED
        BY SMTT(20), <1>3, <3>1
  <2> QED
      BY SMTT(20), <1>5, <2>2, <2>3 DEF Closing
<1>6. ASSUME NEW g \in Fds, Joining(g) \/ Leaving(g) PROVE FALSE
    BY SMTT(20), <1>2, <1>6 DEF Joining, Leaving, Holding
<1>7. CASE Steady
    BY <1>7 DEF Steady
<1>8. CASE Exec
    BY <1>1, <1>8 DEF Exec
<1> QED
    BY SMTT(20), <1>3, <1>4, <1>5, <1>6, <1>7, <1>8 DEF Effect

(* A UNIX listener ends with its socket file, but for the destructor: the  *)
(* server that close() is called on is the one that made the listener, and *)
(* noted in bind() the path that close() removes.                          *)
THEOREM FilesGo == Spec => FileGoesWithListener
<1>1. Shape /\ OwnerInv /\ OrphanInv /\ [Next]_vars
      => [OnItsOwn =>
             \A f \in Fds :
                 /\ table[f].kind = "listen" /\ table[f].addr \in Unix
                 /\ table'[f].kind # "listen"
                 => \/ table[f].addr \notin files'
                    \/ \E s \in Servers : srv[s].fd = f /\ srv'[s].alive = "no"]_vars
    BY NextEffect, EndsWithFile
<1>2. Shape /\ [Next]_vars => Shape'
    BY NextEffect
<1> QED
    BY <1>1, <1>2, InitShape, InitOwnerInv, InitFileInv, InitOrphanInv, NextOwnerInv,
       NextFileInv, NextOrphanInv, PTL DEF Spec, FileGoesWithListener
=============================================================================
