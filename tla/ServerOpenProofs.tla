------------------------- MODULE ServerOpenProofs ---------------------------
(***************************************************************************)
(* What open() finds among the listeners that were passed to this image,   *)
(* and the ways in which it ends.                                          *)
(***************************************************************************)
EXTENDS ServerOpen, ServerEffects, TLAPS

(* A set of numbers has a least element. *)
LEMMA Least ==
    ASSUME Shape, NEW T, T \subseteq Nat, T # {}
    PROVE  \E m \in T : \A n \in T : m <= n
    BY Zenon DEF Shape, Counting

(* The sockets that systemd passes fit into the table. *)
LEMMA SdRange ==
    ASSUME Shape
    PROVE  /\ DOMAIN app.sd = 1..Len(app.sd) /\ Len(app.sd) \in Nat
           /\ 2 + Len(app.sd) <= MaxFd /\ (app.sd = <<>> => Len(app.sd) = 0)
<1>1. app \in Applications
    BY DEF Shape, TypeOK
<1> QED
    BY <1>1, ServerAssumption

(* The kernel finds a free descriptor if there is one. *)
LEMMA NewFdIsFree ==
    ASSUME Shape, NEW t, Free(t) # {}
    PROVE  NewFd(t) \in Fds /\ t[NewFd(t)].kind = "closed"
<1>1. Free(t) \subseteq Nat
    BY ServerAssumption DEF Free, Fds
<1>2. \E f \in Free(t) : \A g \in Free(t) : f <= g
    BY Zenon, <1>1, Least
<1>3. NewFd(t) \in Free(t)
    BY <1>2 DEF NewFd
<1> QED
    BY <1>3 DEF Free

(* An entry begins with two tokens, or with one. *)
LEMMA BeginsWithTwo ==
    ASSUME NEW e, Len(e) \in {2, 3}, NEW x, NEW y
    PROVE  SubSeq(e, 1, 2) = <<x, y>> <=> e[1] = x /\ e[2] = y
<1>1. SubSeq(e, 1, 2) = [i \in 1..2 |-> e[i]]
    OBVIOUS
<1>2. ASSUME SubSeq(e, 1, 2) = <<x, y>> PROVE e[1] = x /\ e[2] = y
  <2>1. SubSeq(e, 1, 2)[1] = e[1] /\ SubSeq(e, 1, 2)[2] = e[2]
      BY <1>1
  <2>2. <<x, y>>[1] = x /\ <<x, y>>[2] = y
      OBVIOUS
  <2> QED
      BY Zenon, <1>2, <2>1, <2>2
<1>3. ASSUME e[1] = x, e[2] = y PROVE [i \in 1..2 |-> e[i]] = <<x, y>>
    BY <1>3
<1> QED
    BY Zenon, <1>1, <1>2, <1>3

(* The same for a path, the only token before the descriptor. *)
LEMMA BeginsWithOne ==
    ASSUME NEW e, Len(e) \in {2, 3}, NEW x
    PROVE  SubSeq(e, 1, 1) = <<x>> <=> e[1] = x
<1>1. SubSeq(e, 1, 1) = [i \in 1..1 |-> e[i]]
    OBVIOUS
<1>2. ASSUME SubSeq(e, 1, 1) = <<x>> PROVE e[1] = x
  <2>1. SubSeq(e, 1, 1)[1] = e[1]
      BY <1>1
  <2>2. <<x>>[1] = x
      OBVIOUS
  <2> QED
      BY Zenon, <1>2, <2>1, <2>2
<1>3. ASSUME e[1] = x PROVE [i \in 1..1 |-> e[i]] = <<x>>
    BY <1>3
<1> QED
    BY Zenon, <1>1, <1>2, <1>3

(* The search is for a first entry, which is there if any entry is. *)
LEMMA FirstListedIs ==
    ASSUME Shape, NEW t, NEW name, NEW at, FirstListed(t, name, at) # -1
    PROVE  \E i \in 1..Len(env) :
              /\ SubSeq(env[i], 1, Len(name)) = name
              /\ FirstListed(t, name, at) = env[i][at]
              /\ t[env[i][at]].kind # "closed"
<1> DEFINE hits == {i \in 1..Len(env) : SubSeq(env[i], 1, Len(name)) = name}
           i0 == CHOOSE i \in hits : \A j \in hits : i <= j
<1>1. hits \subseteq Nat
    OBVIOUS
<1>2. FirstListed(t, name, at) = IF hits = {} THEN -1
          ELSE IF t[env[i0][at]].kind = "closed" THEN -1 ELSE env[i0][at]
    BY Zenon DEF FirstListed
<1>3. /\ hits # {} /\ i0 \in hits
      /\ FirstListed(t, name, at) = env[i0][at] /\ t[env[i0][at]].kind # "closed"
  <2> HIDE DEF hits
  <2>1. hits # {}
      BY <1>2
  <2>2. \E i \in hits : \A j \in hits : i <= j
      BY Zenon, <1>1, <2>1, Least
  <2>3. i0 \in hits
      BY <2>2
  <2> HIDE DEF i0
  <2> QED
      BY <1>2, <2>1, <2>3
<1> QED
    BY Zenon, <1>3

(* What getSocketInet() and getSocketUnix() find is listed for the address *)
(* and was not closed.                                                     *)
LEMMA InheritedIsListed ==
    ASSUME Shape, NEW t, NEW a \in Addrs, Inherited(t, a) # -1
    PROVE  /\ Inherited(t, a) \in Fds
           /\ t[Inherited(t, a)].kind # "closed"
           /\ \E i \in 1..Len(env) : Lists(env[i], a, Inherited(t, a))
<1>1. CASE a \in Inet
  <2> DEFINE name == <<"any", a>>
  <2>1. Inherited(t, a) = FirstListed(t, name, 3) /\ Len(name) = 2
      BY <1>1 DEF Inherited, getSocketInet
  <2>2. PICK i \in 1..Len(env) : /\ SubSeq(env[i], 1, Len(name)) = name
                                  /\ Inherited(t, a) = env[i][3]
                                  /\ t[env[i][3]].kind # "closed"
    <3> DEFINE at == 3
    <3>1. Inherited(t, a) = FirstListed(t, name, at)
        BY <2>1
    <3> HIDE DEF name, at
    <3>2. PICK i \in 1..Len(env) : /\ SubSeq(env[i], 1, Len(name)) = name
                                    /\ FirstListed(t, name, at) = env[i][at]
                                    /\ t[env[i][at]].kind # "closed"
        BY <3>1, FirstListedIs
    <3> QED
        BY <3>1, <3>2 DEF at
  <2>3. SubSeq(env[i], 1, 2) = <<"any", a>>
      BY <2>1, <2>2
  <2>4. env[i][1] = "any" /\ env[i][2] = a /\ IsEntry(env[i])
    <3>1. IsEntry(env[i])
        BY DEF Shape
    <3>2. Len(env[i]) \in {2, 3}
        BY <3>1 DEF IsEntry
    <3> QED
        BY <2>3, <3>1, <3>2, BeginsWithTwo
  <2> QED
      BY <1>1, <2>2, <2>4, ServerAssumption DEF IsEntry, Lists, Addrs
<1>2. CASE a \in Unix
  <2> DEFINE name == <<a>>
  <2>1. Inherited(t, a) = FirstListed(t, name, 2) /\ Len(name) = 1
      BY <1>2, ServerAssumption DEF Inherited, getSocketUnix
  <2>2. PICK i \in 1..Len(env) : /\ SubSeq(env[i], 1, Len(name)) = name
                                  /\ Inherited(t, a) = env[i][2]
                                  /\ t[env[i][2]].kind # "closed"
    <3> DEFINE at == 2
    <3>1. Inherited(t, a) = FirstListed(t, name, at)
        BY <2>1
    <3> HIDE DEF name, at
    <3>2. PICK i \in 1..Len(env) : /\ SubSeq(env[i], 1, Len(name)) = name
                                    /\ FirstListed(t, name, at) = env[i][at]
                                    /\ t[env[i][at]].kind # "closed"
        BY <3>1, FirstListedIs
    <3> QED
        BY <3>1, <3>2 DEF at
  <2>3. SubSeq(env[i], 1, 1) = <<a>>
      BY <2>1, <2>2
  <2>4. env[i][1] = a /\ IsEntry(env[i])
    <3>1. IsEntry(env[i])
        BY DEF Shape
    <3>2. Len(env[i]) \in {2, 3}
        BY <3>1 DEF IsEntry
    <3> QED
        BY <2>3, <3>1, <3>2, BeginsWithOne
  <2> QED
      BY <1>2, <2>2, <2>4, ServerAssumption DEF IsEntry, Lists, Addrs
<1> QED
    BY <1>1, <1>2 DEF Addrs

(* Nothing is left in a descriptor that is closed. *)
LEMMA ClosedIs ==
    ASSUME Shape
    PROVE  \A f \in Fds : table[f].kind = "closed" => table[f] = Closed
<1>1. \A f \in Fds : Descriptor(table[f], conns)
    BY DEF Shape
<1> QED
    BY <1>1 DEF Descriptor

(* sd_listen_fds() does no more than set close-on-exec. *)
LEMMA MarkedKeeps ==
    ASSUME Shape
    PROVE  /\ SdMarked(table) \in [Fds -> Descriptors]
           /\ \A f \in Fds :
                 /\ SdMarked(table)[f].kind = table[f].kind
                 /\ SdMarked(table)[f].addr = table[f].addr
                 /\ SdMarked(table)[f].queue = table[f].queue
                 /\ table[f].flags \subseteq SdMarked(table)[f].flags
                 /\ table[f].kind = "closed" => SdMarked(table)[f] = Closed
<1> DEFINE more(f) == IF f \in SdFds /\ \A g \in 3..f : table[g].kind # "closed"
                      THEN {"cloexec"} ELSE {}
<1>1. table \in [Fds -> Descriptors]
    BY DEF Shape, TypeOK, Descriptors
<1>2. SdMarked(table) = [f \in Fds |-> [table[f] EXCEPT !.flags = @ \cup more(f)]]
    BY <1>1 DEF SdMarked
<1>3. \A f : more(f) \subseteq {"cloexec"}
    OBVIOUS
<1>4. ASSUME NEW f \in Fds, table[f].kind = "closed" PROVE more(f) = {}
    BY <1>4 DEF Fds
<1> HIDE DEF more
<1>5. ASSUME NEW f \in Fds
      PROVE  LET d == [table[f] EXCEPT !.flags = @ \cup more(f)]
             IN  /\ d \in Descriptors
                 /\ d.kind = table[f].kind /\ d.addr = table[f].addr
                 /\ d.queue = table[f].queue /\ d.flags = table[f].flags \cup more(f)
    BY <1>1, <1>3 DEF Descriptors, Flags
<1>6. ASSUME NEW f \in Fds, table[f].kind = "closed"
      PROVE  [table[f] EXCEPT !.flags = @ \cup more(f)] = Closed
  <2>1. table[f] = Closed /\ more(f) = {}
      BY <1>4, <1>6, ClosedIs
  <2> QED
      BY <2>1 DEF Closed
<1>7. \A f \in Fds : SdMarked(table)[f] = [table[f] EXCEPT !.flags = @ \cup more(f)]
    BY <1>2
<1>8. SdMarked(table) \in [Fds -> Descriptors]
    BY <1>2, <1>5
<1> QED
    BY Zenon, <1>5, <1>6, <1>7, <1>8

(* The object whose fields are to be o, and the table t, of a result. *)
LEMMA BecomesSound ==
    ASSUME Shape, NEW s \in Servers, NEW o0, NEW o \in Objects, NEW t \in [Fds -> Descriptors],
           NEW fs, Becomes(s, Result(o, t, fs)),
           \A f \in Fds : t[f].kind = "closed" => t[f] = Closed,
           o.alive = o0.alive, o.kind = o0.kind, o.driver = o0.driver,
           o.active = "yes" => o.fd # -1
    PROVE  Sound(s, o0) /\ srv'[s] = o /\ table' = t /\ files' = fs
<1>1. srv \in [Servers -> Objects]
    BY DEF Shape, TypeOK, Objects
<1>2. srv' = [srv EXCEPT ![s] = o] /\ table' = t /\ files' = fs
    BY DEF Becomes, Result
<1> QED
    BY <1>1, <1>2 DEF Sound

(* open() notes the flags first. *)
Asked(o, o0, fl) ==
    /\ o \in Objects /\ o.fd = -1 /\ o.addr = o0.addr /\ (Promised(o) => "nonblock" \in fl)
    /\ o.alive = o0.alive /\ o.kind = o0.kind /\ o.driver = o0.driver
    /\ o.active = "no" /\ o.reuse = o0.reuse

(* A passed descriptor is taken, or closed. *)
LEMMA AdoptEnds ==
    ASSUME Shape, NEW s \in Servers, NEW o0 \in Objects,
           NEW a, NEW fl \in SUBSET Flags, NEW f \in Fds, Handed(a, f), NEW err,
           NEW o, Asked(o, o0, fl),
           Adopt(s, o, SdMarked(table), f, fl, err), missed' = missed
    PROVE  Opened(s, o0, a)
<1> DEFINE t     == SdMarked(table)
           owned == [o EXCEPT !.fd = f]
           t2    == [t EXCEPT ![f].flags = @ \cup Applied(o, fl)]
<1>1. /\ owned \in Objects /\ owned.fd = f /\ owned.addr = o0.addr
      /\ (Promised(owned) => "nonblock" \in fl)
      /\ owned.alive = o0.alive /\ owned.kind = o0.kind /\ owned.driver = o0.driver
      /\ owned.active = "no"
    BY DEF Asked, Objects, Promised
<1>2. Applied(o, fl) \subseteq Flags /\ ("nonblock" \in fl => "nonblock" \in Applied(o, fl))
    BY DEF Applied, Flags
<1>3. /\ t2 \in [Fds -> Descriptors]
      /\ \A g \in Fds \ {f} : t2[g] = t[g]
      /\ t2[f].kind = t[f].kind /\ t2[f].addr = t[f].addr /\ t2[f].queue = t[f].queue
      /\ t2[f].flags = t[f].flags \cup Applied(o, fl)
    BY <1>2, MarkedKeeps DEF Descriptors
<1>4. /\ \A g \in Fds : /\ t2[g].kind = table[g].kind /\ t2[g].addr = table[g].addr
                        /\ t2[g].queue = table[g].queue
                        /\ table[g].flags \subseteq t2[g].flags
                        /\ t2[g].kind = "closed" => t2[g] = Closed
      /\ "nonblock" \in fl => "nonblock" \in t2[f].flags
    BY <1>2, <1>3, MarkedKeeps DEF Handed
<1> HIDE DEF owned, t2
<1>5. CASE Becomes(s, Done(owned, t2, files))
  <2> DEFINE on == [owned EXCEPT !.active = "yes"]
  <2>1. /\ on \in Objects /\ on.fd = f /\ on.addr = o0.addr /\ (Promised(on) => "nonblock" \in fl)
        /\ on.alive = o0.alive /\ on.kind = o0.kind /\ on.driver = o0.driver
      BY <1>1 DEF Objects, Promised
  <2>2. Becomes(s, Result(on, t2, files)) /\ f # -1
      BY <1>5 DEF Done, Fds
  <2> HIDE DEF on
  <2>3. Sound(s, o0) /\ srv'[s] = on /\ table' = t2 /\ files' = files
      BY <1>3, <1>4, <2>1, <2>2, BecomesSound
  <2>4. Adopted(s, o0, a)
      BY <1>4, <2>1, <2>3 DEF Adopted, Kept
  <2> QED
      BY <2>3, <2>4 DEF Opened
<1>6. CASE Becomes(s, Failed(owned, t2, files))
  <2> DEFINE off == [owned EXCEPT !.fd = -1]
             t3  == [t2 EXCEPT ![f] = Closed]
  <2>1. /\ off \in Objects /\ off.fd = -1 /\ off.addr = o0.addr /\ off.active = "no"
        /\ off.alive = o0.alive /\ off.kind = o0.kind /\ off.driver = o0.driver
      BY <1>1 DEF Objects
  <2>2. Becomes(s, Result(off, t3, files))
      BY <1>1, <1>6 DEF Failed
  <2>3. /\ t3 \in [Fds -> Descriptors] /\ t3[f] = Closed
        /\ \A g \in Fds \ {f} : t3[g] = t2[g]
      BY <1>3, ServerAssumption DEF Closed, Descriptors
  <2> HIDE DEF off, t3
  <2>4. Sound(s, o0) /\ srv'[s] = off /\ table' = t3 /\ files' = files
      BY <1>4, <2>1, <2>2, <2>3, BecomesSound
  <2>5. Dropped(s, o0, a)
      BY <1>4, <2>1, <2>3, <2>4 DEF Dropped, Kept
  <2> QED
      BY <2>4, <2>5 DEF Opened
<1> QED
    BY <1>5, <1>6 DEF Adopt, owned, t2

(* Descriptor g is in the table t what it is in the process' table, but    *)
(* for flags that were added.                                              *)
Alike(t, g) ==
    /\ t[g].kind = table[g].kind /\ t[g].addr = table[g].addr
    /\ t[g].queue = table[g].queue /\ table[g].flags \subseteq t[g].flags
    /\ t[g].kind = "closed" => t[g] = Closed

(* The server s of o0 has made a socket, with number f in table t. *)
Making(s, o0, o, t, f) ==
    /\ f \in Fds /\ table[f] = Closed
    /\ t \in [Fds -> Descriptors] /\ \A g \in Fds \ {f} : Alike(t, g)
    /\ o \in Objects /\ o.fd = f /\ o.active = "no"
    /\ o.alive = o0.alive /\ o.kind = o0.kind /\ o.driver = o0.driver

(* When a call fails, the socket that was made is closed again. *)
LEMMA MadeAndClosed ==
    ASSUME Shape, NEW s \in Servers, NEW o0 \in Objects, NEW o, NEW t, NEW f, NEW fs,
           Making(s, o0, o, t, f), Becomes(s, Failed(o, t, fs))
    PROVE  /\ Sound(s, o0) /\ srv'[s].fd = -1 /\ srv'[s].addr = o.addr /\ files' = fs
           /\ \A g \in Fds : Kept(g)
<1> DEFINE off == [o EXCEPT !.fd = -1]
           t3  == [t EXCEPT ![f] = Closed]
<1>1. /\ off \in Objects /\ off.fd = -1 /\ off.addr = o.addr /\ off.active = "no"
      /\ off.alive = o0.alive /\ off.kind = o0.kind /\ off.driver = o0.driver
    BY DEF Objects, Making
<1>2. Becomes(s, Result(off, t3, fs))
    BY DEF Failed, Making
<1>3. Closed \in Descriptors
    BY ServerAssumption DEF Closed, Descriptors
<1>4. t3 \in [Fds -> Descriptors] /\ t3[f] = Closed /\ \A g \in Fds \ {f} : t3[g] = t[g]
    BY <1>3 DEF Making
<1> HIDE DEF off, t3
<1>5. \A g \in Fds : t3[g].kind = "closed" => t3[g] = Closed
    BY <1>4 DEF Making, Alike
<1>6. Sound(s, o0) /\ srv'[s] = off /\ table' = t3 /\ files' = fs
    BY <1>1, <1>2, <1>4, <1>5, BecomesSound
<1>7. \A g \in Fds : Kept(g)
    BY <1>4, <1>6 DEF Making, Alike, Kept
<1> QED
    BY <1>1, <1>6, <1>7

(* When none fails, the server listens on it. *)
LEMMA MadeAndStarted ==
    ASSUME Shape, NEW s \in Servers, NEW o0 \in Objects, NEW o, NEW t, NEW f, NEW fs, NEW a,
           Making(s, o0, o, t, f), Becomes(s, Done(o, t, fs)), o.addr = a, missed' = missed,
           a \in Unix => a \notin files, fs = files \cup ({a} \cap Unix),
           t[f].kind = "listen", t[f].addr = a, t[f].queue = 0,
           Promised(o) => "nonblock" \in t[f].flags
    PROVE  Sound(s, o0) /\ Made(s, a)
<1> DEFINE on == [o EXCEPT !.active = "yes"]
<1>1. /\ on \in Objects /\ on.fd = f /\ on.addr = a /\ (Promised(on) <=> Promised(o))
      /\ on.alive = o0.alive /\ on.kind = o0.kind /\ on.driver = o0.driver
    BY DEF Objects, Making, Promised
<1>2. Becomes(s, Result(on, t, fs))
    BY DEF Done
<1> HIDE DEF on
<1>3. f # -1 /\ \A g \in Fds : t[g].kind = "closed" => t[g] = Closed
    BY DEF Making, Alike, Fds
<1>4. Sound(s, o0) /\ srv'[s] = on /\ table' = t /\ files' = fs
    BY <1>1, <1>2, <1>3, BecomesSound DEF Making
<1>5. Bound(s, a)
    BY <1>1, <1>4 DEF Bound
<1>6. \A g \in Fds \ {f} : Kept(g)
    BY <1>4 DEF Making, Alike, Kept
<1>7. f \in Fds /\ table[f].kind = "closed"
    BY DEF Making, Closed
<1> QED
    BY <1>1, <1>4, <1>5, <1>6, <1>7 DEF Made

(* A socket that is made is closed again unless all of the calls succeed. *)
LEMMA ManualEnds ==
    ASSUME Shape, NEW s \in Servers, NEW o0 \in Objects,
           NEW a \in Family(o0.kind), NEW fl \in SUBSET Flags,
           NEW o, Asked(o, o0, fl),
           Manual(s, o, SdMarked(table), a, fl), missed' = missed
    PROVE  Opened(s, o0, a)
<1> DEFINE t == SdMarked(table)
<1>1. /\ o \in Objects /\ o.fd = -1 /\ o.addr = o0.addr /\ (Promised(o) => "nonblock" \in fl)
      /\ o.alive = o0.alive /\ o.kind = o0.kind /\ o.driver = o0.driver
      /\ o.active = "no" /\ o.reuse = o0.reuse
    BY DEF Asked
<1>2. /\ t \in [Fds -> Descriptors]
      /\ \A g \in Fds : /\ t[g].kind = table[g].kind /\ t[g].addr = table[g].addr
                        /\ t[g].queue = table[g].queue
                        /\ table[g].flags \subseteq t[g].flags
                        /\ t[g].kind = "closed" => t[g] = Closed /\ table[g] = Closed
    BY MarkedKeeps, ClosedIs
<1> HIDE DEF t
<1>3. CASE Free(t) = {}
  <2>1. Becomes(s, Result(o, t, files))
      BY <1>3 DEF Manual, t
  <2>2. Sound(s, o0) /\ srv'[s] = o /\ table' = t /\ files' = files
    <3>1. o.active = "yes" => o.fd # -1
        BY <1>1
    <3> QED
        BY <1>1, <1>2, <2>1, <3>1, BecomesSound
  <2>3. Refused(s, o0)
      BY <1>1, <1>2, <2>2 DEF Refused, Kept
  <2> QED
      BY <2>2, <2>3 DEF Opened
<1>4. CASE Free(t) # {}
  <2> DEFINE f == NewFd(t)
             made(reuse)  == [o EXCEPT !.fd = f, !.reuse = reuse]
             bound(reuse) == [made(reuse) EXCEPT !.addr = a]
             mark(reuse)  == IF reuse = "yes" THEN {"reuse"} ELSE {}
             t2(reuse)    == [t EXCEPT ![f] = Listener(a, Applied(o, fl) \cup mark(reuse))]
             fs           == IF o.kind = "unix" THEN files \cup {a} ELSE files
  <2>1. PICK reuse \in {"no", o.reuse} :
            \/ Becomes(s, Failed(made(reuse), t2(reuse), files))
            \/ /\ ~InUse(t, made(reuse), a)
               /\ \/ Becomes(s, Failed(bound(reuse), t2(reuse), fs))
                  \/ Becomes(s, Done(bound(reuse), t2(reuse), fs))
    <3> HIDE DEF f, made, bound, t2, fs
    <3> QED
        BY <1>4 DEF Manual, t, f, made, bound, t2, fs
  <2>2. f \in Fds /\ t[f] = Closed /\ table[f] = Closed /\ f # -1
    <3>1. f \in Fds /\ t[f].kind = "closed"
        BY <1>4, NewFdIsFree
    <3> HIDE DEF f
    <3> QED
        BY <1>2, <3>1 DEF Fds
  <2> HIDE DEF f
  <2>3. a \in Addrs /\ (a \in Unix <=> o.kind = "unix") /\ fs = files \cup ({a} \cap Unix)
      BY <1>1, ServerAssumption DEF Family, Addrs, Objects
  <2>4. Applied(o, fl) \cup mark(reuse) \subseteq Flags \cup {"reuse"}
        /\ ("nonblock" \in fl => "nonblock" \in Applied(o, fl) \cup mark(reuse))
      BY DEF Applied, Flags
  <2>5. LET l == Listener(a, Applied(o, fl) \cup mark(reuse))
        IN  /\ l \in Descriptors /\ l.kind = "listen" /\ l.addr = a /\ l.queue = 0
            /\ "nonblock" \in fl => "nonblock" \in l.flags
      BY <2>3, <2>4, ServerAssumption DEF Listener, Descriptors
  <2>6. /\ t2(reuse) \in [Fds -> Descriptors]
        /\ \A g \in Fds \ {f} : t2(reuse)[g] = t[g]
        /\ t2(reuse)[f].kind = "listen" /\ t2(reuse)[f].addr = a /\ t2(reuse)[f].queue = 0
        /\ "nonblock" \in fl => "nonblock" \in t2(reuse)[f].flags
      BY <1>2, <2>2, <2>5
  <2>7. /\ made(reuse) \in Objects /\ made(reuse).fd = f /\ made(reuse).addr = o0.addr
        /\ made(reuse).alive = o0.alive /\ made(reuse).kind = o0.kind
        /\ made(reuse).driver = o0.driver /\ (Promised(made(reuse)) => "nonblock" \in fl)
        /\ made(reuse).active = "no"
      BY Zenon, <1>1, <2>2 DEF Objects, Promised
  <2>8. /\ bound(reuse) \in Objects /\ bound(reuse).fd = f /\ bound(reuse).addr = a
        /\ bound(reuse).alive = o0.alive /\ bound(reuse).kind = o0.kind
        /\ bound(reuse).driver = o0.driver /\ (Promised(bound(reuse)) => "nonblock" \in fl)
        /\ bound(reuse).active = "no"
    <3> HIDE DEF made
    <3> QED
        BY <2>3, <2>7 DEF Objects, Promised
  <2>9. ASSUME ~InUse(t, made(reuse), a) PROVE a \in Unix => a \notin files
    <3> HIDE DEF made
    <3> QED
        BY <1>1, <2>3, <2>7, <2>9 DEF InUse
  <2> HIDE DEF made, bound, fs
  <2>10. Making(s, o0, made(reuse), t2(reuse), f) /\ Making(s, o0, bound(reuse), t2(reuse), f)
    <3> HIDE DEF t2
    <3> QED
        BY <1>2, <2>2, <2>6, <2>7, <2>8 DEF Making, Alike
  <2> HIDE DEF t2
  <2>11. CASE Becomes(s, Failed(made(reuse), t2(reuse), files))
    <3>1. /\ Sound(s, o0) /\ srv'[s].fd = -1 /\ srv'[s].addr = o0.addr /\ files' = files
          /\ \A g \in Fds : Kept(g)
        BY SMTT(20), <2>7, <2>10, <2>11, MadeAndClosed
    <3> QED
        BY Zenon, <3>1 DEF Opened, Refused
  <2>12. CASE ~InUse(t, made(reuse), a) /\ Becomes(s, Failed(bound(reuse), t2(reuse), fs))
    <3>1. /\ Sound(s, o0) /\ srv'[s].fd = -1 /\ srv'[s].addr = a /\ files' = fs
          /\ \A g \in Fds : Kept(g)
        BY SMTT(20), <2>8, <2>10, <2>12, MadeAndClosed
    <3> QED
        BY <2>3, <2>9, <2>12, <3>1 DEF Opened, Wasted, Bound
  <2>13. CASE ~InUse(t, made(reuse), a) /\ Becomes(s, Done(bound(reuse), t2(reuse), fs))
    <3>1. Sound(s, o0) /\ Made(s, a)
        BY Zenon, <2>3, <2>6, <2>8, <2>9, <2>10, <2>13, MadeAndStarted
    <3> QED
        BY <3>1 DEF Opened
  <2> QED
      BY <2>1, <2>11, <2>12, <2>13
<1> QED
    BY <1>3, <1>4

(* Without a match among systemd's sockets, what comes after them is closed. *)
LEMMA MissEnds ==
    ASSUME Shape, NEW s \in Servers, NEW o0 \in Objects, NEW a, NEW fl,
           NEW o, Asked(o, o0, fl), app.sd # <<>>,
           SdMiss(s, o, SdMarked(table))
    PROVE  Opened(s, o0, a)
<1> DEFINE t  == SdMarked(table)
           f  == 3 + Len(app.sd)
           o1 == [o EXCEPT !.fd = f]
           o2 == [o1 EXCEPT !.fd = -1]
           t2 == IF o1.fd \in Fds THEN [t EXCEPT ![o1.fd] = Closed] ELSE t
<1>1. Becomes(s, Result(o2, t2, files)) /\ missed' = "yes"
    BY DEF SdMiss, Failed
<1>2. /\ o2 \in Objects /\ o2.fd = -1 /\ o2.addr = o0.addr /\ o2.active = "no"
      /\ o2.alive = o0.alive /\ o2.kind = o0.kind /\ o2.driver = o0.driver
      /\ o1.fd = f
  <2> HIDE DEF f
  <2> QED
      BY Zenon DEF Asked, Objects
<1> HIDE DEF f, o1, o2
<1>3. /\ t \in [Fds -> Descriptors]
      /\ \A g \in Fds : /\ t[g].kind = table[g].kind /\ t[g].addr = table[g].addr
                        /\ t[g].queue = table[g].queue
                        /\ table[g].flags \subseteq t[g].flags
                        /\ t[g].kind = "closed" => t[g] = Closed
    BY MarkedKeeps
<1> HIDE DEF t
<1>4. Closed \in Descriptors
    BY ServerAssumption DEF Closed, Descriptors
<1>5. /\ t2 \in [Fds -> Descriptors]
      /\ \A g \in Fds : t2[g] = t[g] \/ t2[g] = Closed
    BY <1>3, <1>4
<1> HIDE DEF t2
<1>6. \A g \in Fds : t2[g].kind = "closed" => t2[g] = Closed
    BY <1>3, <1>5
<1>7. Sound(s, o0) /\ srv'[s] = o2 /\ table' = t2 /\ files' = files
  <2>1. o2.active = "yes" => o2.fd # -1
      BY <1>2
  <2> QED
      BY <1>1, <1>2, <1>5, <1>6, <2>1, BecomesSound
<1>8. Missed(s, o0)
    BY <1>1, <1>2, <1>3, <1>5, <1>7 DEF Missed, Kept
<1> QED
    BY Zenon, <1>7, <1>8 DEF Opened

(* InetServer::open() and UnixServer::open() end in one of these ways. *)
LEMMA OpenEnds ==
    ASSUME Shape, NEW s \in Servers, NEW o0 \in Objects, o0.fd = -1, o0.active = "no",
           NEW a \in Family(o0.kind), NEW fl \in SUBSET Flags,
           Promised(o0) => "nonblock" \in fl, DoOpen(s, o0, a, fl)
    PROVE  Opened(s, o0, a)
<1> DEFINE o == [o0 EXCEPT !.flags = fl \ {"cloexec", "nonblock"}]
           t == SdMarked(table)
           fcntl == IF o.kind = "inet" THEN fl \ {"async"} # {} ELSE fl # {}
           low == CHOOSE f \in SdMatches(t, a) : \A g \in SdMatches(t, a) : f <= g
<1>1. Asked(o, o0, fl)
    BY Zenon DEF Asked, Objects, Flags, Promised
<1> HIDE DEF o, fcntl, low
<1>2. a \in Addrs
    BY DEF Family, Addrs
<1>3. /\ DOMAIN app.sd = 1..Len(app.sd) /\ Len(app.sd) \in Nat
      /\ 2 + Len(app.sd) <= MaxFd /\ (app.sd = <<>> => Len(app.sd) = 0)
    BY SdRange
<1>4. \/ Inherited(t, a) # -1 /\ Adopt(s, o, t, Inherited(t, a), fl, fcntl) /\ UNCHANGED missed
      \/ Manual(s, o, t, a, fl) /\ UNCHANGED missed
      \/ SdCount(table) > 0 /\ SdMiss(s, o, t)
      \/ /\ SdCount(table) > 0 /\ SdMatches(t, a) # {}
         /\ Adopt(s, o, t, low, fl, fcntl \/ o.kind = "inet")
         /\ UNCHANGED missed
  <2>1. SdCount(table) \in Int
      BY <1>3 DEF SdCount
  <2> HIDE DEF t
  <2> QED
      BY <2>1 DEF DoOpen, o, t, fcntl, low
<1>5. ASSUME SdCount(table) > 0 PROVE app.sd # <<>>
    BY <1>3, <1>5 DEF SdCount
<1>6. CASE Inherited(t, a) # -1 /\ Adopt(s, o, t, Inherited(t, a), fl, fcntl) /\ UNCHANGED missed
  <2> DEFINE f == Inherited(t, a)
  <2>1. f \in Fds /\ t[f].kind # "closed" /\ \E i \in 1..Len(env) : Lists(env[i], a, f)
      BY SMTT(20), <1>2, <1>6, InheritedIsListed
  <2>2. Handed(a, f)
    <3> HIDE DEF f
    <3> QED
        BY <2>1, MarkedKeeps DEF Handed
  <2> QED
      BY SMTT(20), <1>1, <1>6, <2>1, <2>2, AdoptEnds
<1>7. CASE Manual(s, o, t, a, fl) /\ UNCHANGED missed
    BY <1>1, <1>7, ManualEnds
<1>8. CASE SdCount(table) > 0 /\ SdMiss(s, o, t)
    BY <1>1, <1>5, <1>8, MissEnds
<1>9. CASE /\ SdCount(table) > 0 /\ SdMatches(t, a) # {}
           /\ Adopt(s, o, t, low, fl, fcntl \/ o.kind = "inet")
           /\ UNCHANGED missed
  <2>1. SdMatches(t, a) \subseteq Nat
      BY <1>3 DEF SdMatches, SdFds
  <2>2. low \in SdMatches(t, a)
    <3>1. \E f \in SdMatches(t, a) : \A g \in SdMatches(t, a) : f <= g
        BY Zenon, <1>9, <2>1, Least
    <3> QED
        BY <3>1 DEF low
  <2>3. low \in Fds /\ t[low].kind = "listen" /\ t[low].addr = a
      BY <1>3, <2>2, ServerAssumption DEF SdMatches, SdFds, Fds
  <2>4. Handed(a, low)
      BY <1>5, <1>9, <2>3, MarkedKeeps DEF Handed
  <2> QED
      BY <1>1, <1>9, <2>3, <2>4, AdoptEnds
<1> QED
    BY <1>4, <1>6, <1>7, <1>8, <1>9

(* The entry i is one for name. *)
Begins(i, name) == SubSeq(env[i], 1, Len(name)) = name

(* The first entry for a name decides; it is found as long as its          *)
(* descriptor is not closed.                                               *)
LEMMA FirstListedFinds ==
    ASSUME Shape, NEW t, NEW name, NEW at, NEW f, t[f].kind # "closed",
           NEW k \in 1..Len(env), Begins(k, name),
           \A i \in 1..Len(env) : Begins(i, name) => env[i][at] = f
    PROVE  FirstListed(t, name, at) = f
<1> DEFINE hits == {i \in 1..Len(env) : SubSeq(env[i], 1, Len(name)) = name}
           i0 == CHOOSE i \in hits : \A j \in hits : i <= j
<1>1. hits \subseteq Nat /\ hits # {}
    BY DEF Begins
<1>2. FirstListed(t, name, at) = IF hits = {} THEN -1
          ELSE IF t[env[i0][at]].kind = "closed" THEN -1 ELSE env[i0][at]
    BY DEF FirstListed
<1>3. \A i \in hits : env[i][at] = f
    BY DEF Begins
<1> HIDE DEF hits
<1>4. \E i \in hits : \A j \in hits : i <= j
    BY Zenon, <1>1, Least
<1>5. i0 \in hits
    BY <1>4
<1> HIDE DEF i0
<1> QED
    BY Zenon, <1>1, <1>2, <1>3, <1>5

(* Looking up the first entry finds what all entries name. *)
LEMMA ListedIsFound == Shape => Findable
<1> SUFFICES ASSUME Shape, NEW a \in Addrs, NEW f \in Fds, NEW k \in 1..Len(env),
                    table[f].kind # "closed", Lists(env[k], a, f),
                    \A i \in 1..Len(env), g \in Fds : Lists(env[i], a, g) => g = f
             PROVE  Inherited(table, a) = f
    BY DEF Findable
<1>1. Len(env) \in Nat /\ \A i \in 1..Len(env) : IsEntry(env[i])
    BY DEF Shape
<1>2. CASE a \in Inet
  <2> DEFINE name == <<"any", a>>
  <2>1. Inherited(table, a) = FirstListed(table, name, 3) /\ Len(name) = 2
      BY <1>2 DEF Inherited, getSocketInet
  <2>2. Len(env[k]) = 3 /\ env[k][1] = "any" /\ env[k][2] = a
      BY <1>2, ServerAssumption DEF Lists
  <2>3. Begins(k, name)
    <3>1. SubSeq(env[k], 1, 2) = <<"any", a>>
        BY <2>2, BeginsWithTwo
    <3> QED
        BY <2>1, <3>1 DEF Begins
  <2>4. ASSUME NEW i \in 1..Len(env), Begins(i, name)
        PROVE  env[i][3] = f
    <3>1. SubSeq(env[i], 1, 2) = <<"any", a>>
        BY <2>1, <2>4 DEF Begins
    <3>2. env[i][1] = "any" /\ env[i][2] = a
      <4>1. Len(env[i]) \in {2, 3}
          BY <1>1 DEF IsEntry
      <4> QED
          BY <3>1, <4>1, BeginsWithTwo
    <3>3. env[i][3] \in Fds /\ Lists(env[i], a, env[i][3])
        BY <1>1, <1>2, <3>2, ServerAssumption DEF IsEntry, Lists, Addrs
    <3> QED
        BY <3>3
  <2> DEFINE at == 3
  <2> HIDE DEF name
  <2>5. \A i \in 1..Len(env) : Begins(i, name) => env[i][at] = f
      BY <2>4
  <2>6. Inherited(table, a) = FirstListed(table, name, at)
      BY <2>1
  <2> HIDE DEF at
  <2>7. FirstListed(table, name, at) = f
      BY Zenon, <1>1, <2>3, <2>5, FirstListedFinds
  <2> QED
      BY <2>6, <2>7
<1>3. CASE a \in Unix
  <2> DEFINE name == <<a>>
  <2>1. Inherited(table, a) = FirstListed(table, name, 2) /\ Len(name) = 1
      BY <1>3, ServerAssumption DEF Inherited, getSocketUnix
  <2>2. Len(env[k]) = 2 /\ env[k][1] = a
      BY <1>3, ServerAssumption DEF Lists
  <2>3. Begins(k, name)
    <3>1. SubSeq(env[k], 1, 1) = <<a>>
        BY <2>2, BeginsWithOne
    <3> QED
        BY <2>1, <3>1 DEF Begins
  <2>4. ASSUME NEW i \in 1..Len(env), Begins(i, name)
        PROVE  env[i][2] = f
    <3>1. SubSeq(env[i], 1, 1) = <<a>>
        BY <2>1, <2>4 DEF Begins
    <3>2. env[i][1] = a
      <4>1. Len(env[i]) \in {2, 3}
          BY <1>1 DEF IsEntry
      <4> QED
          BY <3>1, <4>1, BeginsWithOne
    <3>3. env[i][2] \in Fds /\ Lists(env[i], a, env[i][2])
        BY <1>1, <1>3, <3>2, ServerAssumption DEF IsEntry, Lists, Addrs
    <3> QED
        BY <3>3
  <2> DEFINE at == 2
  <2> HIDE DEF name
  <2>5. \A i \in 1..Len(env) : Begins(i, name) => env[i][at] = f
      BY <2>4
  <2>6. Inherited(table, a) = FirstListed(table, name, at)
      BY <2>1
  <2> HIDE DEF at
  <2>7. FirstListed(table, name, at) = f
      BY Zenon, <1>1, <2>3, <2>5, FirstListedFinds
  <2> QED
      BY <2>6, <2>7
<1> QED
    BY <1>2, <1>3 DEF Addrs
-----------------------------------------------------------------------------
(* The parts of Shape that steps disturb. *)
LEMMA Parts ==
    ASSUME Shape
    PROVE  /\ srv \in [Servers -> Objects] /\ table \in [Fds -> Descriptors]
           /\ \A s \in Servers : Fields(srv[s])
           /\ \A f \in Fds : Descriptor(table[f], conns)
           /\ conns \in 0..MaxConns /\ MaxConns \in Nat
           /\ clients \in SUBSET Fds /\ drivers \in SUBSET Drivers /\ files \in SUBSET Unix
           /\ pending \in SUBSET Servers /\ \A s \in pending : srv[s].active = "yes"
    BY ServerAssumption DEF Shape, TypeOK

(* What is left to show of a step that changes no server and no file. *)
LEMMA TableShape ==
    ASSUME Shape, UNCHANGED <<app, env, execs, srv, files, drivers, opened, missed>>,
           pending' \in SUBSET Servers, \A s \in pending' : srv[s].active = "yes",
           \/ blocked' \in {blocked, "none"}
           \/ \E s \in Servers : blocked' = s /\ srv[s].active = "yes",
           clients' \in SUBSET Fds, conns' \in conns..MaxConns,
           table' \in [Fds -> Descriptors],
           \A f \in Fds : Descriptor(table'[f], conns')
    PROVE  Shape'
<1>1. TypeOK'
    BY DEF Shape, TypeOK
<1>2. \A s \in Servers : s \in pending' \/ s = blocked' => srv'[s].active = "yes"
    BY ServerAssumption DEF Shape
<1> QED
    BY <1>1, <1>2 DEF Shape

(* What is left to show of a step of the server s while the loop is free. *)
LEMMA ServerShape ==
    ASSUME Shape, Run, NEW s \in Servers,
           UNCHANGED <<app, env, execs, clients, blocked, conns>>,
           srv' \in [Servers -> Objects], \A r \in Servers \ {s} : srv'[r] = srv[r],
           Fields(srv'[s]), pending' \subseteq pending, s \in pending' => srv'[s].active = "yes",
           table' \in [Fds -> Descriptors], \A f \in Fds : Descriptor(table'[f], conns),
           files' \in SUBSET Unix, drivers' \in SUBSET Drivers,
           opened' \in SUBSET (Addrs \cup {NoAddr}), missed' \in {"yes", "no"},
           app.sd = <<>> => missed' = "no"
    PROVE  Shape'
<1>1. TypeOK'
    BY DEF Shape, TypeOK
<1>2. \A r \in Servers : Fields(srv'[r])
    BY Parts
<1>3. \A r \in Servers : r \in pending' \/ r = blocked' => srv'[r].active = "yes"
    BY Parts, ServerAssumption DEF Run
<1> QED
    BY <1>1, <1>2, <1>3 DEF Shape

(* open() of a is called on a server s, or on its clone, with fields o0. *)
Called(s, o0, a, flags) ==
    /\ DoOpen(s, o0, a, flags) /\ a \in Family(o0.kind) /\ a \in Addrs /\ flags \in SUBSET Flags
    /\ Promised(o0) => "nonblock" \in flags
    /\ o0 \in Objects /\ o0.fd = -1 /\ o0.active = "no" /\ o0.alive = "yes"
    /\ o0.addr = srv[s].addr /\ srv[s].addr \in Family(o0.kind) \cup {NoAddr}
    /\ srv[s].fd = -1 /\ srv[s].active = "no"
    /\ opened' = opened \cup {a} /\ (OpensOnce => a \notin opened)
    /\ drivers' \in SUBSET Drivers

(* Such a call ends in one of the ways above. *)
LEMMA CalledOpens ==
    ASSUME Shape, NEW s \in Servers, NEW o0, NEW a, NEW flags, Called(s, o0, a, flags)
    PROVE  o0 \in Objects /\ a \in Addrs /\ Opened(s, o0, a)
    BY OpenEnds DEF Called

(* What open() leaves, however it ends. *)
LEMMA OpenedLeaves ==
    ASSUME Shape, NEW s \in Servers, NEW o0, NEW a \in Addrs, Opened(s, o0, a)
    PROVE  /\ \A g \in Fds : \/ Kept(g) \/ table'[g] = Closed
                             \/ table'[g].kind = "listen" /\ table'[g].addr = a /\ table'[g].queue = 0
           /\ srv'[s].addr \in {o0.addr, a}
           /\ files' \in SUBSET Unix /\ missed' \in {"yes", "no"}
           /\ app.sd = <<>> => missed' = "no"
<1>1. files \in SUBSET Unix /\ missed \in {"yes", "no"} /\ (app.sd = <<>> => missed = "no")
    BY Zenon DEF Shape, TypeOK
<1>2. CASE Adopted(s, o0, a)
    BY <1>1, <1>2 DEF Adopted
<1>3. CASE Dropped(s, o0, a)
    BY <1>1, <1>3 DEF Dropped
<1>4. CASE Refused(s, o0)
    BY <1>1, <1>4 DEF Refused
<1>5. CASE Wasted(s, a)
    BY <1>1, <1>5 DEF Wasted, Bound
<1>6. CASE Made(s, a)
    BY <1>1, <1>6 DEF Made, Bound
<1>7. CASE Missed(s, o0)
    BY <1>1, <1>7 DEF Missed
<1> QED
    BY Zenon, <1>2, <1>3, <1>4, <1>5, <1>6, <1>7 DEF Opened

(* open() keeps Shape, and its effect is that the server opens a. *)
LEMMA CalledEffect ==
    ASSUME Shape, Run, NEW s \in Servers, NEW o0, NEW a, NEW flags, Called(s, o0, a, flags),
           UNCHANGED <<app, env, clients, pending, blocked, conns, execs>>
    PROVE  Shape' /\ Opening(s)
<1>1. o0 \in Objects /\ a \in Addrs /\ Opened(s, o0, a)
    BY CalledOpens
<1>2. /\ srv[s].fd = -1 /\ srv[s].active = "no" /\ o0.addr = srv[s].addr /\ o0.alive = "yes"
      /\ opened' = opened \cup {a} /\ (OpensOnce => a \notin opened)
      /\ {srv[s].addr, a} \subseteq Family(o0.kind) \cup {NoAddr}
      /\ drivers' \in SUBSET Drivers
    BY DEF Called
<1>3. Opening(s)
    BY <1>1, <1>2 DEF Opening, Constant
<1>4. /\ \A g \in Fds : \/ Kept(g) \/ table'[g] = Closed
                        \/ table'[g].kind = "listen" /\ table'[g].addr = a /\ table'[g].queue = 0
      /\ srv'[s].addr \in {srv[s].addr, a}
      /\ files' \in SUBSET Unix /\ missed' \in {"yes", "no"} /\ (app.sd = <<>> => missed' = "no")
    BY SMTT(20), <1>1, <1>2, OpenedLeaves
<1>5. /\ srv' \in [Servers -> Objects] /\ \A r \in Servers \ {s} : srv'[r] = srv[r]
      /\ table' \in [Fds -> Descriptors]
      /\ \A f \in Fds : table'[f].kind = "closed" => table'[f] = Closed
      /\ srv'[s].alive = o0.alive /\ srv'[s].kind = o0.kind
      /\ srv'[s].active = "yes" => srv'[s].fd # -1
    BY <1>1 DEF Opened, Sound
<1>6. \A f \in Fds : Descriptor(table'[f], conns)
  <2>1. Closed.kind = "closed" /\ Closed.queue = 0 /\ 0 <= conns /\ "closed" # "listen"
      BY Parts DEF Closed
  <2>2. ASSUME NEW g \in Fds, Kept(g) PROVE Descriptor(table'[g], conns)
      BY Zenon, <1>5, <2>2, Parts DEF Kept, Descriptor
  <2>3. ASSUME NEW g \in Fds, ~Kept(g) PROVE Descriptor(table'[g], conns)
      BY Zenon, <1>1, <1>4, <1>5, <2>1, <2>3 DEF Descriptor
  <2> QED
      BY Zenon, <2>2, <2>3
<1>7. Fields(srv'[s])
    BY <1>2, <1>4, <1>5 DEF Fields
<1>8. opened' \in SUBSET (Addrs \cup {NoAddr}) /\ s \notin pending'
  <2>1. opened \in SUBSET (Addrs \cup {NoAddr})
      BY Zenon DEF Shape, TypeOK
  <2> QED
      BY Zenon, <1>1, <1>2, <2>1, Parts
<1>9. Shape'
    BY Zenon, <1>2, <1>4, <1>5, <1>6, <1>7, <1>8, ServerShape
<1> QED
    BY <1>3, <1>9

(* What the next image finds in XZERO_LISTEN_FDS. *)
LEMMA ExecEntries ==
    ASSUME Shape, Exec
    PROVE  Len(env') \in Nat /\ \A i \in 1..Len(env') : IsEntry(env'[i])
<1>1. PICK order \in [1..Cardinality(Passed) -> Passed] :
          env' = [i \in DOMAIN order |-> serialize(order[i])]
    BY Zenon DEF Exec
<1>2. Cardinality(Passed) \in Nat
    BY DEF Passed, Shape, Counting
<1>3. Len(env') = Cardinality(Passed)
    BY <1>1, <1>2
<1>4. ASSUME NEW i \in 1..Cardinality(Passed) PROVE IsEntry(env'[i])
  <2>1. /\ order[i] \in Servers /\ srv[order[i]].fd # -1
        /\ env'[i] = serialize(order[i])
      BY <1>1 DEF Passed
  <2>2. /\ srv[order[i]].fd \in Fds /\ srv[order[i]].kind \in {"inet", "unix"}
        /\ srv[order[i]].addr \in Family(srv[order[i]].kind) \cup {NoAddr}
      BY <2>1, Parts DEF Fields, Objects
  <2> QED
      BY <2>1, <2>2 DEF IsEntry, serialize, Family
<1> QED
    BY <1>2, <1>3, <1>4

(* A new program image. *)
LEMMA ExecShape ==
    ASSUME Shape, Exec
    PROVE  Shape'
<1>1. /\ UNCHANGED <<app, files, blocked, missed, conns>> /\ Run
      /\ drivers' = {} /\ clients' = {} /\ pending' = {} /\ opened' = {}
      /\ execs < MaxExecs /\ execs' = execs + 1 /\ "exec" \in app.habits
      /\ table' = [f \in Fds |-> IF "cloexec" \in table[f].flags THEN Closed ELSE table[f]]
      /\ srv' = [s \in Servers |-> Dead]
    BY Zenon DEF Exec
<1>2. Dead \in Objects /\ Fields(Dead) /\ Dead.active = "no"
    BY DEF Dead, Fresh, Objects, Fields
<1>3. Closed \in Descriptors /\ Descriptor(Closed, conns)
    BY Parts DEF Closed, Descriptors, Descriptor
<1>4. /\ table' \in [Fds -> Descriptors] /\ \A f \in Fds : Descriptor(table'[f], conns)
      /\ srv' \in [Servers -> Objects] /\ \A s \in Servers : Fields(srv'[s])
    BY <1>1, <1>2, <1>3, Parts
<1>5. execs' \in 1..MaxExecs
    BY <1>1, ServerAssumption DEF Shape, TypeOK
<1>6. \A i \in 1..Len(env') : env'[i][Len(env'[i])] \in Fds
    BY ExecEntries DEF IsEntry
<1>7. TypeOK'
    BY <1>1, <1>4, <1>5, <1>6 DEF Shape, TypeOK
<1>8. \A s \in Servers : s \notin pending' /\ s # blocked'
    BY <1>1, ServerAssumption DEF Run
<1>9. /\ app'.sd = <<>> => missed' = "no"
      /\ execs' # 0 /\ "exec" \in app'.habits
      /\ \A f \in Fds : Descriptor(table'[f], conns')
    BY <1>1, <1>4, <1>5 DEF Shape
<1> QED
    BY <1>4, <1>7, <1>8, <1>9, ExecEntries DEF Shape
=============================================================================
