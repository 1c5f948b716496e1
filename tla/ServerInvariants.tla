-------------------------- MODULE ServerInvariants --------------------------
(***************************************************************************)
(* Who holds which descriptor and which socket file, and who finds a       *)
(* listener that was passed: invariants of every effect that a step of     *)
(* ServerSocket can have.                                                  *)
(***************************************************************************)
EXTENDS ServerEffects, TLAPS

(* The fields of the objects are of the types the code declares. *)
LEMMA Ranges ==
    ASSUME Shape
    PROVE  /\ clients \in SUBSET Fds /\ missed \in {"yes", "no"} /\ execs \in Nat
           /\ \A r \in Servers : srv[r].fd \in Fds \cup {-1}
<1>1. /\ clients \in SUBSET Fds /\ missed \in {"yes", "no"} /\ execs \in Nat
      /\ srv \in [Servers -> Objects]
    BY ServerAssumption DEF Shape, TypeOK
<1> QED
    BY <1>1 DEF Objects

(* Whatever a step does, the application stays the same, and that systemd  *)
(* once had no socket for an address is not forgotten.                     *)
LEMMA EffectKeeps ==
    ASSUME Effect, missed \in {"yes", "no"}
    PROVE  app' = app /\ (missed' = "no" => missed = "no")
<1>1. ASSUME NEW s \in Servers, Opening(s) PROVE app' = app /\ (missed' = "no" => missed = "no")
  <2>1. PICK a \in Addrs, o0 \in Objects : Opened(s, o0, a)
      BY <1>1 DEF Opening
  <2>2. missed' \in {missed, "yes"}
      BY <2>1 DEF Opened, Adopted, Dropped, Refused, Wasted, Made, Missed, Bound
  <2> QED
      BY <1>1, <2>2 DEF Opening, Constant
<1>2. ASSUME NEW s \in Servers, Closing(s) PROVE app' = app /\ (missed' = "no" => missed = "no")
    BY <1>2 DEF Closing, Constant
<1>3. ASSUME NEW f \in Fds, Joining(f) \/ Leaving(f) PROVE app' = app /\ (missed' = "no" => missed = "no")
    BY <1>3 DEF Joining, Leaving, Constant
<1>4. CASE Steady
    BY <1>4 DEF Steady, Constant
<1>5. CASE Exec
    BY <1>5 DEF Exec
<1> QED
    BY <1>1, <1>2, <1>3, <1>4, <1>5 DEF Effect

(* Who holds which descriptor.  What was passed and not asked for yet is   *)
(* there, and no server's: with systemd, the servers' listeners are at     *)
(* addresses that were opened; after exec, an entry for an address that    *)
(* was not opened names a listener that nobody holds, and no descriptor is *)
(* listed for two addresses.                                               *)
Holding ==
    /\ \A s \in Servers : IsOpen(s) =>
          /\ table[srv[s].fd].kind = "listen"
          /\ Promised(srv[s]) => "nonblock" \in table[srv[s].fd].flags
    /\ \A f \in clients : table[f].kind = "client"
    /\ \A s, r \in Servers : IsOpen(s) /\ srv[s].fd = srv[r].fd => s = r

Untouched ==
    /\ app.sd # <<>> => \A s \in Servers : IsOpen(s) => table[srv[s].fd].addr \in opened
    /\ app.sd = <<>> =>
          \A i \in 1..Len(env), a \in Addrs, f \in Fds : Lists(env[i], a, f) =>
             /\ a \notin opened => table[f].kind = "listen" /\ \A s \in Servers : srv[s].fd # f
             /\ \A j \in 1..Len(env), b \in Addrs : Lists(env[j], b, f) => a = b

OwnerInv == Unshared /\ missed = "no" => Holding /\ Untouched

(* A descriptor that was passed for an address is a listener that no       *)
(* server has, if the address was not opened before.                       *)
LEMMA HandedIsUnheld ==
    ASSUME Shape, Holding, Untouched, Unshared, NEW a \in Addrs, NEW f, Handed(a, f),
           OpensOnce => a \notin opened
    PROVE  /\ OpensOnce /\ f \in Fds /\ table[f].kind = "listen" /\ f \notin clients
           /\ \A s \in Servers : srv[s].fd # f
<1>1. app.sd # <<>> \/ "exec" \in app.habits
  <2>1. "exec" \notin app.habits => Len(env) = 0
      BY DEF Shape
  <2> QED
      BY <2>1 DEF Handed
<1>2. OpensOnce /\ (app.sd = <<>> \/ "exec" \notin app.habits)
    BY <1>1 DEF Unshared, OnItsOwn
<1>3. table[f].kind = "listen" /\ \A s \in Servers : srv[s].fd # f
  <2>1. CASE app.sd = <<>>
      BY <1>2, <2>1 DEF Handed, Untouched
  <2>2. CASE app.sd # <<>>
    <3>1. Len(env) = 0
        BY <1>2, <2>2 DEF Shape
    <3>2. table[f].kind = "listen" /\ table[f].addr = a /\ f # -1
        BY <3>1, ServerAssumption DEF Handed, Fds
    <3> QED
        BY <1>2, <2>2, <3>2 DEF Untouched, IsOpen
  <2> QED
      BY <2>1, <2>2
<1> QED
    BY <1>2, <1>3 DEF Holding, Handed

(* open() takes what is nobody's. *)
LEMMA OpeningOwner ==
    ASSUME Shape, Shape', Holding, Untouched, Unshared, missed' = "no",
           NEW s \in Servers, Opening(s)
    PROVE  Holding' /\ Untouched'
<1>1. PICK a \in Addrs, o0 \in Objects :
          /\ OpensOnce => a \notin opened
          /\ opened' = opened \cup {a}
          /\ Opened(s, o0, a)
    BY DEF Opening
<1>2. /\ UNCHANGED <<app, env, execs, clients>> /\ srv[s].fd = -1
      /\ \A r \in Servers \ {s} : srv'[r] = srv[r]
    BY <1>1 DEF Opening, Constant, Opened, Sound
<1>3. clients \in SUBSET Fds /\ \A r \in Servers : srv[r].fd \in Fds \cup {-1}
    BY Ranges
<1>4. -1 \notin Fds
    BY ServerAssumption DEF Fds
<1>5. ASSUME srv'[s].fd = -1, \A g \in Fds : Kept(g)
      PROVE  Holding' /\ Untouched'
    BY <1>1, <1>2, <1>3, <1>4, <1>5 DEF Holding, Untouched, IsOpen, Kept
<1>6. CASE Adopted(s, o0, a)
  <2>1. PICK f \in Fds : /\ Handed(a, f) /\ srv'[s].fd = f
                         /\ Promised(srv'[s]) => "nonblock" \in table'[f].flags
      BY <1>6 DEF Adopted
  <2>2. \A g \in Fds : Kept(g)
      BY <1>6 DEF Adopted
  <2>3. /\ OpensOnce /\ table[f].kind = "listen" /\ f \notin clients
        /\ \A r \in Servers : srv[r].fd # f
      BY <1>1, <2>1, HandedIsUnheld
  <2>4. Holding'
      BY <1>2, <1>3, <1>4, <2>1, <2>2, <2>3 DEF Holding, IsOpen, Kept
  <2>5. app.sd # <<>> => table[f].addr = a
    <3>1. app.sd # <<>> => "exec" \notin app.habits
        BY DEF Unshared, OnItsOwn
    <3>2. app.sd # <<>> => Len(env) = 0
        BY <3>1 DEF Shape
    <3> QED
        BY <2>1, <3>2 DEF Handed
  <2>6. app.sd = <<>> => \E i \in 1..Len(env) : Lists(env[i], a, f)
      BY <2>1 DEF Handed
  <2>7. Untouched'
    <3>1. CASE app.sd # <<>>
        BY <1>1, <1>2, <1>3, <1>4, <2>1, <2>2, <2>5, <3>1 DEF Untouched, IsOpen, Kept
    <3>2. CASE app.sd = <<>>
        BY <1>1, <1>2, <2>1, <2>2, <2>6, <3>2 DEF Untouched, Kept
    <3> QED
        BY <3>1, <3>2
  <2> QED
      BY <2>4, <2>7
<1>7. CASE Dropped(s, o0, a)
  <2>1. PICK f \in Fds : /\ Handed(a, f) /\ table'[f] = Closed
                         /\ \A g \in Fds \ {f} : Kept(g)
      BY <1>7 DEF Dropped
  <2>2. srv'[s].fd = -1
      BY <1>7 DEF Dropped
  <2>3. /\ OpensOnce /\ table[f].kind = "listen" /\ f \notin clients
        /\ \A r \in Servers : srv[r].fd # f
      BY <1>1, <2>1, HandedIsUnheld
  <2>4. Holding'
      BY <1>2, <1>3, <1>4, <2>1, <2>2, <2>3 DEF Holding, IsOpen, Kept
  <2>5. app.sd = <<>> => \E i \in 1..Len(env) : Lists(env[i], a, f)
      BY <2>1 DEF Handed
  <2>6. Untouched'
    <3>1. CASE app.sd # <<>>
        BY <1>1, <1>2, <1>3, <1>4, <2>1, <2>2, <2>3, <3>1 DEF Untouched, IsOpen, Kept
    <3>2. CASE app.sd = <<>>
        BY <1>1, <1>2, <1>4, <2>1, <2>2, <2>5, <3>2 DEF Untouched, Kept
    <3> QED
        BY <3>1, <3>2
  <2> QED
      BY <2>4, <2>6
<1>8. CASE Refused(s, o0) \/ Wasted(s, a)
    BY <1>5, <1>8 DEF Refused, Wasted
<1>9. CASE Made(s, a)
  <2>1. PICK f \in Fds :
          /\ table[f].kind = "closed" /\ srv'[s].fd = f
          /\ table'[f].kind = "listen" /\ table'[f].addr = a
          /\ Promised(srv'[s]) => "nonblock" \in table'[f].flags
          /\ \A g \in Fds \ {f} : Kept(g)
      BY <1>9 DEF Made
  <2>2. f \notin clients /\ \A r \in Servers : srv[r].fd # f
      BY <1>3, <1>4, <2>1 DEF Holding, IsOpen
  <2>3. Holding'
      BY <1>2, <1>3, <1>4, <2>1, <2>2 DEF Holding, IsOpen, Kept
  <2>4. Untouched'
    <3>1. CASE app.sd # <<>>
        BY <1>1, <1>2, <1>3, <1>4, <2>1, <2>2, <3>1 DEF Untouched, IsOpen, Kept
    <3>2. CASE app.sd = <<>>
        BY <1>1, <1>2, <2>1, <3>2 DEF Untouched, Kept
    <3> QED
        BY <3>1, <3>2
  <2> QED
      BY <2>3, <2>4
<1>10. CASE Missed(s, o0)
    BY <1>10 DEF Missed
<1> QED
    BY <1>1, <1>6, <1>7, <1>8, <1>9, <1>10 DEF Opened

(* An entry lists what its server has. *)
LEMMA EntryLists ==
    ASSUME Shape, NEW s \in Servers, NEW a \in Addrs, NEW f, Lists(serialize(s), a, f)
    PROVE  srv[s].fd = f /\ srv[s].addr = a
    BY ServerAssumption DEF Lists, serialize, Addrs

(* The servers that serialize() is called for. *)
LEMMA PassedIs ==
    ASSUME Shape
    PROVE  /\ Passed \subseteq Servers /\ Cardinality(Passed) \in Nat
           /\ \A s \in Passed : srv[s].fd # -1 /\ "cloexec" \notin table[srv[s].fd].flags
           /\ \A s \in Servers : srv[s].fd # -1 /\ "cloexec" \notin table[srv[s].fd].flags => s \in Passed
<1>1. Passed \subseteq Servers
    BY DEF Passed
<1>2. Cardinality(Passed) \in Nat
    BY <1>1 DEF Shape, Counting
<1> QED
    BY <1>1, <1>2 DEF Passed

(* exec passes listeners on of which no server of the new image holds any. *)
LEMMA ExecOwner ==
    ASSUME Shape, Holding, Exec
    PROVE  Holding' /\ Untouched'
<1>1. PICK order \in [1..Cardinality(Passed) -> Passed] :
          env' = [i \in DOMAIN order |-> serialize(order[i])]
    BY Zenon DEF Exec
<1>2. /\ Passed \subseteq Servers /\ Cardinality(Passed) \in Nat
      /\ \A s \in Passed : srv[s].fd # -1 /\ "cloexec" \notin table[srv[s].fd].flags
    BY PassedIs
<1>3. Len(env') = Cardinality(Passed)
    BY <1>1, <1>2
<1>4. /\ \A s \in Servers : srv'[s].fd = -1
      /\ clients' = {} /\ app' = app
    BY DEF Exec, Dead, Fresh
<1>5. -1 \notin Fds
    BY ServerAssumption DEF Fds
<1>6. Holding'
    BY <1>4 DEF Holding, IsOpen
<1>7. ASSUME NEW i \in 1..Len(env'), NEW a \in Addrs, NEW f \in Fds, Lists(env'[i], a, f)
      PROVE  /\ order[i] \in Passed /\ srv[order[i]].fd = f /\ srv[order[i]].addr = a
             /\ table'[f].kind = "listen"
  <2> DEFINE r == order[i]
  <2>1. r \in Passed /\ env'[i] = serialize(r) /\ r \in Servers
      BY <1>1, <1>2, <1>3
  <2> HIDE DEF r
  <2>2. srv[r].fd = f /\ srv[r].addr = a
      BY <1>7, <2>1, EntryLists
  <2>3. table[f].kind = "listen" /\ "cloexec" \notin table[f].flags
      BY <1>2, <2>1, <2>2 DEF Holding, IsOpen
  <2>4. table'[f] = table[f]
      BY <2>3 DEF Exec
  <2> QED
      BY <2>1, <2>2, <2>3, <2>4 DEF r
<1>8. ASSUME NEW i \in 1..Len(env'), NEW a \in Addrs, NEW f \in Fds, Lists(env'[i], a, f),
             NEW j \in 1..Len(env'), NEW b \in Addrs, Lists(env'[j], b, f)
      PROVE  a = b
  <2>1. /\ order[i] \in Passed /\ srv[order[i]].fd = f /\ srv[order[i]].addr = a
        /\ order[j] \in Passed /\ srv[order[j]].fd = f /\ srv[order[j]].addr = b
      BY <1>7, <1>8
  <2>2. order[i] = order[j]
      BY <1>2, <2>1 DEF Holding, IsOpen
  <2> QED
      BY <2>1, <2>2
<1>9. app'.sd # <<>> => \A s \in Servers : IsOpen(s)' => table'[srv'[s].fd].addr \in opened'
    BY <1>4 DEF IsOpen
<1>10. Untouched'
    BY <1>4, <1>5, <1>7, <1>8, <1>9 DEF Untouched
<1> QED
    BY <1>6, <1>10

(* Every effect keeps OwnerInv. *)
LEMMA EffectOwnerInv ==
    ASSUME Shape, Shape', Effect, OwnerInv
    PROVE  OwnerInv'
<1> SUFFICES ASSUME Unshared', missed' = "no" PROVE Holding' /\ Untouched'
    BY DEF OwnerInv
<1>1. Shape' /\ Effect
    OBVIOUS
<1>2. missed \in {"yes", "no"}
    BY Ranges
<1>3. app' = app /\ missed = "no"
    BY <1>2, EffectKeeps
<1>4. Unshared /\ Holding /\ Untouched
    BY <1>3 DEF OwnerInv, Unshared, OnItsOwn, OpensOnce
<1>5. clients \in SUBSET Fds /\ \A r \in Servers : srv[r].fd \in Fds \cup {-1}
    BY Ranges
<1>6. -1 \notin Fds /\ Closed.kind = "closed"
    BY ServerAssumption DEF Fds, Closed
<1>7. ASSUME NEW s \in Servers, Opening(s) PROVE Holding' /\ Untouched'
    BY <1>1, <1>4, <1>7, OpeningOwner
<1>8. ASSUME NEW s \in Servers, Closing(s) PROVE Holding' /\ Untouched'
  <2>1. srv[s].fd # -1 => srv[s].fd \notin clients
      BY <1>4, <1>5 DEF Holding, IsOpen
  <2>2. Holding'
      BY <1>4, <1>5, <1>6, <1>8, <2>1 DEF Closing, Holding, IsOpen
  <2>3. Untouched'
      BY <1>4, <1>5, <1>6, <1>8 DEF Closing, Constant, Untouched, Holding, IsOpen
  <2> QED
      BY <2>2, <2>3
<1>9. ASSUME NEW f \in Fds, Joining(f) PROVE Holding' /\ Untouched'
  <2>1. \A s \in Servers : srv[s].fd # f
      BY <1>4, <1>6, <1>9 DEF Joining, Holding, IsOpen
  <2>2. Holding'
      BY <1>4, <1>5, <1>6, <1>9, <2>1 DEF Joining, Holding, IsOpen
  <2>3. Untouched'
      BY <1>4, <1>5, <1>9, <2>1 DEF Joining, Constant, Untouched, IsOpen
  <2> QED
      BY <2>2, <2>3
<1>10. ASSUME NEW f \in Fds, Leaving(f) PROVE Holding' /\ Untouched'
  <2>1. table[f].kind = "client" /\ \A s \in Servers : srv[s].fd # f
      BY <1>4, <1>6, <1>10 DEF Leaving, Holding, IsOpen
  <2>2. Holding'
      BY <1>4, <1>5, <1>6, <1>10, <2>1 DEF Leaving, Holding, IsOpen
  <2>3. Untouched'
      BY <1>4, <1>5, <1>10, <2>1 DEF Leaving, Constant, Untouched, IsOpen
  <2> QED
      BY <2>2, <2>3
<1>11. CASE Steady
  <2>1. Holding'
      BY <1>4, <1>5, <1>11 DEF Steady, Holding, IsOpen
  <2>2. Untouched'
      BY <1>4, <1>5, <1>11 DEF Steady, Constant, Untouched, IsOpen
  <2> QED
      BY <2>1, <2>2
<1>12. CASE Exec
    BY <1>4, <1>12, ExecOwner
<1> QED
    BY <1>1, <1>7, <1>8, <1>9, <1>10, <1>11, <1>12 DEF Effect

(* The applications that FileStays is about. *)
Tidy == OpensOnce \/ (OnItsOwn /\ "closeTwice" \notin app.habits)

(* The file of a path is there while something listens at it.  A server    *)
(* that noted a path holds the only listener at it, as long as it is open  *)
(* or, with paths that are opened once, for good.  That rests on servers   *)
(* listening at the address they noted, if they make all their listeners,  *)
(* and on addresses that are noted having been opened.                     *)
FileInv ==
    Tidy =>
        /\ \A f \in Fds : table[f].kind = "listen" /\ table[f].addr \in Unix =>
              table[f].addr \in files
        /\ \A s \in Servers, f \in Fds :
              /\ srv[s].addr \in Unix /\ (OpensOnce \/ IsOpen(s))
              /\ table[f].kind = "listen" /\ table[f].addr = srv[s].addr
              => f = srv[s].fd
        /\ ~OpensOnce => \A s \in Servers : IsOpen(s) => table[srv[s].fd].addr = srv[s].addr
        /\ OpensOnce => \A s \in Servers : srv[s].addr \in opened \cup {NoAddr}

(* open() makes a listener only where there is no file, and a file for it. *)
LEMMA OpeningFileInv ==
    ASSUME Shape, Shape', OwnerInv, FileInv, Tidy, NEW s \in Servers, Opening(s)
    PROVE  FileInv'
<1>1. PICK a \in Addrs, o0 \in Objects :
          /\ OpensOnce => a \notin opened
          /\ opened' = opened \cup {a}
          /\ o0.addr = srv[s].addr
          /\ Opened(s, o0, a)
    BY DEF Opening
<1>2. /\ UNCHANGED <<app, env, execs, clients>> /\ srv[s].fd = -1
      /\ \A r \in Servers \ {s} : srv'[r] = srv[r]
    BY <1>1 DEF Opening, Constant, Opened, Sound
<1>3. \A r \in Servers : srv[r].fd \in Fds \cup {-1}
    BY Ranges
<1>4. -1 \notin Fds /\ NoAddr \notin Unix
    BY ServerAssumption DEF Fds, Addrs
<1>5. OpensOnce' = OpensOnce /\ Tidy' = Tidy
    BY <1>2 DEF OpensOnce, Tidy, OnItsOwn
<1>6. ASSUME ~OpensOnce PROVE Holding /\ \A f : ~Handed(a, f)
  <2>1. OnItsOwn /\ Unshared
      BY <1>6 DEF Tidy, Unshared
  <2>2. missed = "no" /\ Len(env) = 0 /\ app.sd = <<>>
      BY SMTT(20), <2>1 DEF Shape, OnItsOwn
  <2> QED
      BY <2>1, <2>2 DEF OwnerInv, Handed
<1>7. ASSUME srv'[s].fd = -1 \/ OpensOnce, srv'[s].addr = srv[s].addr,
             files' = files, \A g \in Fds : Kept(g) \/ (table'[g] = Closed /\ OpensOnce)
      PROVE  FileInv'
  <2>1. Closed.kind = "closed"
      BY DEF Closed
  <2>2. \A g \in Fds : table'[g].kind = "listen" =>
            table[g].kind = "listen" /\ table'[g].addr = table[g].addr
      BY <1>7, <2>1 DEF Kept
  <2>3. \A r \in Servers, f \in Fds :
              /\ srv'[r].addr \in Unix /\ (OpensOnce \/ IsOpen(r)')
              /\ table'[f].kind = "listen" /\ table'[f].addr = srv'[r].addr
              => f = srv'[r].fd
    <3>1. CASE OpensOnce
        BY <1>2, <1>3, <1>4, <1>7, <2>2, <3>1 DEF FileInv
    <3>2. CASE ~OpensOnce
        BY SMTT(20), <1>2, <1>3, <1>4, <1>7, <2>2, <3>2 DEF FileInv, IsOpen
    <3> QED
        BY <3>1, <3>2
  <2>4. ~OpensOnce => \A r \in Servers : IsOpen(r)' => table'[srv'[r].fd].addr = srv'[r].addr
      BY <1>2, <1>3, <1>4, <1>7 DEF FileInv, Kept, IsOpen
  <2>5. OpensOnce => \A r \in Servers : srv'[r].addr \in opened' \cup {NoAddr}
      BY <1>1, <1>2, <1>7 DEF FileInv
  <2>6. \A f \in Fds : table'[f].kind = "listen" /\ table'[f].addr \in Unix => table'[f].addr \in files'
      BY <1>7, <2>2 DEF FileInv
  <2> QED
      BY <1>5, <2>3, <2>4, <2>5, <2>6 DEF FileInv
<1>8. CASE Adopted(s, o0, a)
    BY <1>1, <1>6, <1>7, <1>8 DEF Adopted
<1>9. CASE Dropped(s, o0, a)
    BY <1>1, <1>6, <1>7, <1>9 DEF Dropped
<1>10. CASE Refused(s, o0)
    BY <1>1, <1>7, <1>10 DEF Refused
<1>11. CASE Missed(s, o0)
  <2>1. OpensOnce
      BY <1>11 DEF Missed, Tidy, OnItsOwn
  <2> QED
      BY <1>1, <1>7, <1>11, <2>1 DEF Missed
<1>12. ASSUME Bound(s, a)
       PROVE  /\ a \in Unix => \A g \in Fds : table[g].kind = "listen" => table[g].addr # a
              /\ OpensOnce => \A r \in Servers : srv[r].addr # a
              /\ ~OpensOnce /\ a \in Unix => \A r \in Servers : IsOpen(r) => srv[r].addr # a
  <2>1. a \in Unix => \A g \in Fds : table[g].kind = "listen" => table[g].addr # a
      BY <1>12 DEF Bound, FileInv
  <2>2. OpensOnce => \A r \in Servers : srv[r].addr # a
      BY <1>1, ServerAssumption DEF FileInv
  <2>3. ASSUME ~OpensOnce, a \in Unix, NEW r \in Servers, IsOpen(r) PROVE srv[r].addr # a
    <3>1. srv[r].fd \in Fds /\ table[srv[r].fd].kind = "listen"
        BY <1>3, <1>6, <2>3 DEF Holding, IsOpen
    <3>2. table[srv[r].fd].addr = srv[r].addr
        BY <2>3 DEF FileInv
    <3> QED
        BY <2>1, <2>3, <3>1, <3>2
  <2> QED
      BY <2>1, <2>2, <2>3
<1>13. CASE Wasted(s, a)
  <2>1. /\ Bound(s, a) /\ srv'[s].fd = -1 /\ srv'[s].addr = a
        /\ files' = files \cup ({a} \cap Unix)
        /\ \A g \in Fds : Kept(g)
      BY <1>13 DEF Wasted, Bound
  <2>2. \A r \in Servers, f \in Fds :
              /\ srv'[r].addr \in Unix /\ (OpensOnce \/ IsOpen(r)')
              /\ table'[f].kind = "listen" /\ table'[f].addr = srv'[r].addr
              => f = srv'[r].fd
      BY <1>2, <1>12, <2>1 DEF FileInv, IsOpen, Kept
  <2>3. ~OpensOnce => \A r \in Servers : IsOpen(r)' => table'[srv'[r].fd].addr = srv'[r].addr
      BY <1>2, <1>3, <2>1 DEF FileInv, IsOpen, Kept
  <2>4. OpensOnce => \A r \in Servers : srv'[r].addr \in opened' \cup {NoAddr}
      BY <1>1, <1>2, <2>1 DEF FileInv
  <2>5. \A f \in Fds : table'[f].kind = "listen" /\ table'[f].addr \in Unix => table'[f].addr \in files'
      BY <2>1 DEF FileInv, Kept
  <2> QED
      BY <1>5, <2>2, <2>3, <2>4, <2>5 DEF FileInv
<1>14. CASE Made(s, a)
  <2>1. PICK f \in Fds :
          /\ table[f].kind = "closed" /\ srv'[s].fd = f
          /\ table'[f].kind = "listen" /\ table'[f].addr = a
          /\ \A g \in Fds \ {f} : Kept(g)
      BY <1>14 DEF Made
  <2>2. Bound(s, a) /\ srv'[s].addr = a /\ files' = files \cup ({a} \cap Unix)
      BY <1>14 DEF Made, Bound
  <2>3. ASSUME NEW r \in Servers, NEW g \in Fds,
               srv'[r].addr \in Unix, OpensOnce \/ IsOpen(r)',
               table'[g].kind = "listen", table'[g].addr = srv'[r].addr
        PROVE  g = srv'[r].fd
    <3>1. CASE r = s
        BY <1>12, <2>1, <2>2, <2>3, <3>1 DEF Kept
    <3>2. CASE r # s
      <4>1. srv'[r] = srv[r] /\ srv[r].addr # a
          BY <1>2, <1>12, <2>1, <2>2, <2>3, <3>2 DEF IsOpen
      <4>2. g # f
          BY <2>1, <2>3, <4>1
      <4> QED
          BY <2>1, <2>3, <4>1, <4>2 DEF FileInv, IsOpen, Kept
    <3> QED
        BY <3>1, <3>2
  <2>4. ASSUME ~OpensOnce, NEW r \in Servers, IsOpen(r)'
        PROVE  table'[srv'[r].fd].addr = srv'[r].addr
    <3>1. CASE r = s
        BY <2>1, <2>2, <3>1
    <3>2. CASE r # s
      <4>1. srv'[r] = srv[r] /\ IsOpen(r)
          BY <1>2, <2>4, <3>2 DEF IsOpen
      <4>2. srv[r].fd \in Fds /\ srv[r].fd # f
          BY SMTT(20), <1>3, <1>6, <2>1, <2>4, <4>1 DEF Holding, IsOpen
      <4> QED
          BY <2>1, <2>4, <4>1, <4>2 DEF FileInv, Kept
    <3> QED
        BY <3>1, <3>2
  <2>5. OpensOnce => \A r \in Servers : srv'[r].addr \in opened' \cup {NoAddr}
      BY <1>1, <1>2, <2>2 DEF FileInv
  <2>6. \A g \in Fds : table'[g].kind = "listen" /\ table'[g].addr \in Unix => table'[g].addr \in files'
      BY <2>1, <2>2 DEF FileInv, Kept
  <2> QED
      BY <1>5, <2>3, <2>4, <2>5, <2>6 DEF FileInv
<1> QED
    BY <1>1, <1>8, <1>9, <1>10, <1>11, <1>13, <1>14 DEF Opened

(* Every effect keeps FileInv. *)
LEMMA EffectFileInv ==
    ASSUME Shape, Shape', Effect, OwnerInv, FileInv
    PROVE  FileInv'
<1> SUFFICES ASSUME Tidy' PROVE FileInv'
    BY DEF FileInv
<1>1. missed \in {"yes", "no"}
    BY Ranges
<1>2. app' = app
    BY <1>1, EffectKeeps
<1>3. OpensOnce' = OpensOnce /\ Tidy' = Tidy /\ Tidy
    BY <1>2 DEF OpensOnce, Tidy, OnItsOwn
<1>4. \A r \in Servers : srv[r].fd \in Fds \cup {-1}
    BY Ranges
<1>5. -1 \notin Fds /\ NoAddr \notin Unix /\ Closed.kind = "closed"
    BY ServerAssumption DEF Fds, Addrs, Closed
<1>6. ~OpensOnce => Holding
  <2>1. ~OpensOnce => Unshared /\ missed = "no"
      BY <1>3 DEF Tidy, Unshared, OnItsOwn, Shape
  <2> QED
      BY <2>1 DEF OwnerInv
<1>7. ASSUME NEW s \in Servers, Opening(s) PROVE FileInv'
    BY SMTT(20), <1>3, <1>7, OpeningFileInv
<1>8. ASSUME NEW s \in Servers, Closing(s) PROVE FileInv'
  <2>1. /\ srv'[s].fd = -1 /\ srv'[s].addr \in {srv[s].addr, NoAddr}
        /\ \A r \in Servers \ {s} : srv'[r] = srv[r]
        /\ \A f \in Fds : table'[f].kind = "listen" => f # srv[s].fd /\ table'[f] = table[f]
        /\ \A f \in Fds \ {srv[s].fd} : table'[f] = table[f]
        /\ opened' = opened
      BY <1>4, <1>5, <1>8 DEF Closing
  <2>2. \A r \in Servers, f \in Fds :
              /\ srv'[r].addr \in Unix /\ (OpensOnce \/ IsOpen(r)')
              /\ table'[f].kind = "listen" /\ table'[f].addr = srv'[r].addr
              => f = srv'[r].fd
    <3>1. CASE OpensOnce
        BY <1>3, <1>5, <2>1, <3>1 DEF FileInv
    <3>2. CASE ~OpensOnce
        BY <1>3, <1>5, <2>1, <3>2 DEF FileInv, IsOpen
    <3> QED
        BY <3>1, <3>2
  <2>3. ~OpensOnce => \A r \in Servers : IsOpen(r)' => table'[srv'[r].fd].addr = srv'[r].addr
      BY <1>3, <1>4, <1>6, <2>1 DEF FileInv, IsOpen, Holding
  <2>4. OpensOnce => \A r \in Servers : srv'[r].addr \in opened' \cup {NoAddr}
      BY <1>3, <2>1 DEF FileInv
  <2>5. ASSUME NEW f \in Fds, table'[f].kind = "listen", table'[f].addr \in Unix
        PROVE  table'[f].addr \in files'
    <3>1. f # srv[s].fd /\ table'[f] = table[f] /\ table[f].addr \in files
        BY <1>3, <2>1, <2>5 DEF FileInv
    <3>2. files' # files => OpensOnce \/ IsOpen(s)
        BY <1>3, <1>8 DEF Closing, Tidy, IsOpen
    <3>3. files' # files => table[f].addr # srv[s].addr
        BY <1>3, <2>5, <3>1, <3>2 DEF FileInv
    <3> QED
        BY <1>8, <3>1, <3>3 DEF Closing
  <2> QED
      BY <1>3, <2>2, <2>3, <2>4, <2>5 DEF FileInv
<1>9. ASSUME NEW f \in Fds, Joining(f) PROVE FileInv'
  <2>1. /\ UNCHANGED <<srv, files, opened>>
        /\ \A g \in Fds : table'[g].kind = "listen" =>
              table[g].kind = "listen" /\ table'[g].addr = table[g].addr
        /\ \A g \in Fds \ {f} : table'[g].addr = table[g].addr
      BY <1>9 DEF Joining
  <2>2. ~OpensOnce => \A r \in Servers : srv[r].fd # f
      BY <1>5, <1>6, <1>9 DEF Joining, Holding, IsOpen
  <2> QED
      BY <1>3, <1>4, <2>1, <2>2 DEF FileInv, IsOpen
<1>10. ASSUME NEW f \in Fds, Leaving(f) PROVE FileInv'
  <2>1. /\ UNCHANGED <<srv, files, opened>>
        /\ \A g \in Fds : table'[g].kind = "listen" =>
              table[g].kind = "listen" /\ table'[g].addr = table[g].addr
        /\ \A g \in Fds \ {f} : table'[g].addr = table[g].addr
      BY <1>5, <1>10 DEF Leaving
  <2>2. ~OpensOnce => \A r \in Servers : srv[r].fd # f
      BY <1>5, <1>6, <1>10 DEF Leaving, Holding, IsOpen
  <2> QED
      BY <1>3, <1>4, <2>1, <2>2 DEF FileInv, IsOpen
<1>11. CASE Steady
    BY SMTT(20), <1>3, <1>4, <1>11 DEF Steady, FileInv, IsOpen
<1>12. CASE Exec
  <2>1. /\ \A s \in Servers : srv'[s].fd = -1 /\ srv'[s].addr = NoAddr
        /\ files' = files
        /\ \A g \in Fds : table'[g].kind = "listen" => table'[g] = table[g]
      BY <1>5, <1>12 DEF Exec, Dead, Fresh
  <2> QED
      BY <1>3, <1>5, <2>1 DEF FileInv, IsOpen
<1> QED
    BY <1>7, <1>8, <1>9, <1>10, <1>11, <1>12 DEF Effect
=============================================================================
