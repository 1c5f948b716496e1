--------------------------- MODULE ServerEffects ----------------------------
(***************************************************************************)
(* What steps of ServerSocket do to servers, descriptors and socket files: *)
(* the few effects into which ServerSteps sorts all actions, and for which *)
(* ServerInvariants shows the invariants.                                  *)
(***************************************************************************)
EXTENDS ServerTable

(* Addresses of the servers of a class. *)
Family(kind) == IF kind = "inet" THEN Inet ELSE Unix

(* The entry e of XZERO_LISTEN_FDS says that f listens at a. *)
Lists(e, a, f) ==
    \/ a \in Inet /\ Len(e) = 3 /\ e[1] = "any" /\ e[2] = a /\ e[3] = f
    \/ a \in Unix /\ Len(e) = 2 /\ e[1] = a /\ e[2] = f

(* e is what serialize() makes of a server. *)
IsEntry(e) ==
    \/ Len(e) = 3 /\ e[1] = "any" /\ e[2] \in Inet \cup {NoAddr} /\ e[3] \in Fds
    \/ Len(e) = 2 /\ e[1] \in Unix \cup {NoAddr} /\ e[2] \in Fds

(* How the fields of a server go together, and those of a descriptor, when *)
(* n connections were made.                                                *)
Fields(o) ==
    /\ o.alive = "no" => o.fd = -1 /\ o.driver = "none" /\ o.addr = NoAddr
    /\ o.active = "yes" => o.fd # -1
    /\ o.addr \in Family(o.kind) \cup {NoAddr}

Descriptor(d, n) ==
    /\ d.kind = "closed" => d = Closed
    /\ d.kind = "listen" => d.addr \in Addrs
    /\ d.queue <= n

(* What "the lowest descriptor", "the first entry" and the number of       *)
(* servers rest on; LEMMA CountingHolds of ServerProofs.                   *)
Counting ==
    /\ \A T \in SUBSET Nat : T # {} => \E m \in T : \A n \in T : m <= n
    /\ \A T \in SUBSET Servers : Cardinality(T) \in Nat

(* What holds of every application. *)
Shape ==
    /\ Counting /\ TypeOK
    /\ Len(env) \in Nat /\ \A i \in 1..Len(env) : IsEntry(env[i])
    /\ execs = 0 => env = <<>>
    /\ "exec" \notin app.habits => execs = 0
    /\ app.sd = <<>> => missed = "no"
    /\ \A s \in Servers : Fields(srv[s])
    /\ \A s \in Servers : s \in pending \/ s = blocked => srv[s].active = "yes"
    /\ \A f \in Fds : Descriptor(table[f], conns)

(* What a step does to a descriptor that it neither closes nor makes. *)
Kept(f) ==
    /\ table'[f].kind = table[f].kind /\ table'[f].addr = table[f].addr
    /\ table'[f].queue = table[f].queue
    /\ table[f].flags \subseteq table'[f].flags

(* f was passed to this image as the listener at a, by systemd or by the   *)
(* image before.                                                           *)
Handed(a, f) ==
    /\ f \in Fds /\ table[f].kind # "closed"
    /\ \/ \E i \in 1..Len(env) : Lists(env[i], a, f)
       \/ app.sd # <<>> /\ table[f].kind = "listen" /\ table[f].addr = a

(* The ways in which open() of a ends, for a server s with fields o0: it   *)
(* takes a descriptor that was passed; it fails to set the flags of one,   *)
(* and closes it; it fails before bind(); it fails after bind(), with the  *)
(* address noted and the socket file made; it makes a listener; or systemd *)
(* has other sockets only.                                                 *)
Adopted(s, o0, a) ==
    /\ \E f \in Fds : Handed(a, f) /\ srv'[s].fd = f
                      /\ (Promised(srv'[s]) => "nonblock" \in table'[f].flags)
    /\ srv'[s].addr = o0.addr /\ files' = files /\ missed' = missed
    /\ \A g \in Fds : Kept(g)

Dropped(s, o0, a) ==
    /\ \E f \in Fds : /\ Handed(a, f) /\ table'[f] = Closed
                      /\ \A g \in Fds \ {f} : Kept(g)
    /\ srv'[s].fd = -1
    /\ srv'[s].addr = o0.addr /\ files' = files /\ missed' = missed

Refused(s, o0) ==
    /\ srv'[s].fd = -1 /\ srv'[s].addr = o0.addr /\ files' = files /\ missed' = missed
    /\ \A g \in Fds : Kept(g)

Bound(s, a) ==
    /\ srv'[s].addr = a /\ missed' = missed
    /\ a \in Unix => a \notin files
    /\ files' = files \cup ({a} \cap Unix)

Wasted(s, a) ==
    /\ Bound(s, a) /\ srv'[s].fd = -1
    /\ \A g \in Fds : Kept(g)

Made(s, a) ==
    /\ Bound(s, a)
    /\ \E f \in Fds :
          /\ table[f].kind = "closed" /\ srv'[s].fd = f
          /\ table'[f].kind = "listen" /\ table'[f].addr = a /\ table'[f].queue = 0
          /\ Promised(srv'[s]) => "nonblock" \in table'[f].flags
          /\ \A g \in Fds \ {f} : Kept(g)

Missed(s, o0) ==
    /\ app.sd # <<>> /\ missed' = "yes"
    /\ srv'[s].fd = -1 /\ srv'[s].addr = o0.addr /\ files' = files
    /\ \A g \in Fds : Kept(g) \/ table'[g] = Closed

Sound(s, o0) ==
    /\ srv' \in [Servers -> Objects] /\ \A r \in Servers \ {s} : srv'[r] = srv[r]
    /\ table' \in [Fds -> Descriptors]
    /\ \A f \in Fds : table'[f].kind = "closed" => table'[f] = Closed
    /\ srv'[s].alive = o0.alive /\ srv'[s].kind = o0.kind /\ srv'[s].driver = o0.driver
    /\ srv'[s].active = "yes" => srv'[s].fd # -1

Opened(s, o0, a) ==
    /\ Sound(s, o0)
    /\ \/ Adopted(s, o0, a) \/ Dropped(s, o0, a) \/ Refused(s, o0) \/ Wasted(s, a)
       \/ Made(s, a) \/ Missed(s, o0)

(* What steps do to servers, descriptors and files.  A server opens an     *)
(* address; a server lets go of its descriptor, if any; a descriptor       *)
(* becomes that of a Socket; a Socket is deleted; or who holds what stays  *)
(* as it is.                                                               *)
Constant == UNCHANGED <<app, env, execs>>

Opening(s) ==
    /\ Constant /\ clients' = clients /\ srv[s].fd = -1
    /\ \E a \in Addrs, o0 \in Objects :
          /\ OpensOnce => a \notin opened
          /\ opened' = opened \cup {a}
          /\ o0.addr = srv[s].addr
          /\ Opened(s, o0, a)

Closing(s) ==
    /\ Constant /\ UNCHANGED <<clients, opened, missed>>
    /\ srv'[s].fd = -1 /\ srv'[s].addr \in {srv[s].addr, NoAddr}
    /\ \A r \in Servers \ {s} : srv'[r] = srv[r]
    /\ srv[s].fd # -1 => table'[srv[s].fd] = Closed
    /\ \A f \in Fds \ {srv[s].fd} : table'[f] = table[f]
    /\ \/ files' = files
       \/ files' = files \ {srv[s].addr} /\ (srv[s].fd # -1 \/ "closeTwice" \in app.habits)
    /\ srv'[s].alive = "yes" => srv[s].addr \notin files'

Joining(f) ==
    /\ Constant /\ UNCHANGED <<srv, files, opened, missed>> /\ clients' = clients \cup {f}
    /\ table[f].kind = "closed" /\ table'[f].kind = "client"
    /\ \A g \in Fds \ {f} : /\ table'[g].kind = table[g].kind /\ table'[g].addr = table[g].addr
                            /\ table'[g].flags = table[g].flags

Leaving(f) ==
    /\ Constant /\ UNCHANGED <<srv, files, opened, missed>> /\ clients' = clients \ {f}
    /\ f \in clients /\ table'[f] = Closed
    /\ \A g \in Fds \ {f} : table'[g] = table[g]

Steady ==
    /\ Constant /\ UNCHANGED <<files, clients, opened, missed>>
    /\ \A s \in Servers :
          /\ srv'[s].fd = srv[s].fd /\ srv'[s].addr = srv[s].addr
          /\ srv[s].fd # -1 /\ Promised(srv'[s]) => Promised(srv[s])
    /\ \A f \in Fds :
          /\ table'[f].kind = table[f].kind /\ table'[f].addr = table[f].addr
          /\ "nonblock" \in table[f].flags \ table'[f].flags =>
                \E s \in Servers : srv[s].fd = f /\ ~Promised(srv'[s])

Effect ==
    \/ \E s \in Servers : Opening(s) \/ Closing(s)
    \/ \E f \in Fds : Joining(f) \/ Leaving(f)
    \/ Steady \/ Exec

(* open() of an address finds f if f is what all entries for it name. *)
Findable ==
    \A a \in Addrs, f \in Fds, k \in 1..Len(env) :
        /\ table[f].kind # "closed" /\ Lists(env[k], a, f)
        /\ \A i \in 1..Len(env), g \in Fds : Lists(env[i], a, g) => g = f
        => Inherited(table, a) = f
=============================================================================
