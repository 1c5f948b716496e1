---------------------------- MODULE ServerOpen ------------------------------
(***************************************************************************)
(* InetServer::open() and UnixServer::open() (lib/InetServer.cpp,          *)
(* lib/UnixServer.cpp): a listener comes from the program image before,    *)
(* from systemd, or is made; each call on the way may fail.                *)
(***************************************************************************)
EXTENDS ServerTable

(* sd_listen_fds(false): the number of descriptors systemd passed, which   *)
(* become close-on-exec; an error when one of them is closed by now.       *)
SdCount(t) == IF \A f \in SdFds : t[f].kind # "closed" THEN Len(app.sd) ELSE -1

SdMarked(t) ==
    [f \in DOMAIN t |->
        [t[f] EXCEPT !.flags = @ \cup
            IF f \in SdFds /\ \A g \in 3..f : t[g].kind # "closed" THEN {"cloexec"} ELSE {}]]

(* sd_is_socket_inet(fd, family, SOCK_STREAM, true, port), and _unix *)
SdMatches(t, a) == {f \in SdFds : t[f].kind = "listen" /\ t[f].addr = a}

(* Mutant: the socket file is removed before bind(). *)
InUseUnlinked(t, o, a) ==
    o.kind = "inet" /\ \E f \in Fds : /\ t[f].kind = "listen" /\ t[f].addr = a
                                      /\ o.reuse = "no" \/ "reuse" \notin t[f].flags

(* bind() fails: the socket file exists, or another socket listens at the  *)
(* port and not both have SO_REUSEPORT.                                    *)
InUse(t, o, a) ==
    IF o.kind = "unix" THEN a \in files
    ELSE \E f \in Fds : /\ t[f].kind = "listen" /\ t[f].addr = a
                        /\ o.reuse = "no" \/ "reuse" \notin t[f].flags

(* Mutant: O_NONBLOCK is left to socket(), which sockets passed to us have *)
(* not gone through.                                                       *)
AppliedNothing(o, flags) == flags \ {"async", "nonblock"}

(* The flags that get to the listener: InetServer sets O_NONBLOCK with     *)
(* F_SETFL and FD_CLOEXEC with F_SETFD; UnixServer passes all of flags to  *)
(* F_SETFL, which ignores O_CLOEXEC.                                       *)
Applied(o, flags) ==
    IF o.kind = "inet" THEN flags \ {"async"} ELSE flags \ {"cloexec"}
-----------------------------------------------------------------------------
Result(o, t, fs) == [o |-> o, table |-> t, files |-> fs]

(* done: start() *)
Done(o, t, fs) == Result([o EXCEPT !.active = "yes"], t, fs)

(* Mutant: fd_ is not reset. *)
FailedKeepsFd(o, t, fs) ==
    Result(o, IF o.fd \in Fds THEN [t EXCEPT ![o.fd] = Closed] ELSE t, fs)

(* Mutant: fd_ is reset and not closed. *)
FailedLeaks(o, t, fs) == Result([o EXCEPT !.fd = -1], t, fs)

(* syserr, err: close fd_ if there is one *)
Failed(o, t, fs) ==
    Result([o EXCEPT !.fd = -1],
           IF o.fd \in Fds THEN [t EXCEPT ![o.fd] = Closed] ELSE t, fs)

Becomes(s, result) ==
    /\ srv' = [srv EXCEPT ![s] = result.o]
    /\ table' = result.table
    /\ files' = result.files

(* A descriptor that was passed to us, with its flags set; err says        *)
(* whether that needs a call that may fail.                                *)
Adopt(s, o, t, f, flags, err) ==
    LET owned == [o EXCEPT !.fd = f]
        t2    == [t EXCEPT ![f].flags = @ \cup Applied(o, flags)]
    IN  \/ Becomes(s, Done(owned, t2, files))
        \/ err /\ Becomes(s, Failed(owned, t2, files))

(* systemd listens, but not at a: fd_ is left one beyond its descriptors,  *)
(* and what it names is closed.                                            *)
SdMiss(s, o, t) ==
    /\ Becomes(s, Failed([o EXCEPT !.fd = 3 + Len(app.sd)], t, files))
    /\ missed' = "yes"

(* socket(), fcntl(), setsockopt(), bind(), listen(), each of which may    *)
(* fail; reusePort_ is dropped when SO_REUSEPORT does.                     *)
Manual(s, o, t, a, flags) ==
    IF Free(t) = {} THEN Becomes(s, Result(o, t, files))
    ELSE \E reuse \in {"no", o.reuse} :
         LET f     == NewFd(t)
             made  == [o EXCEPT !.fd = f, !.reuse = reuse]
             bound == [made EXCEPT !.addr = a]
             mark  == IF reuse = "yes" THEN {"reuse"} ELSE {}
             t2    == [t EXCEPT ![f] = Listener(a, Applied(o, flags) \cup mark)]
             fs    == IF o.kind = "unix" THEN files \cup {a} ELSE files
         IN  \/ Becomes(s, Failed(made, t2, files))
             \/ ~InUse(t, made, a) /\ Becomes(s, Failed(bound, t2, fs))
             \/ ~InUse(t, made, a) /\ Becomes(s, Done(bound, t2, fs))

(* InetServer::open() and UnixServer::open(), called on an object with     *)
(* fields o0 that is, or becomes, s                                        *)
DoOpen(s, o0, a, flags) ==
    LET o == [o0 EXCEPT !.flags = flags \ {"cloexec", "nonblock"}]
        t == SdMarked(table)
        fcntl == IF o.kind = "inet" THEN flags \ {"async"} # {} ELSE flags # {}
        lowest(fds) == CHOOSE f \in fds : \A g \in fds : f <= g
    IN  IF Inherited(t, a) # -1
        THEN Adopt(s, o, t, Inherited(t, a), flags, fcntl) /\ UNCHANGED missed
        ELSE IF SdCount(table) <= 0 THEN Manual(s, o, t, a, flags) /\ UNCHANGED missed
        ELSE IF SdMatches(t, a) = {} THEN SdMiss(s, o, t)
        ELSE /\ Adopt(s, o, t, lowest(SdMatches(t, a)), flags, fcntl \/ o.kind = "inet")
             /\ UNCHANGED missed
=============================================================================
