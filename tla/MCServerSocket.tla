--------------------------- MODULE MCServerSocket ---------------------------
(* TLC instances of ServerSocket. *)
EXTENDS ServerSocket

CONSTANTS i1, u1  \* a port, and a path

Usual == {"nonblock", "cloexec"}

(* One that opens addresses again, also with SO_REUSEPORT, and clones; one *)
(* that hands its listeners on; one that systemd starts; one with          *)
(* superfluous calls of close() and blocking listeners; and one with a     *)
(* SocketDriver.                                                           *)
FiveApplications ==
    {[habits |-> {"reopen", "clone", "reuse"}, sd |-> <<>>, flags |-> {{}, Usual}],
     [habits |-> {"exec"}, sd |-> <<>>, flags |-> {Usual}],
     [habits |-> {}, sd |-> <<i1>>, flags |-> {{}, Usual, {"async"}}],
     [habits |-> {"closeTwice", "blocking", "reuse"}, sd |-> <<>>, flags |-> {Usual}],
     [habits |-> {"driver"}, sd |-> <<>>, flags |-> {Usual}]}
=============================================================================
