------------------------------- MODULE Relay -------------------------------
(***************************************************************************)
(* Programs that use a Pipe: any client, as in that module, or one of the  *)
(* loops of the examples that pass bytes on from a source to a sink.       *)
(*   proxy: Socket, Pipe, Socket (network-splicing.cpp, proxy_run())       *)
(*   dump:  Socket, Pipe, standard output (network-splicing.cpp, main())   *)
(*   copy:  FileStream, char[], FileStream (filter.cpp)                    *)
(* All three ignore what the write returns and go on to read.              *)
(***************************************************************************)
EXTENDS Pipe

CONSTANTS
    READ_SIZE,  \* bytes asked for in one read; 1024 in the code
    MaxSupply   \* bound: bytes the source has in all

ASSUME RelayAssumption ==
    READ_SIZE \in Nat \ {0} /\ MaxSupply \in Nat /\ PIPE_CAPACITY > 0

VARIABLES
    program,    \* "any", "proxy", "dump" or "copy"
    pipe,       \* the Pipe of the loop
    step,       \* the loop is about to "read", to "write", or has "ended"
    source,     \* bytes waiting at the source
    supplied,   \* history: bytes that came to the source
    received,   \* history: bytes read from the source
    forwarded,  \* history: bytes that the sink took
    held,       \* bytes in buf (copy)
    hindered    \* history: writes that the sink cut short: "none", "some",
                \* or "last" if the latest was one

rvars == <<program, pipe, step, source, supplied, held, received, forwarded, hindered>>
allvars == <<pipeVars, rvars>>

Looping == program # "any"

RelayInit ==
    /\ PipeInit
    /\ program \in {"any", "proxy", "dump", "copy"}
    /\ pipe \in Pipes
    /\ Looping => open = [p \in Pipes |-> p = pipe]
    /\ step = "read" /\ source = 0 /\ supplied = 0 /\ held = 0
    /\ received = 0 /\ forwarded = 0 /\ hindered = "none"
-----------------------------------------------------------------------------
(* More arrives at the source. *)
Arrive(n) ==
    /\ Looping /\ step # "ended" /\ supplied + n <= MaxSupply
    /\ source' = source + n /\ supplied' = supplied + n
    /\ UNCHANGED <<pipeVars, program, pipe, step, held, received, forwarded, hindered>>

(* The loop's read: client->read(&pipe, 1024) of proxy and dump, and       *)
(* in->read(buf, sizeof(buf)) of copy, a FileStream::read().               *)
ReadSource(n) ==
    /\ Looping /\ step = "read" /\ n <= source /\ n <= READ_SIZE
    /\ IF program = "copy" THEN held' = n /\ UNCHANGED pipeVars
                           ELSE WriteSocket(pipe, n) /\ UNCHANGED held
    /\ source' = source - n /\ received' = received + n
    /\ step' = "write"
    /\ UNCHANGED <<program, pipe, supplied, forwarded, hindered>>

(* The read returns 0 or -1: the source has ended, or the pipe is full. *)
ReadEnds ==
    /\ Looping /\ step = "read"
    /\ \/ source = 0
       \/ program # "copy" /\ kernel[pipe] = PIPE_CAPACITY
    /\ step' = "ended"
    /\ UNCHANGED <<pipeVars, program, pipe, source, supplied, held, received, forwarded, hindered>>

(* Mutant: the write asks for as much as the read did. *)
AskedOnce == IF program = "copy" THEN held ELSE Min2(READ_SIZE, kernel[pipe])

(* What the sink would be given if it took all: the write asks for         *)
(* pipe.size(), or for the n bytes that were read.                         *)
Asked == IF program = "copy" THEN held ELSE Min2(size[pipe], kernel[pipe])

(* backend.write(&pipe, pipe.size()); pipe.read(STDOUT_FILENO,             *)
(* pipe.size()); out->write(buf, n), a FileStream::write().  The sink      *)
(* takes m bytes, 0 standing for an error too.                             *)
WriteSink(m) ==
    /\ Looping /\ step = "write" /\ m <= Asked
    /\ CASE program = "copy" \/ m = 0 -> UNCHANGED pipeVars
         [] program = "proxy" /\ m > 0 -> SocketWrite(pipe, m)
         [] program = "dump" /\ m > 0 -> ReadFd(pipe, m)
    /\ forwarded' = forwarded + m
    /\ held' = 0
    /\ hindered' = IF m < Asked THEN "last" ELSE IF hindered = "none" THEN "none" ELSE "some"
    /\ step' = "read"
    /\ UNCHANGED <<program, pipe, source, supplied, received>>

RelayNext ==
    \/ program = "any" /\ PipeNext /\ UNCHANGED rvars
    \/ \E n \in 1..MaxSupply : Arrive(n)
    \/ \E n \in 1..READ_SIZE : ReadSource(n)
    \/ \E m \in 0..MaxSupply : WriteSink(m)
    \/ ReadEnds

RelaySpec ==
    /\ RelayInit /\ [][RelayNext]_allvars
    /\ \A p \in Pipes : WF_allvars(program = "any" /\ ClearStep(p) /\ UNCHANGED rvars)
-----------------------------------------------------------------------------
(* A relay whose sink always took what it was given has passed on all that *)
(* the source had when it ends.  One with a Pipe makes up for earlier      *)
(* writes that were cut short, since size_ never says less than there is;  *)
(* what the last one leaves is lost.                                       *)
RelaysAll ==
    step = "ended" =>
        /\ hindered = "none" => forwarded = supplied
        /\ hindered = "some" /\ program # "copy" => forwarded = received
=============================================================================
