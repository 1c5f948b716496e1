----------------------------- MODULE ByteQueue -----------------------------
(***************************************************************************)
(* What a Stream that stores bytes promises (include/xio/Stream.h): what   *)
(* is written comes out once, in the order it went in.  Bytes are numbered *)
(* 1, 2, ... in the order the stream accepts them, so the promise is that  *)
(* delivered is always 1, 2, ..., k for some k <= accepted.                *)
(***************************************************************************)
EXTENDS Naturals, Sequences

VARIABLES
    accepted,   \* number of bytes the stream has reported as written
    delivered   \* the bytes it has handed out, in order

vars == <<accepted, delivered>>

Init == accepted = 0 /\ delivered = <<>>

Accept == accepted' > accepted /\ UNCHANGED delivered

(* The next n bytes. *)
Following(n) == [i \in 1..n |-> Len(delivered) + i]

Deliver ==
    /\ \E n \in 1..(accepted - Len(delivered)) : delivered' = delivered \o Following(n)
    /\ UNCHANGED accepted

Next == Accept \/ Deliver

Spec == Init /\ [][Next]_vars
=============================================================================
