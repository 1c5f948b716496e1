------------------------------- MODULE Kernel -------------------------------
(* What Pipe objects and streams over pipes have in common: kernel pipes. *)
EXTENDS Integers

CONSTANT PIPE_CAPACITY  \* bytes the kernel keeps for one pipe

ASSUME KernelAssumption == PIPE_CAPACITY \in Nat

Min2(a, b) == IF a < b THEN a ELSE b
=============================================================================
