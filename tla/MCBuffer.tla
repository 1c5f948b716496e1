------------------------------ MODULE MCBuffer ------------------------------
(* TLC instances of Buffer.  Objects and addresses are interchangeable. *)
EXTENDS Buffer, TLC

Symmetry == Permutations(Buffers) \cup Permutations(Blocks)
=============================================================================
