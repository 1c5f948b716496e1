------------------------------ MODULE MCFileMgr -----------------------------
(* A TLC instance of FileMgr: every extension of up to four of three       *)
(* characters, some of which are listed, also one that ends in a tilde.    *)
EXTENDS FileMgr, TLC

Symmetry == Permutations(Files) \cup Permutations(Inodes)

Names4 == [slash : {"yes", "no"}, ext : UNION {[1..n -> {"c", "x", "~"}] : n \in 0..4}]
Listed == {<<"c">>, <<"c", "~">>, <<"c", "x">>}
=============================================================================
