--------------------------- MODULE MCIdentityMemos ---------------------------
(* TLC model of IdentityMemos. *)
EXTENDS IdentityMemos, TLC

Symmetry == Permutations(Threads)
=============================================================================
