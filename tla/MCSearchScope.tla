--------------------------- MODULE MCSearchScope ---------------------------
(* A small instance of SearchScope for TLC. *)
EXTENDS SearchScope, TLC

Symmetry == Permutations(Users) \cup Permutations(Drives)

=============================================================================
