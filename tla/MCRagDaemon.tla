---------------------------- MODULE MCRagDaemon ----------------------------
(* Small instances of RagDaemon for TLC; the .cfg files give the constants. *)
EXTENDS RagDaemon, TLC

Symmetry == Permutations(Workers) \cup Permutations(Files)

=============================================================================
