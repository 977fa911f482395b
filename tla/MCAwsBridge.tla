---------------------------- MODULE MCAwsBridge ----------------------------
(* A small instance of AwsBridge for TLC. *)
EXTENDS AwsBridge

=============================================================================
