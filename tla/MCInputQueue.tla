---------------------------- MODULE MCInputQueue ----------------------------
(* A small instance of InputQueue for TLC. *)
EXTENDS InputQueue

=============================================================================
