---------------------------- MODULE MCNamePages ----------------------------
(* Instances of NamePages for TLC. *)
EXTENDS NamePages

CONSTANTS r1, j1, j2
=============================================================================
