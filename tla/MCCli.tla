------------------------------- MODULE MCCli -------------------------------
(* Instances of Cli for TLC. *)
EXTENDS Cli

CONSTANTS w1, w2
=============================================================================
