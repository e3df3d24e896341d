---------------------------- MODULE MCWebWallet ----------------------------
(* Instances of WebWallet for TLC. *)
EXTENDS WebWallet

CONSTANTS o1, o2, p1, p2
=============================================================================
