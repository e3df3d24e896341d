---------------------------- MODULE MCResolver ----------------------------
(* Instances of Resolver for TLC. *)
EXTENDS Resolver

CONSTANTS a1, a2, k1, k2
=============================================================================
