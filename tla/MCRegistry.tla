----------------------------- MODULE MCRegistry -----------------------------
(* Instances of Registry for TLC. *)
EXTENDS Registry, TLC

CONSTANTS u1, u2, n1

\* The users are interchangeable; the registrar is not one of them.
UserSymmetry == Permutations(Users)
=============================================================================
