---------------------------- MODULE MCAcmeOrders ----------------------------
(* Instances of AcmeOrders for TLC. *)
EXTENDS AcmeOrders

CONSTANTS o1, o2, c1, c2, d1, d2
=============================================================================
