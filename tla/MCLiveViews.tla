---------------------------- MODULE MCLiveViews ----------------------------
(* Instances of LiveViews for TLC. *)
EXTENDS LiveViews, TLC

CONSTANTS z1, z2, n1, n2, k1, k2, k3
=============================================================================
