---------------------------- MODULE MCNodeHealth ----------------------------
(* Instances of NodeHealth for TLC. *)
EXTENDS NodeHealth

CONSTANTS n1, i1, i2, g1, g2
=============================================================================
