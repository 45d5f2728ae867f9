---------------------------- MODULE MCAppStatus ----------------------------
(* Instances of AppStatus for TLC. *)
EXTENDS AppStatus

CONSTANTS a1, a2, s1, s2, bad, g1, g2
=============================================================================
