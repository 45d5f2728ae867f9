-------------------------- MODULE MCInstallConfig --------------------------
(* Instances of InstallConfig for TLC. *)
EXTENDS InstallConfig

CONSTANTS p1, p2, k1, k2, u, v1, v2
=============================================================================
