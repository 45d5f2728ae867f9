---------------------------- MODULE MCDeployJob ----------------------------
(* Instances of DeployJob for TLC. *)
EXTENDS DeployJob, TLC

CONSTANTS p1, p2, s1, s2, bad

Symmetry == Permutations(Proc)
=============================================================================
