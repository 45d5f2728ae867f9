--------------------------- MODULE MCGlobalSecret ---------------------------
(* Instances of GlobalSecret for TLC. *)
EXTENDS GlobalSecret

CONSTANTS p1, p2, k1, k2, v1, v2

\* Only the cluster that never saw kb.
FreshSpec == Init /\ ~Exists /\ [][Next]_vars
=============================================================================
