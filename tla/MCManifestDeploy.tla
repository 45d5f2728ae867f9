-------------------------- MODULE MCManifestDeploy --------------------------
(* Instances of ManifestDeploy for TLC. *)
EXTENDS ManifestDeploy

CONSTANTS a, b, c, x

Mixed == {<<a, NoSuffix>>, <<b, NoSuffix>>, <<c, NoSuffix>>, <<c, x>>}
OfC == {<<c, NoSuffix>>, <<c, x>>}
=============================================================================
