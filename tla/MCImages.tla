------------------------------ MODULE MCImages ------------------------------
(* Instances of Images for TLC. *)
EXTENDS Images, TLC

CONSTANTS web, db, alt, hand, base, copy, webDeploy, dbDeploy,
          baseTag, webTag, dbTag, n1, n2, p1, p2, b1, b2, k1, k2

\* Two applications with images of one name on different hosts, and one with the deploy
\* image of another.
MCAllImages ==
  (web :> <<base, webDeploy>>) @@ (db :> <<copy, dbDeploy>>) @@ (alt :> <<webDeploy>>) @@ (hand :> <<webDeploy>>)
MCTarget ==
  (base :> baseTag) @@ (copy :> baseTag) @@ (webDeploy :> webTag) @@ (dbDeploy :> dbTag)
MCRepository == [t \in Tag |-> IF t = webTag THEN "web" ELSE "shared"]
MCNodeOf == (p1 :> n1) @@ (p2 :> n2)

Job(op, bs, dir, hosts) == [op |-> op, bundles |-> bs, dir |-> dir, hosts |-> hosts]
Deploy == Job("deploy", <<>>, FALSE, {})
Delete == Job("delete", <<>>, FALSE, {})
All == Job("import", <<hand, alt>>, FALSE, {})
Host == Job("import", <<web>>, FALSE, {n2})
Dir == Job("import", <<alt>>, TRUE, {})
Nothing == Job("import", <<>>, FALSE, {})
MCJobs == {Deploy, Delete, All, Host, Dir, Nothing}
MCSetups ==
  {<<{b1, b2, web, db}, {}, {}, FALSE>>, <<{b1} \cup App, {}, {}, FALSE>>,
   <<{b1, k1, web}, {}, {Host}, TRUE>>, <<{b1, k1, alt}, {alt}, {Dir}, TRUE>>,
   <<{k1, k2, p1, p2}, {alt}, {Deploy, Delete, All}, FALSE>>,
   <<{k1, k2, p1, p2}, {alt, web}, {Deploy, Dir, Nothing, Delete}, FALSE>>,
   <<{k1, k2}, {alt}, {Delete, All}, TRUE>>}

Symmetry == Permutations({b1, b2}) \cup Permutations({k1, k2})
=============================================================================
