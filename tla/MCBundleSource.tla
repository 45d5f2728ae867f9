--------------------------- MODULE MCBundleSource ---------------------------
(* Instances of BundleSource for TLC. *)
EXTENDS BundleSource, TLC

CONSTANTS dir, bucket, list, strange, v1, v2, one, rebuilt, two, ann, bob

MCKind == (dir :> "directory") @@ (bucket :> "s3") @@ (list :> "files") @@ (strange :> "unknown")
MCVersionOf == (one :> v1) @@ (rebuilt :> v1) @@ (two :> v2)

Publish(fs, s) == [op |-> "publish", files |-> fs, from |-> <<>>, to |-> s, refs |-> <<>>]
Copy(s, d, refs) == [op |-> "copy", files |-> <<>>, from |-> <<s>>, to |-> d, refs |-> refs]
Get(ss, ref) == [op |-> "get", files |-> <<>>, from |-> ss, to |-> dir, refs |-> <<ref>>]

MCJobs == {Publish(<<one, two>>, dir), Publish(<<rebuilt>>, dir), Publish(<<one>>, bucket),
           Copy(dir, bucket, <<v1, v2>>), Copy(bucket, dir, <<Latest>>),
           Get(<<list, dir, bucket>>, Latest), Get(<<bucket, dir>>, v1), Get(<<bucket, list>>, v2),
           Get(<<strange, dir>>, v1)}

Symmetry == Permutations({ann, bob})
=============================================================================
