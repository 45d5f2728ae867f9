------------------------------- MODULE Images -------------------------------
(***************************************************************************)
(* The way of an application's images to the nodes of a cluster: kb build  *)
(* (BundleBuild) puts them in a bundle, kb import (RegistryDeploy) brings  *)
(* those of the bundle to the registry's pods.  The bundle files are what  *)
(* the two share.                                                          *)
(***************************************************************************)
EXTENDS BundleBuild

CONSTANTS Part, Node, Pod, NodeOf, Local, Command, Jobs, Attempts, MaxStart,
          Setups   \* bound: which builders, commands and pods do anything, and for which
                   \* applications, which bundles were built before, which jobs the commands have, and whether the
                   \* registry is up

VARIABLES registry, deployment, service, pods, files, proc, starts, held, got, stored,
          undone, overlapped, actors, jobs,
          trusted  \* history: the bundles whose last build is one that BuildSound is
                   \* about; now, and those of them that were so when each command
                   \* began and that no build touched since

Registry == INSTANCE RegistryDeploy WITH Bundle <- App

ASSUME SetupAssumption ==
  /\ Registry!RegistryConstants
  /\ Setups \subseteq (SUBSET (Builder \cup Command \cup Pod \cup App)) \X (SUBSET (App \ Handmade))
                \X (SUBSET Jobs) \X BOOLEAN
  /\ "now" \notin Command

registryVars == <<registry, deployment, service, pods, files, proc, starts, held, got, stored,
                  undone, overlapped>>
vars == <<buildVars, kb, registryVars, actors, jobs, trusted>>

Init ==
  \E s \in Setups :
    /\ actors = s[1] /\ jobs = s[3] /\ BuildInit(s[2]) /\ Registry!RegistryInit(s[4])
    /\ trusted = [k \in Command \cup {"now"} |->
                    IF k = "now" THEN {a \in s[2] : Distinct(a)} ELSE {}]

Begun(a) == \E b \in Builder : At(b, "image") /\ build[b].app = a /\ build'[b].pc = "upload"
Ended(a) == \E b \in Builder :
  /\ At(b, "stop") /\ build[b].app = a /\ build'[b].pc = "ok"
  /\ Unhindered(b) /\ Distinct(a)

BuildStage ==
  /\ BuildNext(actors) /\ UNCHANGED <<registryVars, actors, jobs>>
  /\ trusted' = [k \in DOMAIN trusted |->
                   (trusted[k] \ {a \in App : Begun(a)})
                   \cup {a \in App : k = "now" /\ Ended(a)}]

ImportStage ==
  /\ Registry!RegistryNext(actors, jobs) /\ UNCHANGED <<buildVars, actors, jobs>>
  /\ trusted' = [k \in DOMAIN trusted |->
                   IF k # "now" /\ starts' # starts /\ proc'[k] # proc[k]
                     THEN trusted["now"] ELSE trusted[k]]

Next == BuildStage \/ ImportStage

Spec == Init /\ [][Next]_vars

-----------------------------------------------------------------------------
(* Properties *)

TypeOK ==
  /\ BuildTypeOK /\ Registry!RegistryTypeOK /\ actors \subseteq Builder \cup Command \cup Pod \cup App
  /\ jobs \subseteq Jobs
  /\ trusted \in [Command \cup {"now"} -> SUBSET App]

\* See RegistryDeploy: a delete that was interrupted can be run again, one that succeeds
\* has emptied the pods it found, and an import that succeeds brought what it got.
Resumable == Registry!Resumable
Emptied == Registry!Emptied
ImportSound == Registry!ImportSound

\* From end to end: after an import that succeeds, of a bundle whose build had succeeded,
\* all images that the application lists, and the deploy image that this build made, were
\* on the nodes of all the pods that the import found, whatever bundles and images were
\* there before; and the tags led to them (with the same exceptions).
Delivered ==
  \A c \in Command : LET r == proc[c] IN
    r.pc = "ok" /\ r.job.op = "import" =>
      \A k \in DOMAIN r.job.bundles : LET a == r.job.bundles[k] IN
        a \in trusted[c] =>
          \A p \in r.targets, i \in Images(a) : LET n == IF r.job.dir THEN Local ELSE NodeOf[p] IN
            \E x \in Content :
              /\ Right(a, i, x, made[a])
              /\ \A e \in {<<Target[i], x>>, <<x, x>>} :
                   Registry!Brings(c, n, e) \/ Registry!Lost(c, n, e) \/ Registry!Kept(c, n, e)
=============================================================================
