----------------------------- MODULE BundleBuild -----------------------------
(***************************************************************************)
(* kb build (managers/build.go): the deploy image is built and uploaded,   *)
(* the images of the application are pulled and pushed to a registry that  *)
(* is started for this build on port 5000, and the files of that registry  *)
(* become the images.tar of the bundle.  Builds that share one docker      *)
(* daemon run at once, fail and are killed anywhere; a container that was  *)
(* started runs until it is stopped.  What docker reports on the stream of *)
(* a pull or push is printed and not looked at.                            *)
(***************************************************************************)
EXTENDS Integers, Sequences

CONSTANTS App, Image,
          AllImages,     \* the images of an application, the last of which is its deploy image
          Tag, Target,   \* what an image is called in a registry: its name without the host
          Repository,    \* of a tag; a repository holds several
          Builder,       \* kb processes that build
          Handmade,      \* the bundles that were made elsewhere, without images
          MaxBuild,      \* bound: builds
          None

\* What an image can be: what somebody else published under its name, or the deploy image
\* that a build of an application made; builds have numbers.
Content == (Image \X {0}) \cup (App \X (0 .. MaxBuild))

ASSUME BuildAssumption ==
  /\ AllImages \in [App -> Seq(Image) \ {<<>>}]
  /\ Target \in [Image -> Tag] /\ Repository \in [Tag -> STRING]
  /\ App # {} /\ Handmade \subseteq App /\ MaxBuild \in Nat
  /\ Builder \cap {"free", "leaked"} = {} /\ None \notin Content

VARIABLES
  local,   \* the daemon's images
  tagged,  \* its tags of localhost:5000
  remote,  \* the remote registries
  port,    \* whose registry has port 5000
  volume,  \* the files in the registry of each build
  kb,      \* the bundle files
  made,    \* history: the build that made the latest deploy image of each application
  build, builds

buildVars == <<local, tagged, remote, port, volume, made, build, builds>>

Held == Content \cup {None}
KbFile == [file: {"none", "short", "closed"}, images: [Tag -> Held]]
Build == [pc: {"image", "upload", "create", "start", "pull", "tag", "push", "copy",
               "make", "fill", "stop", "ok", "error"},
          app: App, number: 0 .. MaxBuild, next: Nat,  \* image
          failed: BOOLEAN,      \* what Build returns
          unseen: BOOLEAN,      \* history: an error was not looked at
          rival: BOOLEAN]       \* history: a build that it meets ran at the same time

NoImages == [t \in Tag |-> None]
Images(a) == {AllImages[a][k] : k \in DOMAIN AllImages[a]}
DeployImage(a) == AllImages[a][Len(AllImages[a])]
\* Builds of one application, or of two of which one lists the deploy image of the other.
Meet(a, e) == DeployImage(a) \in Images(e) \/ DeployImage(e) \in Images(a)
Idle == {"ok", "error"}
\* Build has a registry to stop when it returns.
Serving == {"pull", "tag", "push", "copy", "make", "fill", "stop"}

Be(b, r) == build' = [build EXCEPT ![b] = r]
BuildStep(b, r) ==
  Be(b, r) /\ UNCHANGED <<local, tagged, remote, port, volume, kb, made, builds>>
At(b, pc) == build[b].pc = pc
Current(b) == AllImages[build[b].app][build[b].next]

\* An error before the registry runs ends the command; after that, by way of the
\* deferred stopLocalRegistry.
BuildFails(b) ==
  \/ build[b].pc \in {"image", "upload", "create", "start"} /\
       BuildStep(b, [build[b] EXCEPT !.pc = "error"])
  \/ build[b].pc \in Serving \ {"fill", "stop"} /\
       BuildStep(b, [build[b] EXCEPT !.pc = "stop", !.failed = TRUE])

StartBuild(b, apps) ==
  /\ build[b].pc \in Idle /\ builds < MaxBuild /\ builds' = builds + 1
  /\ \E a \in apps \ Handmade :
       Be(b, [pc |-> "image", app |-> a, number |-> builds', next |-> 1, failed |-> FALSE,
              unseen |-> FALSE, rival |-> FALSE])
  /\ UNCHANGED <<local, tagged, remote, port, volume, kb, made>>

\* The last line of the log tells whether the build of the image failed.
BuildDeployImage(b) ==
  LET a == build[b].app
      Rivals == {c \in Builder \ {b} : Meet(build[c].app, a)}
  IN
  /\ At(b, "image")
  /\ local' = [local EXCEPT ![DeployImage(a)] = <<a, build[b].number>>]
  /\ made' = [made EXCEPT ![a] = build[b].number]
  /\ build' = [c \in Builder |->
                 IF c = b THEN [build[b] EXCEPT !.pc = "upload",
                                  !.rival = \E r \in Rivals : build[r].pc \notin Idle]
                 ELSE IF c \in Rivals THEN [build[c] EXCEPT !.rival = TRUE] ELSE build[c]]
  /\ UNCHANGED <<tagged, remote, port, volume, kb, builds>>

\* io.Copy of the stream to the terminal succeeds whatever the stream says.
UploadDeployImage(b) ==
  LET d == DeployImage(build[b].app) IN
  /\ At(b, "upload")
  /\ \/ /\ remote' = [remote EXCEPT ![d] = local[d]]
        /\ Be(b, [build[b] EXCEPT !.pc = "create"])
     \/ Be(b, [build[b] EXCEPT !.pc = "create", !.unseen = TRUE]) /\ UNCHANGED remote
  /\ UNCHANGED <<local, tagged, port, volume, kb, made, builds>>

\* launchLocalRegistry: the container of a start that fails is left behind.
CreateContainer(b) == At(b, "create") /\ BuildStep(b, [build[b] EXCEPT !.pc = "start"])
StartContainerAnyway(b) ==
  /\ At(b, "start") /\ port' = IF port = "free" THEN b ELSE port
  /\ volume' = [volume EXCEPT ![b] = NoImages] /\ Be(b, [build[b] EXCEPT !.pc = "pull"])
  /\ UNCHANGED <<local, tagged, remote, kb, made, builds>>
StartContainer(b) ==
  /\ At(b, "start") /\ port = "free"
  /\ port' = b /\ volume' = [volume EXCEPT ![b] = NoImages]
  /\ Be(b, [build[b] EXCEPT !.pc = "pull"])
  /\ UNCHANGED <<local, tagged, remote, kb, made, builds>>

\* The loops of pullImages and pushImages.
NextButLast(r, again, then) ==
  IF r.next + 1 < Len(AllImages[r.app]) THEN [r EXCEPT !.next = @ + 1, !.pc = again]
  ELSE [r EXCEPT !.next = 1, !.pc = then]
NextUnreset(r, again, then) ==
  [r EXCEPT !.next = @ + 1, !.pc = IF r.next < Len(AllImages[r.app]) THEN again ELSE then]
NextImage(r, again, then) ==
  IF r.next < Len(AllImages[r.app]) THEN [r EXCEPT !.next = @ + 1, !.pc = again]
  ELSE [r EXCEPT !.next = 1, !.pc = then]

PullImage(b) ==
  LET r == NextImage(build[b], "pull", "tag") IN
  /\ At(b, "pull")
  /\ \/ /\ remote[Current(b)] # None
        /\ local' = [local EXCEPT ![Current(b)] = remote[Current(b)]] /\ Be(b, r)
     \/ Be(b, [r EXCEPT !.unseen = TRUE]) /\ UNCHANGED local
  /\ UNCHANGED <<tagged, remote, port, volume, kb, made, builds>>

\* localhost:5000 and the path of the image's name: two names that differ in their hosts
\* only become one.
TagImage(b) ==
  /\ At(b, "tag") /\ local[Current(b)] # None
  /\ tagged' = [tagged EXCEPT ![Target[Current(b)]] = local[Current(b)]]
  /\ Be(b, [build[b] EXCEPT !.pc = "push"])
  /\ UNCHANGED <<local, remote, port, volume, kb, made, builds>>

\* To whoever has the port; all tags of the repository that the daemon has.
Pushed(b) ==
  {t \in Tag : Repository[t] = Repository[Target[Current(b)]] /\ tagged[t] # None}
PushImage(b) ==
  LET r == NextImage(build[b], "tag", "copy") IN
  /\ At(b, "push")
  /\ \/ /\ volume' = [c \in Builder |-> [t \in Tag |->
                        IF c = port /\ t \in Pushed(b) THEN tagged[t] ELSE volume[c][t]]]
        /\ Be(b, r)
     \/ Be(b, [r EXCEPT !.unseen = TRUE]) /\ UNCHANGED volume
  /\ UNCHANGED <<local, tagged, remote, port, kb, made, builds>>

CopyImages(b) == At(b, "copy") /\ BuildStep(b, [build[b] EXCEPT !.pc = "make"])

\* createKbFile: os.Create, app.yaml, images.tar.  The directory of the archive is
\* written by a deferred Close, also after an error, and its own error is dropped.
MakeFile(b) ==
  /\ At(b, "make")
  /\ kb' = [kb EXCEPT ![build[b].app] = [file |-> "short", images |-> NoImages]]
  /\ Be(b, [build[b] EXCEPT !.pc = "fill"])
  /\ UNCHANGED <<local, tagged, remote, port, volume, made, builds>>
FillFile(b) ==
  LET a == build[b].app
      Becomes(file, got) ==
        kb' = [kb EXCEPT ![a] = [file |-> file,
                 images |-> [t \in Tag |-> IF t \in got THEN volume[b][t] ELSE None]]]
  IN
  /\ At(b, "fill")
  /\ \/ Becomes("closed", Tag) /\ Be(b, [build[b] EXCEPT !.pc = "stop"])
     \/ Becomes("short", {}) /\ Be(b, [build[b] EXCEPT !.pc = "stop", !.unseen = TRUE])
     \/ \E got \in SUBSET Tag :
          Becomes("closed", got) /\ Be(b, [build[b] EXCEPT !.pc = "stop", !.failed = TRUE])
  /\ UNCHANGED <<local, tagged, remote, port, volume, made, builds>>

\* The deferred stopLocalRegistry: an error is logged.
OutcomeOfStop(r) == [r EXCEPT !.pc = "ok"]
Outcome(r) == [r EXCEPT !.pc = IF r.failed THEN "error" ELSE "ok"]
StopRegistry(b) ==
  /\ At(b, "stop") /\ Be(b, Outcome(build[b]))
  /\ port' = IF port = b THEN "free" ELSE port
  /\ UNCHANGED <<local, tagged, remote, volume, kb, made, builds>>
StopFails(b) ==
  /\ At(b, "stop") /\ Be(b, Outcome(build[b]))
  /\ port' = IF port = b THEN "leaked" ELSE port
  /\ UNCHANGED <<local, tagged, remote, volume, kb, made, builds>>

\* The process is killed; its registry runs on.
KillBuild(b) ==
  /\ build[b].pc \notin Idle /\ Be(b, [build[b] EXCEPT !.pc = "error"])
  /\ port' = IF port = b THEN "leaked" ELSE port
  /\ UNCHANGED <<local, tagged, remote, volume, kb, made, builds>>
\* Somebody stops the registry that was left.
FreePort ==
  /\ port = "leaked" /\ port' = "free"
  /\ UNCHANGED <<local, tagged, remote, volume, kb, made, build, builds>>

\* Some bundles were built before.
BuildInit(built) ==
  LET Called(a, t) == {i \in Images(a) : Target[i] = t}
      Filled(a, t) == IF Called(a, t) = {} THEN None
                      ELSE IF DeployImage(a) \in Called(a, t) THEN <<a, 0>>
                      ELSE <<CHOOSE i \in Called(a, t) : TRUE, 0>>
  IN
  /\ local = [i \in Image |-> None] /\ tagged = NoImages
  /\ remote = [i \in Image |-> IF \E a \in App : i = DeployImage(a) THEN None ELSE <<i, 0>>]
  /\ port = "free" /\ volume = [b \in Builder |-> NoImages] /\ builds = 0
  /\ made = [a \in App |-> 0]
  /\ kb = [a \in App |->
             [file |-> IF a \in Handmade \cup built THEN "closed" ELSE "none",
              images |-> [t \in Tag |-> IF a \in built THEN Filled(a, t) ELSE None]]]
  /\ build = [b \in Builder |-> [pc |-> "error", app |-> CHOOSE a \in App : TRUE, number |-> 0,
                                 next |-> 1, failed |-> FALSE, unseen |-> FALSE, rival |-> FALSE]]

BuildNext(actors) ==
  \/ FreePort
  \/ \E b \in Builder \cap actors :
       \/ StartBuild(b, App \cap actors) \/ BuildDeployImage(b) \/ UploadDeployImage(b) \/ CreateContainer(b)
       \/ StartContainer(b) \/ PullImage(b) \/ TagImage(b) \/ PushImage(b) \/ CopyImages(b)
       \/ MakeFile(b) \/ FillFile(b) \/ StopRegistry(b) \/ StopFails(b) \/ BuildFails(b)
       \/ KillBuild(b)

-----------------------------------------------------------------------------
(* Properties *)

BuildTypeOK ==
  /\ local \in [Image -> Held] /\ tagged \in [Tag -> Held]
  /\ remote \in [Image -> Held] /\ port \in Builder \cup {"free", "leaked"}
  /\ volume \in [Builder -> [Tag -> Held]] /\ kb \in [App -> KbFile]
  /\ made \in [App -> 0 .. MaxBuild]
  /\ build \in [Builder -> Build] /\ builds \in 0 .. MaxBuild
  /\ \A b \in Builder : build[b].next \in DOMAIN AllImages[build[b].app]

\* x is image i: as it was published, or as an application built it.
IsImage(i, x) ==
  x # None /\ (x = <<i, 0>> \/ \E a \in App : i = DeployImage(a) /\ x[1] = a)
\* x is image i for application a: of its deploy image, the one that build n made.
Right(a, i, x, n) == IF i = DeployImage(a) THEN x = <<a, n>> ELSE IsImage(i, x)

Holds(a) ==
  /\ kb[a].file = "closed"
  /\ \A i \in Images(a) : Right(a, i, kb[a].images[Target[i]], made[a])

\* The names of the application's images differ not only in their hosts.
Distinct(a) == \A i, j \in Images(a) : Target[i] = Target[j] => i = j

\* A build met no error that it does not look at, and no build that touches its deploy image.
Unhindered(b) == ~build[b].unseen /\ ~build[b].rival

\* A build that succeeds and was not hindered has written a bundle with all of the
\* application's images and the deploy image it built, whatever builds of other
\* applications ran, failed or were killed: also of those that use the same names of
\* images, and of those that use the same deploy image before or after it.  Excepted
\* are the applications with images whose names differ only in their hosts: their bundle
\* has one of them.
BuildSound ==
  \A b \in Builder :
    At(b, "ok") /\ Unhindered(b) /\ Distinct(build[b].app) => Holds(build[b].app)

\* The bundles of builds that share a port and a daemon do not mix: each has images
\* from the repositories of its own application only.
OwnImages ==
  \A a \in App, t \in Tag :
    kb[a].images[t] # None => \E j \in Images(a) : Repository[Target[j]] = Repository[t]
=============================================================================
