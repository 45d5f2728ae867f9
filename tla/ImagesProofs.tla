---------------------------- MODULE ImagesProofs ----------------------------
(***************************************************************************)
(* What Images promises, proved for any applications and images, nodes and *)
(* pods, and however many builds and commands run at once: the bundles of  *)
(* builds, the registry's commands, and the images' whole way.             *)
(***************************************************************************)
EXTENDS Images, TLAPS

-----------------------------------------------------------------------------
(* The invariant of the builds *)

Quiet == Idle \cup {"image"}  \* a build has not touched anything yet, or has ended

\* The build is to succeed, and is one that BuildSound is about.
Clean(b) == ~build[b].failed /\ Unhindered(b) /\ Distinct(build[b].app)

\* The daemon and the remote registries have images under their names only.
Genuine ==
  \A i \in Image : (local[i] # None => IsImage(i, local[i])) /\ (remote[i] # None => IsImage(i, remote[i]))

\* A build that has a registry has the port, ...
PortHeld(b) == build[b].pc \in Serving => port = b

\* ... so that nobody else pushes to its registry.
VolumeOwn(b) ==
  build[b].pc \in Serving =>
    \A t \in Tag : volume[b][t] # None =>
      \E j \in Images(build[b].app) : Repository[Target[j]] = Repository[t]

\* Of two builds that meet, the later one to build its deploy image marks both.
Apart(b, c) ==
  Meet(build[b].app, build[c].app) /\ ~build[b].rival /\ build[b].pc \notin {"image", "error"} =>
    build[c].pc \in Quiet

\* Under its tag, s has the k-th image of application a whose latest build is n.
HasImage(s, a, k, n) == Right(a, AllImages[a][k], s[Target[AllImages[a][k]]], n)

\* How far a clean build has brought the images of its application.
Loaded(b) ==
  LET r == build[b]  all == AllImages[r.app]  d == DeployImage(r.app)  n == made[r.app] IN
  Clean(b) =>
    /\ r.pc \notin Quiet => local[d] = <<r.app, n>>
    /\ r.pc \notin Quiet \cup {"upload"} => remote[d] = <<r.app, n>>
    /\ r.pc \in {"tag", "push"} =>
         \A k \in DOMAIN all : k < r.next => HasImage(volume[b], r.app, k, n) /\ HasImage(tagged, r.app, k, n)
    /\ r.pc = "push" => HasImage(tagged, r.app, r.next, n)
    /\ r.pc \in {"copy", "make", "fill"} => \A k \in DOMAIN all : HasImage(volume[b], r.app, k, n)
    /\ r.pc \in {"stop", "ok"} => Holds(r.app)

\* A build that has failed does not say that it succeeded.
Honest(b) == At(b, "ok") => ~build[b].failed

BuilderSound(b) == PortHeld(b) /\ VolumeOwn(b) /\ Loaded(b) /\ Honest(b)

BuildInv ==
  /\ BuildTypeOK /\ OwnImages /\ Genuine
  /\ \A b \in Builder : BuilderSound(b)
  /\ \A b, c \in Builder : b # c => Apart(b, c)

-----------------------------------------------------------------------------
(* The invariant of the commands *)

\* A command r is at a place that its job has.
Shape(r) ==
  /\ r.pc = "list" => r.job.op # "deploy"
  /\ r.pc \in {"apply", "expose", "wait"} => r.job.op = "deploy"
  /\ r.pc \in {"bundle", "extract", "open", "write"} =>
       r.job.op = "import" /\ r.left # {} /\ r.next \in DOMAIN r.job.bundles
  /\ r.pc \in {"wipe", "undeploy", "unexpose", "remove"} => r.job.op = "delete"
  /\ r.pc = "wipe" => r.left # {}
  /\ r.pc \in {"extract", "open", "write"} => r.todo # {}
  /\ r.pc = "open" => r.job.dir
  /\ r.pc \in {"get", "apply", "expose", "wait", "undeploy", "unexpose", "remove", "ok"} =>
       r.left = {}
  /\ r.left \subseteq r.targets

\* A delete has emptied the directories f of the pods that it is through with, but for
\* nodes s to which something was imported since.
Wiped(r, f, s) ==
  r.job.op = "delete" /\ r.pc \in {"wipe", "undeploy", "unexpose", "remove", "ok"} =>
    \A p \in r.targets :
      (r.pc = "wipe" => p \notin r.left) /\ NodeOf[p] \notin s =>
        \A m \in Registry!Name : f[NodeOf[p]][m] = None

\* What an image consists of is named after it, in files f and in what command r has to do.
Named(r, f) ==
  /\ \A n \in Node, x \in Content : f[n][x] \in Content => f[n][x] = x
  /\ \A e \in r.todo : e[1] \in Content => e[2] = e[1]
  /\ r.pc = "open" /\ r.seen \in Content /\ Registry!Entry(r)[1] \in Content =>
       r.seen = Registry!Entry(r)[1]

\* A command knows in h what it could find whole in f.
Seen(r, f, h) ==
  /\ r.pc \notin Registry!Ended =>
       \A n \in Node, m \in Registry!Name : f[n][m] \in Content => <<n, m, f[n][m]>> \in h
  /\ r.pc = "open" /\ r.seen \in Content => <<Local, Registry!Entry(r)[1], r.seen>> \in h

\* The file that command c is writing is its own until that is undone.
Writes(c, r, f, u) ==
  r.pc = "write" =>
    \/ f[Registry!Destination(r)][Registry!Entry(r)[1]] = c
    \/ <<Registry!Destination(r), Registry!Entry(r)[1]>> \in u

\* An import has got, in g, the bundles for the pods that it is through with, ...
GotAll(r, g) ==
  r.job.op = "import" /\ r.pc \in {"bundle", "extract", "open", "write", "ok"} =>
    \A p \in r.targets, k \in DOMAIN r.job.bundles :
      \/ p \notin r.left
      \/ p = Registry!First(r.left) /\ k < r.next
      \/ p = Registry!First(r.left) /\ k = r.next /\ r.pc # "bundle"
      => \E t \in g : t[1] = (IF r.job.dir THEN Local ELSE NodeOf[p]) /\ t[2] = r.job.bundles[k]

\* ... and has brought what was in them, but for what ImportSound excepts, ...
Reached(r, n, e, h, u) ==
  \/ <<n, e[1], e[2]>> \in h
  \/ <<n, e[1]>> \in u
  \/ r.job.dir /\ e[1] \in Tag /\ \E x \in Content \ {e[2]} : <<n, e[1], x>> \in h

\* ... and for what it has still to do.
Brought(r, h, g, u) ==
  \A t \in g : \A e \in t[3] :
    \/ Reached(r, t[1], e, h, u)
    \/ r.pc \in {"extract", "open", "write"} /\ e \in r.todo /\ t[1] = Registry!Destination(r)

Sound(c, r, f, h, g, s, u) ==
  /\ Shape(r) /\ Wiped(r, f, s) /\ Named(r, f) /\ Seen(r, f, h) /\ Writes(c, r, f, u)
  /\ GotAll(r, g) /\ Brought(r, h, g, u)

CommandSound(c) == Sound(c, proc[c], files, held[c], got[c], stored[c], undone[c])

\* As long as no deploy meets a delete, what a delete takes away stays away, and what
\* a deploy needs stays.
Sequenced ==
  ~overlapped =>
    /\ \A c, d \in Command :
         proc[c].pc \notin Registry!Ended /\ proc[c].job.op = "delete" /\ proc[d].job.op = "deploy" =>
           proc[d].pc \in Registry!Ended
    /\ \A c \in Command :
         /\ proc[c].pc \in {"apply", "expose", "wait"} => registry
         /\ proc[c].pc \in {"unexpose", "remove"} => deployment # "live"
         /\ proc[c].pc = "remove" => ~service

RegistryInv ==
  /\ Registry!RegistryTypeOK /\ Sequenced /\ Resumable
  /\ \A c \in Command : CommandSound(c)

-----------------------------------------------------------------------------
(* The invariant of the whole way *)

\* A bundle that is trusted holds its application, and no build is at work on it.
TrustSound ==
  /\ \A a \in trusted["now"] :
       Holds(a) /\ \A b \in Builder : build[b].app = a => build[b].pc \in Quiet
  /\ \A c \in Command : trusted[c] \subseteq trusted["now"]

\* Among the files es are those of image i for application a, whose latest build is n.
Carries(a, i, n, es) ==
  \E x \in Content : Right(a, i, x, n) /\ {<<Target[i], x>>, <<x, x>>} \subseteq es

\* What was got of a trusted bundle was the whole application.
GotSound ==
  \A c \in Command : \A t \in got[c] : t[2] \in trusted[c] =>
    \A i \in Images(t[2]) : Carries(t[2], i, made[t[2]], t[3])

IInv == TypeOK /\ BuildInv /\ RegistryInv /\ TrustSound /\ GotSound

-----------------------------------------------------------------------------
(* The applications and their images *)

LEMMA ImagesOf ==
  ASSUME NEW a \in App
  PROVE  /\ AllImages[a] \in Seq(Image) /\ Len(AllImages[a]) \in Nat \ {0}
         /\ DOMAIN AllImages[a] = 1 .. Len(AllImages[a])
         /\ \A k \in DOMAIN AllImages[a] : AllImages[a][k] \in Image /\ AllImages[a][k] \in Images(a)
         /\ DeployImage(a) \in Images(a) /\ Images(a) \subseteq Image
<1>1. AllImages[a] \in Seq(Image) /\ AllImages[a] # <<>>
  BY BuildAssumption DEF BuildAssumption
<1>2. DOMAIN AllImages[a] = 1 .. Len(AllImages[a]) /\ Len(AllImages[a]) \in Nat \ {0}
  BY <1>1
<1>3. \A k \in DOMAIN AllImages[a] : AllImages[a][k] \in Image
  BY <1>1
<1>4. Images(a) \subseteq Image
  BY <1>3 DEF Images
<1>5. Len(AllImages[a]) \in DOMAIN AllImages[a]
  BY <1>2
<1>6. \A k \in DOMAIN AllImages[a] : AllImages[a][k] \in Images(a)
  BY DEF Images
<1>7. DeployImage(a) \in Images(a)
  BY <1>5, <1>6 DEF DeployImage
<1> QED
  BY <1>1, <1>2, <1>3, <1>4, <1>6, <1>7

\* What is an image is something.
LEMMA RightIsThere ==
  ASSUME NEW a \in App, NEW n \in 0 .. MaxBuild, NEW i, NEW x, Right(a, i, x, n)
  PROVE  x # None
<1>1. <<a, n>> \in Content /\ None \notin Content
  BY BuildAssumption DEF Content, BuildAssumption
<1> QED
  BY <1>1 DEF Right, IsImage

LEMMA MeetIsSymmetric ==
  ASSUME NEW a, NEW e  PROVE Meet(a, e) <=> Meet(e, a)
BY DEF Meet

\* Applications meet themselves.
LEMMA MeetsItself ==
  ASSUME NEW a \in App  PROVE Meet(a, a)
BY ImagesOf DEF Meet

-----------------------------------------------------------------------------
(* A build that takes its next image *)

LEMMA NextImageFacts ==
  ASSUME NEW r \in Build, r.next \in DOMAIN AllImages[r.app],
         NEW again \in {"pull", "tag"}, NEW then \in {"tag", "copy"}
  PROVE  /\ NextImage(r, again, then) \in Build
         /\ NextImage(r, again, then).next \in DOMAIN AllImages[r.app]
         /\ NextImage(r, again, then).app = r.app /\ NextImage(r, again, then).rival = r.rival
         /\ NextImage(r, again, then).failed = r.failed
         /\ NextImage(r, again, then).unseen = r.unseen
         /\ \/ /\ NextImage(r, again, then).pc = again
               /\ NextImage(r, again, then).next = r.next + 1
            \/ /\ NextImage(r, again, then).pc = then /\ r.next = Len(AllImages[r.app])
               /\ NextImage(r, again, then).next = 1
<1> DEFINE len == Len(AllImages[r.app])
           next == IF r.next < len THEN r.next + 1 ELSE 1
           pc == IF r.next < len THEN again ELSE then
           e == NextImage(r, again, then)
<1>1. r.app \in App /\ r.next \in 1 .. len /\ len \in Nat \ {0} /\ DOMAIN AllImages[r.app] = 1 .. len
  BY ImagesOf DEF Build
<1>2. next \in 1 .. len /\ next \in Nat /\ (r.next < len => next = r.next + 1)
        /\ (~(r.next < len) => r.next = len /\ next = 1)
  BY <1>1
<1>3. pc \in {again, then} /\ (r.next < len => pc = again) /\ (~(r.next < len) => pc = then)
  OBVIOUS
<1>4. e = [r EXCEPT !.next = next, !.pc = pc]
  BY DEF NextImage, Build
<1> HIDE DEF len, next, pc, e
<1>5. /\ e.next = next /\ e.pc = pc /\ e.app = r.app /\ e.rival = r.rival
      /\ e.failed = r.failed /\ e.unseen = r.unseen
  BY <1>4 DEF Build
<1>6. e \in Build
  BY <1>2, <1>3, <1>4 DEF Build
<1>7. next \in DOMAIN AllImages[r.app]
  BY <1>1, <1>2
<1>8. \/ e.pc = again /\ e.next = r.next + 1
      \/ e.pc = then /\ r.next = Len(AllImages[r.app]) /\ e.next = 1
  BY <1>2, <1>3, <1>5 DEF len
<1> QED
  BY <1>5, <1>6, <1>7, <1>8 DEF e

-----------------------------------------------------------------------------
(* What a step of one build does to the others *)

\* A step of another build at most marks build c, and leaves alone what c relies on.
Spared(c) ==
  /\ build'[c] \in {build[c], [build[c] EXCEPT !.rival = TRUE]}
  /\ build[c].pc \in Serving => port' = port /\ volume'[c] = volume[c] /\ tagged' = tagged
  /\ ~build'[c].rival /\ build[c].pc \notin {"image", "error"} =>
       LET a == build[c].app  d == DeployImage(a) IN
       /\ local'[d] = local[d] /\ remote'[d] = remote[d] /\ made'[a] = made[a]
       /\ Holds(a) => Holds(a)'

LEMMA SparedIsSound ==
  ASSUME BuildTypeOK, NEW c \in Builder, BuilderSound(c), Spared(c)
  PROVE  BuilderSound(c)'
<1> DEFINE r == build[c]  d == DeployImage(r.app)
<1>1. /\ build'[c].pc = r.pc /\ build'[c].app = r.app /\ build'[c].next = r.next
      /\ build'[c].failed = r.failed /\ build'[c].unseen = r.unseen
      /\ r.rival => build'[c].rival
  BY DEF Spared, BuildTypeOK, Build
<1>2. PortHeld(c)'
  BY <1>1 DEF BuilderSound, PortHeld, Spared
<1>3. VolumeOwn(c)'
  BY <1>1 DEF BuilderSound, VolumeOwn, Spared
<1>4. Loaded(c)'
  <2>1. CASE build'[c].rival \/ r.pc \in {"image", "error"}
    BY <1>1, <2>1 DEF Loaded, Clean, Unhindered, Quiet, Idle
  <2>2. CASE ~build'[c].rival /\ r.pc \notin {"image", "error"}
    <3>1. /\ local'[d] = local[d] /\ remote'[d] = remote[d] /\ made'[r.app] = made[r.app]
          /\ r.pc \in Serving => volume'[c] = volume[c] /\ tagged' = tagged
          /\ Holds(r.app) => Holds(r.app)'
      BY <2>2 DEF Spared
    <3>2. DeployImage(build'[c].app) = d /\ AllImages[build'[c].app] = AllImages[r.app]
      BY <1>1
    <3>3. Clean(c)' => Clean(c)
      BY <1>1 DEF Clean, Unhindered
    <3> HIDE DEF d
    <3>4. SUFFICES ASSUME Clean(c)  PROVE Loaded(c)'
      BY <3>3 DEF Loaded
    <3>5. Loaded(c)
      BY DEF BuilderSound
    <3> DEFINE all == AllImages[r.app]  n == made[r.app]
    <3>6. /\ build'[c].pc \notin Quiet => local'[d] = <<r.app, n>>
          /\ build'[c].pc \notin Quiet \cup {"upload"} => remote'[d] = <<r.app, n>>
      BY <1>1, <3>1, <3>4, <3>5 DEF Loaded, d
    <3>7. ASSUME build'[c].pc \in {"tag", "push"}, NEW k \in DOMAIN all, k < build'[c].next
          PROVE  HasImage(volume'[c], r.app, k, n) /\ HasImage(tagged', r.app, k, n)
      BY <1>1, <3>1, <3>4, <3>5, <3>7 DEF Loaded, Serving
    <3>8. build'[c].pc = "push" => HasImage(tagged', r.app, build'[c].next, n)
      BY <1>1, <3>1, <3>4, <3>5 DEF Loaded, Serving
    <3>9. build'[c].pc \in {"copy", "make", "fill"} => \A k \in DOMAIN all : HasImage(volume'[c], r.app, k, n)
      BY <1>1, <3>1, <3>4, <3>5 DEF Loaded, Serving
    <3>10. build'[c].pc \in {"stop", "ok"} => Holds(build[c].app)'
      BY <1>1, <3>1, <3>4, <3>5 DEF Loaded
    <3>11. made'[build'[c].app] = n
      BY <1>1, <3>1
    <3> HIDE DEF n, all
    <3>12. /\ build'[c].pc \in {"tag", "push"} => \A k \in DOMAIN all : k < build'[c].next =>
                HasImage(volume'[c], r.app, k, n) /\ HasImage(tagged', r.app, k, n)
      BY <3>7
    <3>13. build'[c].app = r.app /\ all = AllImages[r.app]
      BY <1>1 DEF all
    <3> QED
      BY <1>1, <3>2, <3>6, <3>8, <3>9, <3>10, <3>11, <3>12, <3>13 DEF Loaded
  <2> QED
    BY <2>1, <2>2
<1>5. Honest(c)'
  BY <1>1 DEF BuilderSound, Honest, At
<1> QED
  BY <1>2, <1>3, <1>4, <1>5 DEF BuilderSound

\* What a step of build b does to bundles, and to how far the builds are.
Moves(b) ==
  /\ \A c \in Builder \ {b} : build'[c].pc = build[c].pc /\ build'[c].app = build[c].app
  /\ \A a \in App \ {build[b].app} : made'[a] = made[a] /\ (Holds(a) => Holds(a)')
  /\ made' = made \/ (At(b, "image") /\ build'[b].pc = "upload")
  /\ build[b].pc \in Quiet =>
       \/ build'[b].pc \in Quiet /\ kb' = kb
       \/ At(b, "image") /\ build'[b].pc = "upload" /\ build'[b].app = build[b].app
  /\ build[b].pc \notin Quiet => build'[b].app = build[b].app
  /\ At(b, "stop") /\ build'[b].pc = "ok" =>
       ~build[b].failed /\ build'[b] = [build[b] EXCEPT !.pc = "ok"]

\* All of the builds' invariant after a step of build b.
Effect(b) ==
  /\ BuildTypeOK' /\ OwnImages' /\ Genuine' /\ BuilderSound(b)' /\ Moves(b)
  /\ \A c \in Builder \ {b} : Spared(c)
  /\ \A c, e \in Builder : c # e => Apart(c, e)'

\* Build b goes on with its application, or ends.
Onward(b, r) ==
  /\ build[b].pc \in Quiet => r.pc = "error"
  /\ r.app = build[b].app /\ r.rival = build[b].rival

LEMMA OnwardKeepsApart ==
  ASSUME BuildInv, NEW b \in Builder, NEW r \in Build, Be(b, r), Onward(b, r)
  PROVE  \A c, e \in Builder : c # e => Apart(c, e)'
<1>1. build'[b] = r /\ \A c \in Builder \ {b} : build'[c] = build[c]
  BY DEF Be, BuildInv, BuildTypeOK
<1>2. SUFFICES ASSUME NEW c \in Builder, NEW e \in Builder, c # e  PROVE Apart(c, e)'
  OBVIOUS
<1>3. Apart(c, e) /\ Apart(e, c)
  BY <1>2 DEF BuildInv
<1>4. CASE c = b
  BY <1>1, <1>2, <1>3, <1>4 DEF Apart, Onward, Quiet, Idle
<1>5. CASE e = b
  BY <1>1, <1>2, <1>3, <1>5 DEF Apart, Onward, Quiet, Idle
<1>6. CASE c # b /\ e # b
  BY <1>1, <1>2, <1>3, <1>6 DEF Apart
<1> QED
  BY <1>4, <1>5, <1>6

\* While build b is at work, a clean build of another process does not meet it.
LEMMA OthersAreForeign ==
  ASSUME BuildInv, NEW b \in Builder, build[b].pc \notin Quiet,
         NEW c \in Builder, c # b, ~build[c].rival, build[c].pc \notin {"image", "error"}
  PROVE  /\ build[c].app # build[b].app /\ build[c].app \in App /\ build[b].app \in App
         /\ DeployImage(build[c].app) \notin Images(build[b].app)
<1>1. Apart(c, b)
  BY DEF BuildInv
<1>2. ~Meet(build[c].app, build[b].app)
  BY <1>1 DEF Apart
<1>3. build[c].app \in App /\ build[b].app \in App
  BY DEF BuildInv, BuildTypeOK, Build
<1>4. build[c].app # build[b].app
  BY <1>2, <1>3, MeetsItself
<1> QED
  BY <1>2, <1>3, <1>4 DEF Meet

\* A build of one process has changed, and so has, at most, the daemon's state that only
\* builds of its own application rely on.
LEMMA OneBuild ==
  ASSUME NEW b \in Builder, BuildInv, NEW r \in Build, r.next \in DOMAIN AllImages[r.app],
         Be(b, r), builds' \in 0 .. MaxBuild
  PROVE  /\ build' \in [Builder -> Build] /\ build'[b] = r
         /\ \A c \in Builder \ {b} : build'[c] = build[c]
         /\ \A c \in Builder : build'[c].next \in DOMAIN AllImages[build'[c].app]
<1>1. build' \in [Builder -> Build] /\ build'[b] = r /\ \A c \in Builder \ {b} : build'[c] = build[c]
  BY DEF Be, BuildInv, BuildTypeOK
<1>2. \A c \in Builder : build'[c].next \in DOMAIN AllImages[build'[c].app]
  BY <1>1 DEF BuildInv, BuildTypeOK
<1> QED
  BY <1>1, <1>2

\* A step that changes only the build, and perhaps who has the port.
LEMMA PlainStep ==
  ASSUME NEW b \in Builder, BuildInv, NEW r \in Build, r.next \in DOMAIN AllImages[r.app],
         Be(b, r), Onward(b, r), builds' = builds,
         UNCHANGED <<local, tagged, remote, volume, kb, made>>,
         port' \in Builder \cup {"free", "leaked"},
         \A c \in Builder \ {b} : port = c => port' = port,
         BuilderSound(b)',
         build[b].pc \in Quiet \cup {"stop"} => r.pc \in Quiet,
         At(b, "stop") /\ r.pc = "ok" => ~build[b].failed /\ r = [build[b] EXCEPT !.pc = "ok"]
  PROVE  Effect(b)
<1>1. /\ build' \in [Builder -> Build] /\ build'[b] = r
      /\ \A c \in Builder \ {b} : build'[c] = build[c]
      /\ \A c \in Builder : build'[c].next \in DOMAIN AllImages[build'[c].app]
  BY OneBuild DEF BuildInv, BuildTypeOK
<1>2. BuildTypeOK'
  BY <1>1 DEF BuildInv, BuildTypeOK
<1>3. OwnImages'
  BY DEF BuildInv, OwnImages
<1>4. \A a \in App : Holds(a) => Holds(a)'
  BY DEF Holds
<1>5. \A c \in Builder \ {b} : Spared(c)
  <2> SUFFICES ASSUME NEW c \in Builder, c # b  PROVE Spared(c)
    OBVIOUS
  <2>1. build[c].pc \in Serving => port' = port /\ volume'[c] = volume[c] /\ tagged' = tagged
    BY DEF BuildInv, BuilderSound, PortHeld
  <2>2. build[c].app \in App
    BY DEF BuildInv, BuildTypeOK, Build
  <2>3. Holds(build[c].app) => Holds(build[c].app)'
    BY <1>1 DEF Holds
  <2> QED
    BY <1>1, <2>1, <2>3 DEF Spared
<1>6. \A c, e \in Builder : c # e => Apart(c, e)'
  BY OnwardKeepsApart
<1>7. Moves(b)
  BY <1>1, <1>4 DEF Moves, Onward
<1>8. Genuine'
  BY DEF BuildInv, Genuine
<1> QED
  BY <1>2, <1>3, <1>5, <1>6, <1>7, <1>8 DEF Effect

\* The program counter of build b becomes pc, and it has failed or not.
Became(b, pc, failed, r) ==
  /\ Be(b, r) /\ build'[b] = r /\ r.next \in DOMAIN AllImages[r.app]
  /\ r.pc = pc /\ r.failed = failed /\ r.app = build[b].app /\ r.next = build[b].next
  /\ r.unseen = build[b].unseen /\ r.rival = build[b].rival

LEMMA MovedOn ==
  ASSUME NEW b \in Builder, BuildInv, NEW pc \in {"start", "make", "stop", "ok", "error"},
         Be(b, [build[b] EXCEPT !.pc = pc])
  PROVE  \E r \in Build : r = [build[b] EXCEPT !.pc = pc] /\ Became(b, pc, build[b].failed, r)
<1>1. PICK r : r = [build[b] EXCEPT !.pc = pc]
  OBVIOUS
<1>2. build[b] \in Build /\ build[b].next \in DOMAIN AllImages[build[b].app]
  BY DEF BuildInv, BuildTypeOK
<1>3. /\ r.pc = pc /\ r.failed = build[b].failed /\ r.app = build[b].app
      /\ r.next = build[b].next /\ r.unseen = build[b].unseen /\ r.rival = build[b].rival
  BY <1>1, <1>2 DEF Build
<1>4. r \in Build
  BY <1>1, <1>2 DEF Build
<1>5. Be(b, r) /\ build'[b] = r
  BY <1>1 DEF Be, BuildInv, BuildTypeOK
<1> QED
  BY <1>1, <1>2, <1>3, <1>4, <1>5 DEF Became

LEMMA Failed ==
  ASSUME NEW b \in Builder, BuildInv, Be(b, [build[b] EXCEPT !.pc = "stop", !.failed = TRUE])
  PROVE  \E r \in Build : Became(b, "stop", TRUE, r)
<1>1. PICK r : r = [build[b] EXCEPT !.pc = "stop", !.failed = TRUE]
  OBVIOUS
<1>2. build[b] \in Build /\ build[b].next \in DOMAIN AllImages[build[b].app]
  BY DEF BuildInv, BuildTypeOK
<1>3. /\ r.pc = "stop" /\ r.failed = TRUE /\ r.app = build[b].app
      /\ r.next = build[b].next /\ r.unseen = build[b].unseen /\ r.rival = build[b].rival
  BY <1>1, <1>2 DEF Build
<1>4. r \in Build
  BY <1>1, <1>2 DEF Build
<1>5. Be(b, r) /\ build'[b] = r
  BY <1>1 DEF Be, BuildInv, BuildTypeOK
<1> QED
  BY <1>1, <1>2, <1>3, <1>4, <1>5 DEF Became

LEMMA BuildFailsEffect ==
  ASSUME NEW b \in Builder, BuildInv, BuildFails(b)
  PROVE  Effect(b)
<1>1. CASE /\ build[b].pc \in {"image", "upload", "create", "start"}
           /\ BuildStep(b, [build[b] EXCEPT !.pc = "error"])
  <2>1. /\ Be(b, [build[b] EXCEPT !.pc = "error"])
        /\ UNCHANGED <<local, tagged, remote, port, volume, kb, made, builds>>
    BY <1>1 DEF BuildStep
  <2>2. PICK r \in Build : Became(b, "error", build[b].failed, r)
    BY <2>1, MovedOn
  <2>3. BuilderSound(b)'
    BY <2>2 DEF Became, BuilderSound, PortHeld, VolumeOwn, Loaded, Serving, Quiet, Idle, Honest, At
  <2>4. Onward(b, r)
    BY <2>2 DEF Became, Onward
  <2>5. port' \in Builder \cup {"free", "leaked"}
    BY <2>1 DEF BuildInv, BuildTypeOK
  <2> QED
    BY <1>1, <2>1, <2>2, <2>3, <2>4, <2>5, PlainStep DEF Became, Quiet, Idle, At
<1>2. CASE /\ build[b].pc \in Serving \ {"fill", "stop"}
           /\ BuildStep(b, [build[b] EXCEPT !.pc = "stop", !.failed = TRUE])
  <2>1. /\ Be(b, [build[b] EXCEPT !.pc = "stop", !.failed = TRUE])
        /\ UNCHANGED <<local, tagged, remote, port, volume, kb, made, builds>>
    BY <1>2 DEF BuildStep
  <2>2. PICK r \in Build : Became(b, "stop", TRUE, r)
    BY <2>1, Failed
  <2>3. PortHeld(b) /\ VolumeOwn(b)
    BY DEF BuildInv, BuilderSound
  <2>4. BuilderSound(b)'
    BY <1>2, <2>1, <2>2, <2>3
       DEF Became, BuilderSound, PortHeld, VolumeOwn, Loaded, Clean, Unhindered, Serving, Honest, At
  <2>5. Onward(b, r)
    BY <1>2, <2>2 DEF Became, Onward, Quiet, Idle, Serving
  <2>6. port' \in Builder \cup {"free", "leaked"}
    BY <2>1 DEF BuildInv, BuildTypeOK
  <2> QED
    BY <1>2, <2>1, <2>2, <2>4, <2>5, <2>6, PlainStep DEF Became, Quiet, Idle, At, Serving
<1> QED
  BY <1>1, <1>2 DEF BuildFails

LEMMA KillBuildEffect ==
  ASSUME NEW b \in Builder, BuildInv, KillBuild(b)
  PROVE  Effect(b)
<1>1. /\ Be(b, [build[b] EXCEPT !.pc = "error"])
      /\ UNCHANGED <<local, tagged, remote, volume, kb, made, builds>>
      /\ port' = IF port = b THEN "leaked" ELSE port
  BY DEF KillBuild
<1>2. PICK r \in Build : Became(b, "error", build[b].failed, r)
  BY <1>1, MovedOn
<1>3. BuilderSound(b)'
  BY <1>2 DEF Became, BuilderSound, PortHeld, VolumeOwn, Loaded, Serving, Quiet, Idle, Honest, At
<1>4. Onward(b, r)
  BY <1>2 DEF Became, Onward
<1>5. port' \in Builder \cup {"free", "leaked"} /\ \A c \in Builder \ {b} : port = c => port' = port
  BY <1>1 DEF BuildInv, BuildTypeOK
<1> QED
  BY <1>1, <1>2, <1>3, <1>4, <1>5, PlainStep DEF Became, Quiet, Idle, At

LEMMA CreateContainerEffect ==
  ASSUME NEW b \in Builder, BuildInv, CreateContainer(b)
  PROVE  Effect(b)
<1>1. /\ Be(b, [build[b] EXCEPT !.pc = "start"]) /\ At(b, "create")
      /\ UNCHANGED <<local, tagged, remote, port, volume, kb, made, builds>>
  BY DEF CreateContainer, BuildStep
<1>2. PICK r \in Build : Became(b, "start", build[b].failed, r)
  BY <1>1, MovedOn
<1>3. Loaded(b)
  BY DEF BuildInv, BuilderSound
<1>4. Loaded(b)'
  BY <1>1, <1>2, <1>3 DEF Became, Loaded, Clean, Unhindered, Quiet, Idle, At
<1>5. BuilderSound(b)'
  BY <1>2, <1>4 DEF Became, BuilderSound, PortHeld, VolumeOwn, Serving, Honest, At
<1>6. Onward(b, r)
  BY <1>1, <1>2 DEF Became, Onward, At, Quiet, Idle
<1>7. port' \in Builder \cup {"free", "leaked"}
  BY <1>1 DEF BuildInv, BuildTypeOK
<1> QED
  BY <1>1, <1>2, <1>5, <1>6, <1>7, PlainStep DEF Became, Quiet, Idle, At

LEMMA CopyImagesEffect ==
  ASSUME NEW b \in Builder, BuildInv, CopyImages(b)
  PROVE  Effect(b)
<1>1. /\ Be(b, [build[b] EXCEPT !.pc = "make"]) /\ At(b, "copy")
      /\ UNCHANGED <<local, tagged, remote, port, volume, kb, made, builds>>
  BY DEF CopyImages, BuildStep
<1>2. PICK r \in Build : Became(b, "make", build[b].failed, r)
  BY <1>1, MovedOn
<1>3. Loaded(b) /\ PortHeld(b) /\ VolumeOwn(b)
  BY DEF BuildInv, BuilderSound
<1>4. Loaded(b)'
  BY <1>1, <1>2, <1>3 DEF Became, Loaded, Clean, Unhindered, Quiet, Idle, At
<1>5. PortHeld(b)' /\ VolumeOwn(b)'
  BY <1>1, <1>2, <1>3 DEF Became, PortHeld, VolumeOwn, Serving, At
<1>6. Onward(b, r)
  BY <1>1, <1>2 DEF Became, Onward, At, Quiet, Idle
<1>7. port' \in Builder \cup {"free", "leaked"}
  BY <1>1 DEF BuildInv, BuildTypeOK
<1> QED
  BY <1>1, <1>2, <1>4, <1>5, <1>6, <1>7, PlainStep
     DEF Became, BuilderSound, Honest, Quiet, Idle, At

\* Both ways to stop the registry end the build as it went.
LEMMA StopEffect ==
  ASSUME NEW b \in Builder, BuildInv, StopRegistry(b) \/ StopFails(b)
  PROVE  Effect(b)
<1>1. PICK pc \in {"error", "ok"} : pc = IF build[b].failed THEN "error" ELSE "ok"
  OBVIOUS
<1>2. /\ Be(b, [build[b] EXCEPT !.pc = pc]) /\ At(b, "stop")
      /\ UNCHANGED <<local, tagged, remote, volume, kb, made, builds>>
      /\ \/ port' = IF port = b THEN "leaked" ELSE port
         \/ port' = IF port = b THEN "free" ELSE port
  BY <1>1 DEF StopRegistry, StopFails, Outcome
<1>3. PICK r \in Build : r = [build[b] EXCEPT !.pc = pc] /\ Became(b, pc, build[b].failed, r)
  BY <1>1, <1>2, MovedOn
<1>4. Loaded(b)
  BY DEF BuildInv, BuilderSound
<1>5. Loaded(b)'
  <2>1. Holds(build[b].app) => Holds(build[b].app)'
    BY <1>2, <1>3 DEF Became, Holds
  <2> QED
    BY <1>1, <1>2, <1>3, <1>4, <2>1 DEF Became, Loaded, Clean, Unhindered, Quiet, Idle, At
<1>6. BuilderSound(b)'
  BY <1>1, <1>3, <1>5 DEF Became, BuilderSound, PortHeld, VolumeOwn, Serving, Honest, At
<1>7. Onward(b, r)
  BY <1>2, <1>3 DEF Became, Onward, At, Quiet, Idle
<1>8. port' \in Builder \cup {"free", "leaked"} /\ \A c \in Builder \ {b} : port = c => port' = port
  BY <1>2 DEF BuildInv, BuildTypeOK
<1>9. Be(b, r) /\ r.next \in DOMAIN AllImages[r.app] /\ r.pc \in Quiet
  BY <1>1, <1>3 DEF Became, Quiet, Idle
<1>10. r.pc = "ok" => ~build[b].failed /\ r = [build[b] EXCEPT !.pc = "ok"]
  BY <1>1, <1>3 DEF Became
<1> QED
  BY <1>2, <1>6, <1>7, <1>8, <1>9, <1>10, PlainStep

-----------------------------------------------------------------------------
(* The steps that change a build and one thing more *)

LEMMA FreePortKeeps ==
  ASSUME BuildInv, FreePort
  PROVE  BuildInv' /\ UNCHANGED <<build, kb, made>>
<1>1. UNCHANGED <<local, tagged, remote, volume, kb, made, build, builds>> /\ port = "leaked" /\ port' = "free"
  BY DEF FreePort
<1>2. BuildTypeOK'
  BY <1>1 DEF BuildInv, BuildTypeOK
<1>3. OwnImages'
  BY <1>1 DEF BuildInv, OwnImages
<1>4. \A c \in Builder : BuilderSound(c)'
  <2> SUFFICES ASSUME NEW c \in Builder  PROVE BuilderSound(c)'
    OBVIOUS
  <2>1. PortHeld(c) /\ VolumeOwn(c) /\ Loaded(c) /\ Honest(c) /\ c # "leaked"
    BY BuildAssumption DEF BuildInv, BuilderSound, BuildAssumption
  <2>2. PortHeld(c)'
    BY <1>1, <2>1 DEF PortHeld
  <2>3. VolumeOwn(c)'
    BY <1>1, <2>1 DEF VolumeOwn
  <2>4. Loaded(c)'
    BY <1>1, <2>1 DEF Loaded, Clean, Unhindered, Holds
  <2>5. Honest(c)'
    BY <1>1, <2>1 DEF Honest, At
  <2> QED
    BY <2>2, <2>3, <2>4, <2>5 DEF BuilderSound
<1>5. \A c, e \in Builder : c # e => Apart(c, e)'
  BY <1>1 DEF BuildInv, Apart
<1>6. Genuine'
  BY <1>1 DEF BuildInv, Genuine
<1> QED
  BY <1>1, <1>2, <1>3, <1>4, <1>5, <1>6 DEF BuildInv

LEMMA StartBuildEffect ==
  ASSUME NEW b \in Builder, BuildInv, NEW apps \in SUBSET App, StartBuild(b, apps)
  PROVE  Effect(b)
<1>1. PICK a \in App :
        Be(b, [pc |-> "image", app |-> a, number |-> builds', next |-> 1, failed |-> FALSE,
               unseen |-> FALSE, rival |-> FALSE])
  BY DEF StartBuild
<1> DEFINE r0 == [pc |-> "image", app |-> a, number |-> builds', next |-> 1, failed |-> FALSE,
                  unseen |-> FALSE, rival |-> FALSE]
<1>2. PICK r : r = r0
  OBVIOUS
<1>0. builds' \in 0 .. MaxBuild
  BY BuildAssumption DEF StartBuild, BuildInv, BuildTypeOK, BuildAssumption
<1>3. r \in Build /\ Be(b, r) /\ r.pc = "image" /\ r.next = 1 /\ r.app = a
  BY <1>0, <1>1, <1>2 DEF Build
<1>4. r.next \in DOMAIN AllImages[r.app]
  BY <1>3, ImagesOf
<1>5. /\ UNCHANGED <<local, tagged, remote, port, volume, kb, made>> /\ builds' \in 0 .. MaxBuild
      /\ build[b].pc \in Idle
  BY BuildAssumption DEF StartBuild, BuildInv, BuildTypeOK, BuildAssumption
<1>6. /\ build' \in [Builder -> Build] /\ build'[b] = r
      /\ \A c \in Builder \ {b} : build'[c] = build[c]
      /\ \A c \in Builder : build'[c].next \in DOMAIN AllImages[build'[c].app]
  BY <1>3, <1>4, <1>5, OneBuild
<1>7. BuildTypeOK'
  BY <1>5, <1>6 DEF BuildInv, BuildTypeOK
<1>8. OwnImages'
  BY <1>5 DEF BuildInv, OwnImages
<1>9. BuilderSound(b)'
  BY <1>3, <1>6 DEF BuilderSound, PortHeld, VolumeOwn, Loaded, Serving, Quiet, Idle, Honest, At
<1>10. \A e \in App : Holds(e) => Holds(e)'
  BY <1>5 DEF Holds
<1>11. \A c \in Builder \ {b} : Spared(c)
  <2> SUFFICES ASSUME NEW c \in Builder \ {b}  PROVE Spared(c)
    OBVIOUS
  <2>1. Holds(build[c].app) => Holds(build[c].app)'
    BY <1>5, <1>6 DEF Holds
  <2> QED
    BY <1>5, <1>6, <2>1 DEF Spared
<1>12. \A c, e \in Builder : c # e => Apart(c, e)'
  <2> SUFFICES ASSUME NEW c \in Builder, NEW e \in Builder, c # e  PROVE Apart(c, e)'
    OBVIOUS
  <2>1. CASE c = b \/ e = b
    BY <1>3, <1>6, <2>1 DEF Apart, Quiet, Idle
  <2>2. CASE c # b /\ e # b
    BY <1>6, <2>2 DEF BuildInv, Apart
  <2> QED
    BY <2>1, <2>2
<1>13. Moves(b)
  BY <1>3, <1>5, <1>6, <1>10 DEF Moves, Quiet, Idle, At
<1>14. Genuine'
  BY <1>5 DEF BuildInv, Genuine
<1> QED
  BY <1>7, <1>8, <1>9, <1>11, <1>12, <1>13, <1>14 DEF Effect

\* A step of build b at work, that has brought its next image, or not.
Worked(b, r) ==
  /\ Be(b, r) /\ builds' = builds /\ build[b].pc \notin Quiet \cup {"stop"}
  /\ r.next \in DOMAIN AllImages[r.app] /\ r.app = build[b].app /\ r.rival = build[b].rival

LEMMA WorkedKeeps ==
  ASSUME NEW b \in Builder, BuildInv, NEW r \in Build, Worked(b, r)
  PROVE  /\ build' \in [Builder -> Build] /\ build'[b] = r
         /\ \A c \in Builder \ {b} : build'[c] = build[c]
         /\ \A c \in Builder : build'[c].next \in DOMAIN AllImages[build'[c].app]
         /\ \A c, e \in Builder : c # e => Apart(c, e)'
         /\ builds' \in 0 .. MaxBuild
<1>1. /\ Be(b, r) /\ r.next \in DOMAIN AllImages[r.app] /\ builds' \in 0 .. MaxBuild
      /\ Onward(b, r)
  BY DEF Worked, Onward, BuildInv, BuildTypeOK
<1>2. /\ build' \in [Builder -> Build] /\ build'[b] = r
      /\ \A c \in Builder \ {b} : build'[c] = build[c]
      /\ \A c \in Builder : build'[c].next \in DOMAIN AllImages[build'[c].app]
  BY <1>1, OneBuild
<1>3. \A c, e \in Builder : c # e => Apart(c, e)'
  BY <1>1, OnwardKeepsApart
<1> QED
  BY <1>1, <1>2, <1>3

\* Such a step changes no bundle, ...
LEMMA WorkedMoves ==
  ASSUME NEW b \in Builder, BuildInv, NEW r \in Build, Worked(b, r), kb' = kb, made' = made
  PROVE  Moves(b) /\ OwnImages' /\ \A a \in App : Holds(a) => Holds(a)'
<1>1. build'[b] = r /\ \A c \in Builder \ {b} : build'[c] = build[c]
  BY WorkedKeeps
<1>2. OwnImages'
  BY DEF BuildInv, OwnImages
<1>3. \A a \in App : Holds(a) => Holds(a)'
  BY DEF Holds
<1>4. Moves(b)
  BY <1>1, <1>3 DEF Moves, Worked, At
<1> QED
  BY <1>2, <1>3, <1>4

\* ... and spares the others, if what it changes of the daemon's is of its own images.
LEMMA WorkedSpares ==
  ASSUME NEW b \in Builder, BuildInv, NEW r \in Build, Worked(b, r),
         NEW c \in Builder \ {b},
         build[c].pc \in Serving => port' = port /\ volume'[c] = volume[c] /\ tagged' = tagged,
         \A i \in Image \ Images(build[b].app) : local'[i] = local[i] /\ remote'[i] = remote[i],
         made' = made, \A a \in App \ {build[b].app} : kb'[a] = kb[a]
  PROVE  Spared(c)
<1>1. build'[c] = build[c]
  BY WorkedKeeps
<1>2. ASSUME ~build[c].rival, build[c].pc \notin {"image", "error"}
      PROVE  LET a == build[c].app  d == DeployImage(a) IN
             /\ local'[d] = local[d] /\ remote'[d] = remote[d] /\ made'[a] = made[a]
             /\ Holds(a) => Holds(a)'
  <2>1. build[b].pc \notin Quiet
    BY DEF Worked
  <2>2. /\ build[c].app # build[b].app /\ build[c].app \in App
        /\ DeployImage(build[c].app) \notin Images(build[b].app)
    BY <1>2, <2>1, OthersAreForeign
  <2>3. DeployImage(build[c].app) \in Image
    BY <2>2, ImagesOf
  <2>4. kb'[build[c].app] = kb[build[c].app]
    BY <2>2
  <2>5. Holds(build[c].app) => Holds(build[c].app)'
    BY <1>1, <2>4 DEF Holds
  <2> QED
    BY <2>2, <2>3, <2>5
<1> QED
  BY <1>1, <1>2 DEF Spared

\* A build that does not have the port has no registry.
LEMMA NotServing ==
  ASSUME BuildInv, NEW c \in Builder, port # c
  PROVE  build[c].pc \notin Serving
BY DEF BuildInv, BuilderSound, PortHeld

\* Where a step of a build at work starts: what is known of the build.
LEMMA AtWork ==
  ASSUME NEW b \in Builder, BuildInv
  PROVE  /\ build[b] \in Build /\ build[b].app \in App
         /\ build[b].next \in DOMAIN AllImages[build[b].app]
         /\ Current(b) \in Image /\ Current(b) \in Images(build[b].app)
         /\ DeployImage(build[b].app) \in Image
         /\ DeployImage(build[b].app) \in Images(build[b].app)
         /\ PortHeld(b) /\ VolumeOwn(b) /\ Loaded(b) /\ Genuine
<1>1. build[b] \in Build /\ build[b].app \in App /\ build[b].next \in DOMAIN AllImages[build[b].app]
  BY DEF BuildInv, BuildTypeOK, Build
<1>2. Current(b) \in Image /\ Current(b) \in Images(build[b].app)
  BY <1>1, ImagesOf DEF Current
<1>3. DeployImage(build[b].app) \in Image /\ DeployImage(build[b].app) \in Images(build[b].app)
  BY <1>1, ImagesOf
<1>4. PortHeld(b) /\ VolumeOwn(b) /\ Loaded(b) /\ Genuine
  BY DEF BuildInv, BuilderSound
<1> QED
  BY <1>1, <1>2, <1>3, <1>4

LEMMA UploadDeployImageEffect ==
  ASSUME NEW b \in Builder, BuildInv, UploadDeployImage(b)
  PROVE  Effect(b)
<1> DEFINE d == DeployImage(build[b].app)
<1>1. /\ build[b].pc = "upload" /\ UNCHANGED <<local, tagged, port, volume, kb, made, builds>>
      /\ \/ remote' = [remote EXCEPT ![d] = local[d]] /\ Be(b, [build[b] EXCEPT !.pc = "create"])
         \/ Be(b, [build[b] EXCEPT !.pc = "create", !.unseen = TRUE]) /\ remote' = remote
  BY DEF UploadDeployImage, At
<1>2. PICK r : /\ Be(b, r)
               /\ \/ remote' = [remote EXCEPT ![d] = local[d]] /\ r = [build[b] EXCEPT !.pc = "create"]
                  \/ r = [build[b] EXCEPT !.pc = "create", !.unseen = TRUE] /\ remote' = remote
  BY <1>1
<1>3. /\ build[b] \in Build /\ build[b].app \in App /\ d \in Image /\ d \in Images(build[b].app)
      /\ build[b].next \in DOMAIN AllImages[build[b].app] /\ Loaded(b) /\ Genuine
  BY AtWork
<1> HIDE DEF d
<1>4. /\ r \in Build /\ r.pc = "create" /\ r.app = build[b].app /\ r.next = build[b].next
      /\ r.failed = build[b].failed /\ r.rival = build[b].rival
      /\ \/ remote' = [remote EXCEPT ![d] = local[d]] /\ r.unseen = build[b].unseen
         \/ r.unseen
  BY <1>2, <1>3 DEF Build
<1>5. Worked(b, r)
  BY <1>1, <1>2, <1>3, <1>4 DEF Worked, Quiet, Idle
<1>6. build'[b] = r
  BY <1>4, <1>5, WorkedKeeps
<1>7. /\ remote' \in [Image -> Held] /\ \A i \in Image \ {d} : remote'[i] = remote[i]
      /\ (~r.unseen => remote'[d] = local[d]) /\ remote'[d] \in {remote[d], local[d]}
  BY <1>2, <1>3, <1>4 DEF BuildInv, BuildTypeOK
<1>8. BuildTypeOK'
  BY <1>1, <1>4, <1>5, <1>7, WorkedKeeps DEF BuildInv, BuildTypeOK
<1>9. Moves(b) /\ OwnImages'
  BY <1>1, <1>4, <1>5, WorkedMoves
<1>10. \A c \in Builder \ {b} : Spared(c)
  BY <1>1, <1>3, <1>4, <1>5, <1>7, WorkedSpares
<1>11. Loaded(b)'
  BY <1>1, <1>3, <1>4, <1>6, <1>7 DEF Loaded, Clean, Unhindered, Quiet, Idle, d
<1>12. BuilderSound(b)'
  BY <1>4, <1>6, <1>11 DEF BuilderSound, PortHeld, VolumeOwn, Serving, Honest, At
<1>13. \A c, e \in Builder : c # e => Apart(c, e)'
  BY <1>4, <1>5, WorkedKeeps
<1>14. Genuine'
  BY <1>1, <1>3, <1>7 DEF Genuine
<1> QED
  BY <1>8, <1>9, <1>10, <1>12, <1>13, <1>14 DEF Effect

LEMMA StartContainerEffect ==
  ASSUME NEW b \in Builder, BuildInv, StartContainer(b)
  PROVE  Effect(b)
<1>1. /\ build[b].pc = "start" /\ port = "free" /\ port' = b
      /\ volume' = [volume EXCEPT ![b] = NoImages]
      /\ UNCHANGED <<local, tagged, remote, kb, made, builds>>
  BY DEF StartContainer, At
<1>2. PICK r : r = [build[b] EXCEPT !.pc = "pull"] /\ Be(b, r)
  BY DEF StartContainer
<1>3. /\ build[b] \in Build /\ build[b].next \in DOMAIN AllImages[build[b].app] /\ Loaded(b)
  BY AtWork
<1>4. /\ r \in Build /\ r.pc = "pull" /\ r.app = build[b].app /\ r.next = build[b].next
      /\ r.failed = build[b].failed /\ r.rival = build[b].rival /\ r.unseen = build[b].unseen
  BY <1>2, <1>3 DEF Build
<1>5. Worked(b, r)
  BY <1>1, <1>2, <1>3, <1>4 DEF Worked, Quiet, Idle
<1>6. build'[b] = r
  BY <1>4, <1>5, WorkedKeeps
<1>7. /\ volume' \in [Builder -> [Tag -> Held]] /\ \A t \in Tag : volume'[b][t] = None
      /\ \A c \in Builder \ {b} : volume'[c] = volume[c]
  BY <1>1 DEF BuildInv, BuildTypeOK, NoImages, Held
<1>8. BuildTypeOK'
  BY <1>1, <1>4, <1>5, <1>7, WorkedKeeps DEF BuildInv, BuildTypeOK
<1>9. Moves(b) /\ OwnImages'
  BY <1>1, <1>4, <1>5, WorkedMoves
<1>10. \A c \in Builder \ {b} : build[c].pc \notin Serving
  BY <1>1, BuildAssumption DEF BuildInv, BuilderSound, PortHeld, BuildAssumption
<1>11. \A c \in Builder \ {b} : Spared(c)
  BY <1>1, <1>4, <1>5, <1>7, <1>10, WorkedSpares
<1>12. Loaded(b)'
  BY <1>1, <1>3, <1>4, <1>6 DEF Loaded, Clean, Unhindered, Quiet, Idle
<1>13. BuilderSound(b)'
  BY <1>1, <1>4, <1>6, <1>7, <1>12 DEF BuilderSound, PortHeld, VolumeOwn, Honest, At
<1>14. \A c, e \in Builder : c # e => Apart(c, e)'
  BY <1>4, <1>5, WorkedKeeps
<1>15. Genuine'
  BY <1>1 DEF BuildInv, Genuine
<1> QED
  BY <1>8, <1>9, <1>11, <1>13, <1>14, <1>15 DEF Effect

LEMMA PullImageEffect ==
  ASSUME NEW b \in Builder, BuildInv, PullImage(b)
  PROVE  Effect(b)
<1>1. PICK n : n = NextImage(build[b], "pull", "tag")
  OBVIOUS
<1>2. /\ build[b].pc = "pull" /\ UNCHANGED <<tagged, remote, port, volume, kb, made, builds>>
      /\ \/ /\ remote[Current(b)] # None /\ Be(b, n)
            /\ local' = [local EXCEPT ![Current(b)] = remote[Current(b)]]
         \/ Be(b, [n EXCEPT !.unseen = TRUE]) /\ local' = local
  BY <1>1 DEF PullImage, At
<1>3. PICK r : /\ Be(b, r)
               /\ \/ /\ remote[Current(b)] # None /\ r = n
                     /\ local' = [local EXCEPT ![Current(b)] = remote[Current(b)]]
                  \/ r = [n EXCEPT !.unseen = TRUE] /\ local' = local
  BY <1>2
<1>4. /\ build[b] \in Build /\ build[b].next \in DOMAIN AllImages[build[b].app]
      /\ Current(b) \in Image /\ Current(b) \in Images(build[b].app) /\ DeployImage(build[b].app) \in Image
      /\ PortHeld(b) /\ VolumeOwn(b) /\ Loaded(b) /\ Genuine
  BY AtWork
<1>5. /\ n \in Build /\ n.next \in DOMAIN AllImages[build[b].app] /\ n.app = build[b].app
      /\ n.rival = build[b].rival /\ n.failed = build[b].failed /\ n.unseen = build[b].unseen
      /\ n.pc = "pull" \/ (n.pc = "tag" /\ n.next = 1)
  BY <1>1, <1>4, NextImageFacts
<1>6. /\ r \in Build /\ r.next \in DOMAIN AllImages[r.app] /\ r.app = build[b].app
      /\ r.rival = build[b].rival /\ r.failed = build[b].failed
      /\ r.pc = "pull" \/ (r.pc = "tag" /\ r.next = 1)
      /\ \/ r.unseen
         \/ /\ r.unseen = build[b].unseen /\ remote[Current(b)] # None
            /\ local' = [local EXCEPT ![Current(b)] = remote[Current(b)]]
  BY <1>3, <1>5 DEF Build
<1>7. Worked(b, r)
  BY <1>2, <1>3, <1>6 DEF Worked, Quiet, Idle
<1>8. build'[b] = r
  BY <1>6, <1>7, WorkedKeeps
<1>9. /\ local' \in [Image -> Held] /\ \A i \in Image \ {Current(b)} : local'[i] = local[i]
      /\ (~r.unseen => local'[Current(b)] = remote[Current(b)])
      /\ local'[Current(b)] \in {local[Current(b)], remote[Current(b)]}
  BY <1>3, <1>4, <1>6 DEF BuildInv, BuildTypeOK
<1>10. BuildTypeOK'
  BY <1>2, <1>6, <1>7, <1>9, WorkedKeeps DEF BuildInv, BuildTypeOK
<1>11. Moves(b) /\ OwnImages'
  BY <1>2, <1>6, <1>7, WorkedMoves
<1>12. \A c \in Builder \ {b} : Spared(c)
  BY <1>2, <1>4, <1>6, <1>7, <1>9, WorkedSpares
<1>13. Loaded(b)'
  <2>1. SUFFICES ASSUME Clean(b)'  PROVE Loaded(b)'
    BY DEF Loaded
  <2>2. Clean(b) /\ ~r.unseen
    BY <1>6, <1>8, <2>1 DEF Clean, Unhindered
  <2> DEFINE d == DeployImage(build[b].app)  own == <<build[b].app, made[build[b].app]>>
  <2>3. local[d] = own /\ remote[d] = own
    BY <1>2, <1>4, <2>2 DEF Loaded, Quiet, Idle
  <2>4. local'[d] = own /\ remote'[d] = own
    BY <1>2, <1>4, <1>9, <2>2, <2>3
  <2>5. \A k \in DOMAIN AllImages[build[b].app] : ~(k < 1)
    BY <1>4, ImagesOf DEF Build
  <2> HIDE DEF d
  <2>6. r.pc \in {"pull", "tag"}
    BY <1>6
  <2> QED
    BY <1>2, <1>6, <1>8, <2>4, <2>5, <2>6 DEF Loaded, Quiet, Idle, d
<1>14. BuilderSound(b)'
  BY <1>2, <1>4, <1>6, <1>8, <1>13 DEF BuilderSound, PortHeld, VolumeOwn, Serving, Honest, At
<1>15. \A c, e \in Builder : c # e => Apart(c, e)'
  BY <1>6, <1>7, WorkedKeeps
<1>16. Genuine'
  BY <1>2, <1>4, <1>9 DEF Genuine
<1> QED
  BY <1>10, <1>11, <1>12, <1>14, <1>15, <1>16 DEF Effect

\* What the daemon has under the name of an image of the application is that image.
LEMMA LocalIsRight ==
  ASSUME NEW b \in Builder, BuildInv, local[Current(b)] # None, Clean(b), build[b].pc \notin Quiet
  PROVE  Right(build[b].app, Current(b), local[Current(b)], made[build[b].app])
<1>1. Current(b) \in Image /\ Loaded(b) /\ Genuine
  BY AtWork
<1>2. IsImage(Current(b), local[Current(b)])
  BY <1>1 DEF Genuine
<1>3. local[DeployImage(build[b].app)] = <<build[b].app, made[build[b].app]>>
  BY <1>1 DEF Loaded
<1> QED
  BY <1>2, <1>3 DEF Right

LEMMA TagImageEffect ==
  ASSUME NEW b \in Builder, BuildInv, TagImage(b)
  PROVE  Effect(b)
<1>1. /\ build[b].pc = "tag" /\ UNCHANGED <<local, remote, port, volume, kb, made, builds>>
      /\ local[Current(b)] # None
      /\ tagged' = [tagged EXCEPT ![Target[Current(b)]] = local[Current(b)]]
  BY DEF TagImage, At
<1>2. PICK r : r = [build[b] EXCEPT !.pc = "push"] /\ Be(b, r)
  BY DEF TagImage
<1>3. /\ build[b] \in Build /\ build[b].app \in App
      /\ build[b].next \in DOMAIN AllImages[build[b].app]
      /\ Current(b) \in Image /\ Current(b) \in Images(build[b].app) /\ DeployImage(build[b].app) \in Image
      /\ PortHeld(b) /\ VolumeOwn(b) /\ Loaded(b)
  BY AtWork
<1>4. /\ r \in Build /\ r.pc = "push" /\ r.app = build[b].app /\ r.next = build[b].next
      /\ r.failed = build[b].failed /\ r.rival = build[b].rival /\ r.unseen = build[b].unseen
  BY <1>2, <1>3 DEF Build
<1>5. Worked(b, r)
  BY <1>1, <1>2, <1>3, <1>4 DEF Worked, Quiet, Idle
<1>6. build'[b] = r
  BY <1>4, <1>5, WorkedKeeps
<1> DEFINE t == Target[Current(b)]
<1>15. t \in Tag
  BY <1>3, BuildAssumption DEF BuildAssumption
<1>7. /\ tagged' \in [Tag -> Held] /\ \A u \in Tag \ {t} : tagged'[u] = tagged[u]
      /\ tagged'[t] = local[Current(b)]
  BY <1>1, <1>3, <1>15 DEF BuildInv, BuildTypeOK
<1>8. BuildTypeOK'
  BY <1>1, <1>4, <1>5, <1>7, WorkedKeeps DEF BuildInv, BuildTypeOK
<1>9. Moves(b) /\ OwnImages'
  BY <1>1, <1>4, <1>5, WorkedMoves
<1>16. \A c \in Builder \ {b} : build[c].pc \notin Serving
  BY <1>1, <1>3, NotServing DEF PortHeld, Serving
<1>10. \A c \in Builder \ {b} : Spared(c)
  BY <1>1, <1>3, <1>4, <1>5, <1>16, WorkedSpares
<1>11. Loaded(b)'
  <2>1. SUFFICES ASSUME Clean(b)'  PROVE Loaded(b)'
    BY DEF Loaded
  <2>2. Clean(b)
    BY <1>4, <1>6, <2>1 DEF Clean, Unhindered
  <2> DEFINE a == build[b].app  all == AllImages[a]  d == DeployImage(a)
             n == made[a]  own == <<a, n>>  next == build[b].next
  <2>3. local[d] = own /\ remote[d] = own
    BY <1>1, <1>3, <2>2 DEF Loaded, Quiet, Idle
  <2>4. \A k \in DOMAIN all : k < next => HasImage(volume[b], a, k, n) /\ HasImage(tagged, a, k, n)
    BY <1>1, <1>3, <2>2 DEF Loaded
  <2>5. Right(a, Current(b), local[Current(b)], n)
    BY <1>1, <2>2, LocalIsRight DEF Quiet, Idle
  <2>6. HasImage(tagged', a, next, n)
    BY <1>7, <2>5 DEF HasImage, Current
  <2>7. ASSUME NEW k \in DOMAIN all, HasImage(tagged, a, k, n)  PROVE HasImage(tagged', a, k, n)
    <3>1. all[k] \in Images(a) /\ all[k] \in Image /\ Current(b) \in Images(a)
      BY <1>3, ImagesOf
    <3>2. Target[all[k]] \in Tag
      BY <3>1, BuildAssumption DEF BuildAssumption
    <3>3. Target[all[k]] = t => all[k] = Current(b)
      BY <2>2, <3>1 DEF Clean, Distinct
    <3>4. CASE Target[all[k]] = t
      BY <1>7, <2>5, <3>3, <3>4 DEF HasImage
    <3>5. CASE Target[all[k]] # t
      BY <1>7, <2>7, <3>2, <3>5 DEF HasImage
    <3> QED
      BY <3>4, <3>5
  <2>8. \A k \in DOMAIN all : k < next => HasImage(volume[b], a, k, n) /\ HasImage(tagged', a, k, n)
    BY <2>4, <2>7
  <2>9. build'[b].app = a /\ build'[b].next = next /\ made'[a] = n /\ volume'[b] = volume[b]
          /\ local'[d] = own /\ remote'[d] = own
    BY <1>1, <1>4, <1>6, <2>3
  <2>10. build'[b].pc = "push"
    BY <1>4, <1>6
  <2> HIDE DEF own, n, next
  <2> QED
    BY <2>6, <2>8, <2>9, <2>10 DEF Loaded, own
<1>12. BuilderSound(b)'
  BY <1>1, <1>3, <1>4, <1>6, <1>11 DEF BuilderSound, PortHeld, VolumeOwn, Serving, Honest, At
<1>13. \A c, e \in Builder : c # e => Apart(c, e)'
  BY <1>4, <1>5, WorkedKeeps
<1>14. Genuine'
  BY <1>1 DEF BuildInv, Genuine
<1> QED
  BY <1>8, <1>9, <1>10, <1>12, <1>13, <1>14 DEF Effect

LEMMA PushImageEffect ==
  ASSUME NEW b \in Builder, BuildInv, PushImage(b)
  PROVE  Effect(b)
<1>1. PICK n : n = NextImage(build[b], "tag", "copy")
  OBVIOUS
<1> DEFINE to == [c \in Builder |-> [t \in Tag |->
                    IF c = port /\ t \in Pushed(b) THEN tagged[t] ELSE volume[c][t]]]
<1>2. /\ build[b].pc = "push" /\ UNCHANGED <<local, tagged, remote, port, kb, made, builds>>
      /\ \/ Be(b, n) /\ volume' = to
         \/ Be(b, [n EXCEPT !.unseen = TRUE]) /\ volume' = volume
  BY <1>1 DEF PushImage, At
<1>3. PICK r : /\ Be(b, r)
               /\ \/ r = n /\ volume' = to
                  \/ r = [n EXCEPT !.unseen = TRUE] /\ volume' = volume
  BY <1>2
<1> HIDE DEF to
<1>4. /\ build[b] \in Build /\ build[b].app \in App
      /\ build[b].next \in DOMAIN AllImages[build[b].app]
      /\ Current(b) \in Image /\ Current(b) \in Images(build[b].app) /\ DeployImage(build[b].app) \in Image
      /\ PortHeld(b) /\ VolumeOwn(b) /\ Loaded(b)
  BY AtWork
<1>5. /\ n \in Build /\ n.next \in DOMAIN AllImages[build[b].app] /\ n.app = build[b].app
      /\ n.rival = build[b].rival /\ n.failed = build[b].failed /\ n.unseen = build[b].unseen
      /\ \/ n.pc = "tag" /\ n.next = build[b].next + 1
         \/ n.pc = "copy" /\ build[b].next = Len(AllImages[build[b].app]) /\ n.next = 1
  BY <1>1, <1>4, NextImageFacts
<1>6. /\ r \in Build /\ r.next \in DOMAIN AllImages[r.app] /\ r.app = build[b].app
      /\ r.rival = build[b].rival /\ r.failed = build[b].failed
      /\ \/ r.pc = "tag" /\ r.next = build[b].next + 1
         \/ r.pc = "copy" /\ build[b].next = Len(AllImages[build[b].app])
      /\ \/ r.unseen /\ volume' = volume
         \/ r.unseen = build[b].unseen /\ volume' = to
  BY <1>3, <1>5 DEF Build
<1>7. Worked(b, r)
  BY <1>2, <1>3, <1>6 DEF Worked, Quiet, Idle
<1>8. build'[b] = r
  BY <1>6, <1>7, WorkedKeeps
<1>9. port = b
  BY <1>2, <1>4 DEF PortHeld, Serving
<1>10. /\ to \in [Builder -> [Tag -> Held]]
       /\ \A t \in Tag : to[b][t] = IF t \in Pushed(b) THEN tagged[t] ELSE volume[b][t]
  BY <1>9 DEF to, BuildInv, BuildTypeOK
<1>11. BuildTypeOK'
  BY <1>2, <1>6, <1>7, <1>10, WorkedKeeps DEF BuildInv, BuildTypeOK
<1>12. Moves(b) /\ OwnImages'
  BY <1>2, <1>6, <1>7, WorkedMoves
<1>18. \A c \in Builder \ {b} : build[c].pc \notin Serving
  BY <1>9, NotServing
<1>13. \A c \in Builder \ {b} : Spared(c)
  BY <1>2, <1>6, <1>7, <1>18, WorkedSpares
<1>14. VolumeOwn(b)'
  <2>1. \A t \in Tag : volume[b][t] # None =>
          \E j \in Images(build[b].app) : Repository[Target[j]] = Repository[t]
    BY <1>2, <1>4 DEF VolumeOwn, Serving
  <2>2. \A t \in Tag : to[b][t] # None =>
          \E j \in Images(build[b].app) : Repository[Target[j]] = Repository[t]
    BY <1>4, <1>10, <2>1 DEF Pushed
  <2> QED
    BY <1>6, <1>8, <2>1, <2>2 DEF VolumeOwn
<1>15. Loaded(b)'
  <2>1. SUFFICES ASSUME Clean(b)'  PROVE Loaded(b)'
    BY DEF Loaded
  <2>2. Clean(b) /\ volume' = to
    BY <1>6, <1>8, <2>1 DEF Clean, Unhindered
  <2> DEFINE a == build[b].app  all == AllImages[a]  d == DeployImage(a)
             num == made[a]  own == <<a, num>>  next == build[b].next  len == Len(all)
  <2>3. local[d] = own /\ remote[d] = own
    BY <1>2, <1>4, <2>2 DEF Loaded, Quiet, Idle
  <2>4. /\ \A k \in DOMAIN all : k < next => HasImage(volume[b], a, k, num) /\ HasImage(tagged, a, k, num)
        /\ HasImage(tagged, a, next, num)
    BY <1>2, <1>4, <2>2 DEF Loaded
  <2>5. /\ DOMAIN all = 1 .. len /\ len \in Nat \ {0} /\ next \in 1 .. len
        /\ \A k \in DOMAIN all : all[k] \in Image
        /\ num \in 0 .. MaxBuild
    BY <1>4, ImagesOf DEF BuildInv, BuildTypeOK
  <2>6. \A k \in DOMAIN all : Target[all[k]] \in Tag
    BY <2>5, BuildAssumption DEF BuildAssumption
  <2>7. tagged[Target[all[next]]] # None
    BY <1>4, <2>4, <2>5, RightIsThere DEF HasImage
  <2>8. Target[all[next]] \in Pushed(b)
    BY <2>5, <2>6, <2>7 DEF Pushed, Current
  <2>9. ASSUME NEW k \in DOMAIN all, k < next \/ k = next
        PROVE  HasImage(to[b], a, k, num) /\ HasImage(tagged, a, k, num)
    <3>1. CASE k = next
      BY <1>10, <2>4, <2>6, <2>8, <3>1 DEF HasImage
    <3>2. CASE k < next
      <4>1. HasImage(volume[b], a, k, num) /\ HasImage(tagged, a, k, num)
        BY <2>4, <3>2
      <4>2. to[b][Target[all[k]]] \in {volume[b][Target[all[k]]], tagged[Target[all[k]]]}
        BY <1>10, <2>6
      <4> QED
        BY <4>1, <4>2 DEF HasImage
    <3> QED
      BY <2>9, <3>1, <3>2
  <2>10. build'[b].app = a /\ made'[a] = num /\ volume'[b] = to[b] /\ tagged' = tagged
          /\ local'[d] = own /\ remote'[d] = own /\ build'[b] = r
    BY <1>2, <1>6, <1>8, <2>2, <2>3
  <2> HIDE DEF own, num, next, len
  <2>11. CASE r.pc = "tag" /\ r.next = next + 1
    <3>1. \A k \in DOMAIN all : k < r.next => k < next \/ k = next
      BY <2>5, <2>11
    <3>2. \A k \in DOMAIN all : k < r.next => HasImage(to[b], a, k, num) /\ HasImage(tagged, a, k, num)
      BY <2>9, <3>1
    <3> QED
      BY <2>10, <2>11, <3>2 DEF Loaded, own
  <2>12. CASE r.pc = "copy" /\ next = len
    <3>1. \A k \in DOMAIN all : k < next \/ k = next
      BY <2>5, <2>12
    <3>2. \A k \in DOMAIN all : HasImage(to[b], a, k, num)
      BY <2>9, <3>1
    <3> QED
      BY <2>10, <2>12, <3>2 DEF Loaded, Quiet, Idle, own
  <2> QED
    BY <1>6, <2>11, <2>12 DEF next, len
<1>16. BuilderSound(b)'
  BY <1>2, <1>6, <1>8, <1>9, <1>14, <1>15 DEF BuilderSound, PortHeld, Honest, At
<1>17. \A c, e \in Builder : c # e => Apart(c, e)'
  BY <1>6, <1>7, WorkedKeeps
<1>19. Genuine'
  BY <1>2 DEF BuildInv, Genuine
<1> QED
  BY <1>11, <1>12, <1>13, <1>16, <1>17, <1>19 DEF Effect

\* A step of build b that writes the bundle of its application.
LEMMA WritesBundle ==
  ASSUME NEW b \in Builder, BuildInv, NEW r \in Build, Worked(b, r),
         UNCHANGED <<local, tagged, remote, port, volume, made>>,
         NEW f \in KbFile, kb' = [kb EXCEPT ![build[b].app] = f],
         \A t \in Tag : f.images[t] \in {None, volume[b][t]},
         build[b].pc \in Serving, r.pc # "ok", Loaded(b)'
  PROVE  Effect(b)
<1>1. /\ build'[b] = r /\ \A c \in Builder \ {b} : build'[c] = build[c]
  BY WorkedKeeps
<1>2. build[b].app \in App /\ PortHeld(b) /\ VolumeOwn(b) /\ r.app = build[b].app
  BY AtWork DEF Worked
<1>3. /\ kb' \in [App -> KbFile] /\ kb'[build[b].app] = f
      /\ \A a \in App \ {build[b].app} : kb'[a] = kb[a]
  BY <1>2 DEF BuildInv, BuildTypeOK
<1>4. BuildTypeOK'
  BY <1>3, WorkedKeeps DEF BuildInv, BuildTypeOK
<1>5. OwnImages'
  <2>1. \A t \in Tag : f.images[t] # None =>
          \E j \in Images(build[b].app) : Repository[Target[j]] = Repository[t]
    BY <1>2 DEF VolumeOwn
  <2> QED
    BY <1>3, <2>1 DEF BuildInv, OwnImages
<1>6. \A a \in App \ {build[b].app} : Holds(a) => Holds(a)'
  BY <1>3 DEF Holds
<1>7. Moves(b)
  BY <1>1, <1>6 DEF Moves, Worked, At
<1>8. \A c \in Builder \ {b} : Spared(c)
  BY <1>3, WorkedSpares
<1>9. BuilderSound(b)'
  BY <1>1, <1>2 DEF BuilderSound, PortHeld, VolumeOwn, Honest, At
<1>10. \A c, e \in Builder : c # e => Apart(c, e)'
  BY WorkedKeeps
<1>11. Genuine'
  BY DEF BuildInv, Genuine
<1> QED
  BY <1>4, <1>5, <1>7, <1>8, <1>9, <1>10, <1>11 DEF Effect

LEMMA MakeFileEffect ==
  ASSUME NEW b \in Builder, BuildInv, MakeFile(b)
  PROVE  Effect(b)
<1>1. /\ build[b].pc = "make" /\ UNCHANGED <<local, tagged, remote, port, volume, made, builds>>
      /\ kb' = [kb EXCEPT ![build[b].app] = [file |-> "short", images |-> NoImages]]
  BY DEF MakeFile, At
<1>2. PICK r : r = [build[b] EXCEPT !.pc = "fill"] /\ Be(b, r)
  BY DEF MakeFile
<1>3. /\ build[b] \in Build /\ build[b].next \in DOMAIN AllImages[build[b].app] /\ Loaded(b)
  BY AtWork
<1>4. /\ r \in Build /\ r.pc = "fill" /\ r.app = build[b].app /\ r.next = build[b].next
      /\ r.failed = build[b].failed /\ r.rival = build[b].rival /\ r.unseen = build[b].unseen
  BY <1>2, <1>3 DEF Build
<1>5. Worked(b, r)
  BY <1>1, <1>2, <1>3, <1>4 DEF Worked, Quiet, Idle
<1>6. build'[b] = r
  BY <1>4, <1>5, WorkedKeeps
<1>7. PICK f : f = [file |-> "short", images |-> NoImages]
  OBVIOUS
<1>8. f \in KbFile /\ \A t \in Tag : f.images[t] = None
  BY <1>7 DEF KbFile, NoImages, Held
<1>9. Loaded(b)'
  BY <1>1, <1>3, <1>4, <1>6 DEF Loaded, Clean, Unhindered, Quiet, Idle
<1> QED
  BY <1>1, <1>4, <1>5, <1>7, <1>8, <1>9, WritesBundle DEF Serving

LEMMA FillFileEffect ==
  ASSUME NEW b \in Builder, BuildInv, FillFile(b)
  PROVE  Effect(b)
<1> DEFINE filled(ts) == [t \in Tag |-> IF t \in ts THEN volume[b][t] ELSE None]
           wrote(file, ts) == kb' = [kb EXCEPT ![build[b].app] = [file |-> file, images |-> filled(ts)]]
           ended(file, ts, r) ==
             \/ file = "closed" /\ ts = Tag /\ r = [build[b] EXCEPT !.pc = "stop"]
             \/ r = [build[b] EXCEPT !.pc = "stop", !.unseen = TRUE]
             \/ r = [build[b] EXCEPT !.pc = "stop", !.failed = TRUE]
<1>1. build[b].pc = "fill" /\ UNCHANGED <<local, tagged, remote, port, volume, made, builds>>
  BY DEF FillFile, At
<1>2. PICK file \in {"short", "closed"}, ts \in SUBSET Tag :
        \E r : Be(b, r) /\ wrote(file, ts) /\ ended(file, ts, r)
  <2>1. \/ wrote("closed", Tag) /\ Be(b, [build[b] EXCEPT !.pc = "stop"])
        \/ wrote("short", {}) /\ Be(b, [build[b] EXCEPT !.pc = "stop", !.unseen = TRUE])
        \/ \E ts \in SUBSET Tag :
             wrote("closed", ts) /\ Be(b, [build[b] EXCEPT !.pc = "stop", !.failed = TRUE])
    BY DEF FillFile
  <2> HIDE DEF wrote
  <2>2. CASE wrote("closed", Tag) /\ Be(b, [build[b] EXCEPT !.pc = "stop"])
    BY <2>2
  <2>3. CASE wrote("short", {}) /\ Be(b, [build[b] EXCEPT !.pc = "stop", !.unseen = TRUE])
    BY <2>3
  <2>4. CASE \E ts \in SUBSET Tag :
               wrote("closed", ts) /\ Be(b, [build[b] EXCEPT !.pc = "stop", !.failed = TRUE])
    BY <2>4
  <2> QED
    BY <2>1, <2>2, <2>3, <2>4
<1>3. PICK r : Be(b, r) /\ wrote(file, ts) /\ ended(file, ts, r)
  BY <1>2
<1>4. /\ build[b] \in Build /\ build[b].app \in App
      /\ build[b].next \in DOMAIN AllImages[build[b].app] /\ Loaded(b)
  BY AtWork
<1>5. /\ r \in Build /\ r.pc = "stop" /\ r.app = build[b].app /\ r.next = build[b].next
      /\ r.rival = build[b].rival
      /\ \/ r.unseen \/ r.failed
         \/ /\ r.failed = build[b].failed /\ r.unseen = build[b].unseen
            /\ file = "closed" /\ ts = Tag
  BY <1>3, <1>4 DEF Build
<1>6. Worked(b, r)
  BY <1>1, <1>3, <1>4, <1>5 DEF Worked, Quiet, Idle
<1>7. build'[b] = r
  BY <1>5, <1>6, WorkedKeeps
<1>8. PICK f : f = [file |-> file, images |-> filled(ts)]
  OBVIOUS
<1>9. /\ filled(ts) \in [Tag -> Held]
      /\ \A t \in Tag : filled(ts)[t] = IF t \in ts THEN volume[b][t] ELSE None
  BY DEF BuildInv, BuildTypeOK, Held
<1>10. kb' = [kb EXCEPT ![build[b].app] = f]
  BY <1>3, <1>8
<1> HIDE DEF filled, wrote, ended
<1>11. f \in KbFile
  BY <1>2, <1>8, <1>9 DEF KbFile
<1>12. f.file = file /\ \A t \in Tag : f.images[t] = IF t \in ts THEN volume[b][t] ELSE None
  BY <1>8, <1>9
<1>13. kb'[build[b].app] = f
  BY <1>4, <1>10 DEF BuildInv, BuildTypeOK
<1>14. Loaded(b)'
  <2>1. SUFFICES ASSUME Clean(b)'  PROVE Loaded(b)'
    BY DEF Loaded
  <2>2. Clean(b) /\ file = "closed" /\ ts = Tag
    BY <1>5, <1>7, <2>1 DEF Clean, Unhindered
  <2> DEFINE a == build[b].app  all == AllImages[a]  d == DeployImage(a)  n == made[a]
             own == <<a, n>>
  <2>3. local[d] = own /\ remote[d] = own /\ \A k \in DOMAIN all : HasImage(volume[b], a, k, n)
    BY <1>1, <1>4, <2>2 DEF Loaded, Quiet, Idle
  <2>4. ASSUME NEW i \in Images(a)  PROVE Right(a, i, kb'[a].images[Target[i]], n)
    <3>1. PICK k \in DOMAIN all : i = all[k]
      BY DEF Images
    <3>2. Target[i] \in Tag
      BY <1>4, ImagesOf, BuildAssumption DEF BuildAssumption
    <3>3. kb'[a].images[Target[i]] = volume[b][Target[i]]
      BY <1>12, <1>13, <2>2, <3>2
    <3> QED
      BY <2>3, <3>1, <3>3 DEF HasImage
  <2>5. kb'[a].file = "closed" /\ made'[a] = n
    BY <1>1, <1>12, <1>13, <2>2
  <2>6. build'[b].app = a /\ build'[b].pc = "stop" /\ local'[d] = own /\ remote'[d] = own
    BY <1>1, <1>5, <1>7, <2>3
  <2> HIDE DEF n
  <2>7. Holds(build[b].app)'
    BY <2>4, <2>5, <2>6 DEF Holds
  <2> QED
    BY <2>5, <2>6, <2>7 DEF Loaded, Quiet, Idle
<1> QED
  BY <1>1, <1>5, <1>6, <1>10, <1>11, <1>12, <1>14, WritesBundle DEF Serving

LEMMA BuildDeployImageEffect ==
  ASSUME NEW b \in Builder, BuildInv, BuildDeployImage(b)
  PROVE  Effect(b)
<1> DEFINE app == build[b].app  d == DeployImage(app)  number == build[b].number
           Rivals == {c \in Builder \ {b} : Meet(build[c].app, app)}
<1>1. /\ build[b].pc = "image" /\ local' = [local EXCEPT ![d] = <<app, number>>]
      /\ made' = [made EXCEPT ![app] = number]
      /\ UNCHANGED <<tagged, remote, port, volume, kb, builds>>
  BY DEF BuildDeployImage, At
<1>2. build' = [c \in Builder |->
                  IF c = b THEN [build[b] EXCEPT !.pc = "upload",
                                   !.rival = \E k \in Rivals : build[k].pc \notin Idle]
                  ELSE IF c \in Rivals THEN [build[c] EXCEPT !.rival = TRUE] ELSE build[c]]
  BY DEF BuildDeployImage
<1>3. PICK met \in BOOLEAN : met = \E k \in Rivals : build[k].pc \notin Idle
  OBVIOUS
<1>4. PICK r : r = [build[b] EXCEPT !.pc = "upload", !.rival = met]
  OBVIOUS
<1>5. /\ build[b] \in Build /\ app \in App /\ build[b].next \in DOMAIN AllImages[app]
      /\ d \in Image /\ PortHeld(b) /\ VolumeOwn(b) /\ Genuine /\ number \in 0 .. MaxBuild
  BY AtWork DEF Build
<1>6. /\ build'[b] = r /\ \A c \in Rivals : build'[c] = [build[c] EXCEPT !.rival = TRUE]
      /\ \A c \in (Builder \ {b}) \ Rivals : build'[c] = build[c]
  BY <1>2, <1>3, <1>4
<1>7. /\ r \in Build /\ r.pc = "upload" /\ r.app = app /\ r.next = build[b].next
      /\ r.rival = met
  BY <1>4, <1>5 DEF Build
<1>8. \A c \in Builder \ {b} :
        /\ build'[c] \in Build /\ build'[c].pc = build[c].pc /\ build'[c].app = build[c].app
        /\ build'[c].next = build[c].next /\ (build[c].rival => build'[c].rival)
        /\ (c \in Rivals => build'[c].rival)
        /\ build'[c] \in {build[c], [build[c] EXCEPT !.rival = TRUE]}
  <2> SUFFICES ASSUME NEW c \in Builder \ {b}
               PROVE  /\ build'[c] \in Build /\ build'[c].pc = build[c].pc
                      /\ build'[c].app = build[c].app /\ build'[c].next = build[c].next
                      /\ (build[c].rival => build'[c].rival) /\ (c \in Rivals => build'[c].rival)
                      /\ build'[c] \in {build[c], [build[c] EXCEPT !.rival = TRUE]}
    OBVIOUS
  <2>1. build[c] \in Build
    BY DEF BuildInv, BuildTypeOK
  <2>2. CASE c \in Rivals
    <3>1. build'[c] = [build[c] EXCEPT !.rival = TRUE]
      BY <1>6, <2>2
    <3> QED
      BY <2>1, <3>1 DEF Build
  <2>3. CASE c \notin Rivals
    <3>1. build'[c] = build[c]
      BY <1>6, <2>3
    <3> QED
      BY <2>1, <2>3, <3>1
  <2> QED
    BY <2>2, <2>3
<1>9. build' \in [Builder -> Build]
  <2>1. build' = [c \in Builder |-> build'[c]]
    BY <1>2
  <2> QED
    BY <1>6, <1>7, <1>8, <2>1
<1>10. \A c \in Builder : build'[c].next \in DOMAIN AllImages[build'[c].app]
  BY <1>5, <1>6, <1>7, <1>8 DEF BuildInv, BuildTypeOK
<1>11. made' \in [App -> 0 .. MaxBuild] /\ made'[app] = number
       /\ \A a \in App \ {app} : made'[a] = made[a]
  BY <1>1, <1>5 DEF BuildInv, BuildTypeOK
<1>12. /\ local' \in [Image -> Held] /\ local'[d] = <<app, number>>
       /\ \A i \in Image \ {d} : local'[i] = local[i]
  <2>1. <<app, number>> \in Held
    BY <1>5 DEF Held, Content
  <2> QED
    BY <1>1, <1>5, <2>1 DEF BuildInv, BuildTypeOK
<1> HIDE DEF d, app, number
<1>13. BuildTypeOK'
  BY <1>1, <1>9, <1>10, <1>11, <1>12 DEF BuildInv, BuildTypeOK
<1>14. OwnImages'
  BY <1>1 DEF BuildInv, OwnImages
<1>15. Genuine'
  <2>1. <<app, number>>[1] = app
    OBVIOUS
  <2>2. d = DeployImage(app)
    BY DEF d
  <2>3. IsImage(d, local'[d]) \/ local'[d] = None
    BY <1>5, <1>12, <2>1, <2>2 DEF IsImage
  <2> QED
    BY <1>1, <1>5, <1>12, <2>3 DEF Genuine
<1>16. \A a \in App \ {app} : Holds(a) => Holds(a)'
  BY <1>1, <1>11 DEF Holds
<1>17. BuilderSound(b)'
  <2>1. PortHeld(b)' /\ VolumeOwn(b)'
    BY <1>6, <1>7 DEF PortHeld, VolumeOwn, Serving
  <2>2. Loaded(b)'
    BY <1>6, <1>7, <1>11, <1>12 DEF Loaded, Quiet, Idle, d
  <2>3. Honest(b)'
    BY <1>6, <1>7 DEF Honest, At
  <2> QED
    BY <2>1, <2>2, <2>3 DEF BuilderSound
<1>18. \A c \in Builder \ {b} : Spared(c)
  <2> SUFFICES ASSUME NEW c \in Builder \ {b}  PROVE Spared(c)
    OBVIOUS
  <2> DEFINE a == build[c].app  e == DeployImage(a)
  <2>1. ASSUME ~build'[c].rival
        PROVE  /\ local'[e] = local[e] /\ remote'[e] = remote[e] /\ made'[a] = made[a]
               /\ (Holds(a) => Holds(a)')
    <3>1. ~Meet(a, app) /\ a \in App
      BY <1>8, <2>1 DEF BuildInv, BuildTypeOK, Build
    <3>2. a # app
      BY <3>1, MeetsItself
    <3>3. e # d /\ e \in Image
      BY <1>5, <3>1, ImagesOf DEF d, Meet
    <3>4. Holds(a) => Holds(a)'
      BY <1>1, <1>8, <1>11, <3>1, <3>2 DEF Holds
    <3> HIDE DEF a, e
    <3> QED
      BY <1>1, <1>11, <1>12, <3>1, <3>2, <3>3, <3>4
  <2> QED
    BY <1>1, <1>8, <2>1 DEF Spared
<1>19. \A c, e \in Builder : c # e => Apart(c, e)'
  <2> SUFFICES ASSUME NEW c \in Builder, NEW e \in Builder, c # e  PROVE Apart(c, e)'
    OBVIOUS
  <2>1. CASE c = b
    <3>1. SUFFICES ASSUME Meet(app, build'[e].app), ~met  PROVE build'[e].pc \in Quiet
      BY <1>6, <1>7, <2>1 DEF Apart
    <3>2. e \in Rivals
      BY <1>8, <2>1, <3>1, MeetIsSymmetric
    <3>3. build[e].pc \in Idle
      BY <1>3, <3>1, <3>2
    <3> QED
      BY <1>8, <2>1, <3>3 DEF Quiet
  <2>2. CASE e = b
    <3>1. SUFFICES ASSUME Meet(build'[c].app, app), ~build'[c].rival  PROVE FALSE
      BY <1>6, <1>7, <2>2 DEF Apart
    <3> QED
      BY <1>8, <2>2, <3>1
  <2>3. CASE c # b /\ e # b
    BY <1>8, <2>3 DEF BuildInv, Apart
  <2> QED
    BY <2>1, <2>2, <2>3
<1>20. Moves(b)
  BY <1>1, <1>6, <1>7, <1>8, <1>11, <1>16 DEF Moves, At, Quiet, Idle, app
<1> QED
  BY <1>13, <1>14, <1>15, <1>17, <1>18, <1>19, <1>20 DEF Effect

-----------------------------------------------------------------------------
(* The builds together *)

LEMMA BuildInvInit ==
  ASSUME NEW built \in SUBSET (App \ Handmade), BuildInit(built)
  PROVE  /\ BuildInv /\ \A a \in built : Distinct(a) => Holds(a)
         /\ \A b \in Builder : build[b].pc \in Quiet
<1>1. (CHOOSE a \in App : TRUE) \in App
  BY BuildAssumption DEF BuildAssumption
<1>2. PICK some \in App : some = CHOOSE a \in App : TRUE
  BY <1>1
<1>3. 1 \in DOMAIN AllImages[some]
  BY ImagesOf
<1>4. \A b \in Builder : build[b] = [pc |-> "error", app |-> some, number |-> 0, next |-> 1,
                                     failed |-> FALSE, unseen |-> FALSE, rival |-> FALSE]
  BY <1>2 DEF BuildInit
<1>5. build \in [Builder -> Build] /\ \A b \in Builder : build[b].next \in DOMAIN AllImages[build[b].app]
  <2>1. build = [b \in Builder |-> [pc |-> "error", app |-> some, number |-> 0, next |-> 1,
                                    failed |-> FALSE, unseen |-> FALSE, rival |-> FALSE]]
    BY <1>2 DEF BuildInit
  <2>2. 0 \in 0 .. MaxBuild
    BY BuildAssumption DEF BuildAssumption
  <2> QED
    BY <1>3, <2>1, <2>2 DEF Build
<1> DEFINE Called(a, t) == {i \in Images(a) : Target[i] = t}
           Filled(a, t) == IF Called(a, t) = {} THEN None
                           ELSE IF DeployImage(a) \in Called(a, t) THEN <<a, 0>>
                           ELSE <<CHOOSE i \in Called(a, t) : TRUE, 0>>
<1>6. kb = [a \in App |->
             [file |-> IF a \in Handmade \cup built THEN "closed" ELSE "none",
              images |-> [t \in Tag |-> IF a \in built THEN Filled(a, t) ELSE None]]]
  BY DEF BuildInit
<1>7. \A a \in App, t \in Tag :
        /\ Filled(a, t) \in Held
        /\ Filled(a, t) # None => \E j \in Images(a) : Target[j] = t
  <2> SUFFICES ASSUME NEW a \in App, NEW t \in Tag
               PROVE  /\ Filled(a, t) \in Held
                      /\ Filled(a, t) # None => \E j \in Images(a) : Target[j] = t
    OBVIOUS
  <2>1. CASE Called(a, t) = {}
    BY <2>1 DEF Held
  <2>2. CASE Called(a, t) # {}
    <3>1. PICK j \in Called(a, t) : j = CHOOSE i \in Called(a, t) : TRUE
      BY <2>2
    <3>2. j \in Image /\ 0 \in 0 .. MaxBuild
      BY ImagesOf, BuildAssumption DEF BuildAssumption
    <3>3. <<a, 0>> \in Held /\ <<j, 0>> \in Held
      BY <3>2 DEF Held, Content
    <3> QED
      BY <2>2, <3>1, <3>3
  <2> QED
    BY <2>1, <2>2
<1>8. \A a \in App : Distinct(a) => \A i \in Images(a) : Right(a, i, Filled(a, Target[i]), 0)
  <2> SUFFICES ASSUME NEW a \in App, Distinct(a), NEW i \in Images(a)
               PROVE  Right(a, i, Filled(a, Target[i]), 0)
    OBVIOUS
  <2>1. Called(a, Target[i]) = {i}
    BY DEF Distinct
  <2>2. i \in Image /\ <<i, 0>> # None /\ DeployImage(a) \in Images(a)
    <3>1. i \in Image /\ 0 \in 0 .. MaxBuild /\ None \notin Content /\ DeployImage(a) \in Images(a)
      BY ImagesOf, BuildAssumption DEF BuildAssumption
    <3>2. <<i, 0>> \in Content
      BY <3>1 DEF Content
    <3> QED
      BY <3>1, <3>2
  <2>3. Filled(a, Target[i]) = IF i = DeployImage(a) THEN <<a, 0>> ELSE <<i, 0>>
    BY <2>1
  <2> HIDE DEF Filled
  <2> QED
    BY <2>2, <2>3 DEF Right, IsImage
<1> HIDE DEF Filled
<1>9. \A a \in App : kb[a] \in KbFile
  BY <1>6, <1>7 DEF KbFile, Held
<1>10. kb \in [App -> KbFile]
  BY <1>6, <1>9
<1>11. BuildTypeOK
  <2>1. local \in [Image -> Held] /\ tagged \in [Tag -> Held]
    BY DEF BuildInit, NoImages, Held
  <2>2. remote \in [Image -> Held]
    <3>1. \A i \in Image : <<i, 0>> \in Held /\ None \in Held
      BY BuildAssumption DEF Held, Content, BuildAssumption
    <3> QED
      BY <3>1 DEF BuildInit
  <2>3. volume \in [Builder -> [Tag -> Held]]
    BY DEF BuildInit, NoImages, Held
  <2>4. /\ port \in Builder \cup {"free", "leaked"} /\ builds \in 0 .. MaxBuild
        /\ made \in [App -> 0 .. MaxBuild]
    BY BuildAssumption DEF BuildInit, BuildAssumption
  <2> QED
    BY <1>5, <1>10, <2>1, <2>2, <2>3, <2>4 DEF BuildTypeOK
<1>12. OwnImages
  <2> SUFFICES ASSUME NEW a \in App, NEW t \in Tag, kb[a].images[t] # None
               PROVE  \E j \in Images(a) : Repository[Target[j]] = Repository[t]
    BY DEF OwnImages
  <2>1. kb[a].images[t] = Filled(a, t)
    BY <1>6
  <2> QED
    BY <1>7, <2>1
<1>13. \A a \in built : Distinct(a) => Holds(a)
  <2> SUFFICES ASSUME NEW a \in built, Distinct(a)  PROVE Holds(a)
    OBVIOUS
  <2>1. a \in App /\ Images(a) \subseteq Image /\ Target \in [Image -> Tag]
    BY ImagesOf, BuildAssumption DEF BuildAssumption
  <2>2. kb[a].file = "closed" /\ \A i \in Images(a) : kb[a].images[Target[i]] = Filled(a, Target[i])
    BY <1>6, <2>1
  <2>3. made[a] = 0
    BY <2>1 DEF BuildInit
  <2> QED
    BY <1>8, <2>1, <2>2, <2>3 DEF Holds
<1>14. Genuine
  <2> SUFFICES ASSUME NEW i \in Image
               PROVE  local[i] = None /\ (remote[i] # None => IsImage(i, remote[i]))
    BY DEF Genuine
  <2>1. local[i] = None /\ remote[i] \in {None, <<i, 0>>}
    BY DEF BuildInit
  <2> QED
    BY <2>1 DEF IsImage
<1>15. \A b \in Builder : BuilderSound(b)
  BY <1>4 DEF BuilderSound, PortHeld, VolumeOwn, Loaded, Serving, Quiet, Idle, Honest, At
<1>16. \A b, c \in Builder : b # c => Apart(b, c)
  BY <1>4 DEF Apart
<1> QED
  BY <1>4, <1>11, <1>12, <1>13, <1>14, <1>15, <1>16 DEF BuildInv, Quiet, Idle

\* Every step of the builds keeps their invariant, and is of one build or frees the port.
LEMMA BuildInvNext ==
  ASSUME BuildInv, BuildNext(actors)
  PROVE  BuildInv' /\ ((\E b \in Builder : Moves(b)) \/ UNCHANGED <<build, kb, made>>)
<1>1. CASE FreePort
  BY <1>1, FreePortKeeps
<1>2. ASSUME NEW b \in Builder, Effect(b)
      PROVE  BuildInv' /\ Moves(b)
  <2>1. \A c \in Builder \ {b} : BuilderSound(c)'
    <3> SUFFICES ASSUME NEW c \in Builder \ {b}  PROVE BuilderSound(c)'
      OBVIOUS
    <3>1. BuildTypeOK /\ BuilderSound(c)
      BY DEF BuildInv
    <3>2. Spared(c)
      BY <1>2 DEF Effect
    <3> QED
      BY <3>1, <3>2, SparedIsSound
  <2> QED
    BY <1>2, <2>1 DEF BuildInv, Effect
<1>3. ASSUME NEW b \in Builder,
             \/ StartBuild(b, App \cap actors) \/ BuildDeployImage(b) \/ UploadDeployImage(b)
             \/ CreateContainer(b)
             \/ StartContainer(b) \/ PullImage(b) \/ TagImage(b) \/ PushImage(b) \/ CopyImages(b)
             \/ MakeFile(b) \/ FillFile(b) \/ StopRegistry(b) \/ StopFails(b) \/ BuildFails(b)
             \/ KillBuild(b)
      PROVE  Effect(b)
  BY <1>3, StartBuildEffect, BuildDeployImageEffect, UploadDeployImageEffect,
     CreateContainerEffect, StartContainerEffect, PullImageEffect, TagImageEffect,
     PushImageEffect, CopyImagesEffect, MakeFileEffect, FillFileEffect, StopEffect,
     BuildFailsEffect, KillBuildEffect
<1> QED
  BY <1>1, <1>2, <1>3 DEF BuildNext

\* Of a build's invariant, what its users need.
LEMMA BuildInvIsSound ==
  ASSUME BuildInv
  PROVE  BuildSound
  BY DEF BuildInv, BuilderSound, Loaded, Clean, Unhindered, Honest, BuildSound, At

-----------------------------------------------------------------------------
(* Where a command is *)

LEMMA RegistryConstantsHold == Registry!RegistryConstants /\ "now" \notin Command
  BY SetupAssumption DEF SetupAssumption

\* What a file can be, and what it can be called.
LEMMA Kinds ==
  /\ None \notin Content /\ Part \notin Content /\ None # Part /\ Tag \cap Content = {}
  /\ Registry!Name = Tag \cup Content
  /\ \A c \in Command : c \notin Content /\ c # None /\ c # Part
  BY RegistryConstantsHold DEF Registry!RegistryConstants, Registry!Name

LEMMA JobFacts ==
  ASSUME NEW r \in Registry!Proc
  PROVE  /\ r.job \in Jobs /\ r.job.op \in {"deploy", "delete", "import"}
         /\ r.job.dir \in BOOLEAN /\ r.job.bundles \in Seq(App)
         /\ Len(r.job.bundles) \in Nat /\ DOMAIN r.job.bundles = 1 .. Len(r.job.bundles)
<1>1. r.job \in Jobs
  BY DEF Registry!Proc
<1>2. r.job \in [op: {"deploy", "delete", "import"}, bundles: Seq(App), dir: BOOLEAN, hosts: SUBSET Node]
  BY <1>1, RegistryConstantsHold DEF Registry!RegistryConstants
<1>3. r.job.bundles \in Seq(App)
  BY <1>2
<1> QED
  BY <1>1, <1>2, <1>3

\* The first pod of some, the next image of an archive, and the node that a command
\* brings it to.
LEMMA FirstIn ==
  ASSUME NEW s \in SUBSET Pod, s # {}
  PROVE  Registry!First(s) \in s /\ Registry!First(s) \in Pod
  BY DEF Registry!First

LEMMA EntryIn ==
  ASSUME NEW r \in Registry!Proc, r.todo # {}
  PROVE  /\ Registry!Entry(r) \in r.todo /\ Registry!Entry(r) \in Registry!Name \X Content
         /\ Registry!Entry(r)[1] \in Registry!Name /\ Registry!Entry(r)[2] \in Content
<1>1. \E e \in r.todo : e[1] \in Content \/ \A f \in r.todo : f[1] \notin Content
  OBVIOUS
<1>2. Registry!Entry(r) \in r.todo
  BY <1>1 DEF Registry!Entry
<1>3. r.todo \subseteq Registry!Name \X Content
  BY DEF Registry!Proc
<1> HIDE DEF Registry!Entry
<1> QED
  BY <1>2, <1>3

LEMMA TargetIn ==
  ASSUME NEW r \in Registry!Proc, r.left # {}
  PROVE  /\ Registry!Destination(r) \in Node
         /\ Registry!Destination(r) = IF r.job.dir THEN Local ELSE NodeOf[Registry!First(r.left)]
<1>1. Registry!First(r.left) \in Pod
  BY FirstIn DEF Registry!Proc
<1> QED
  BY <1>1, RegistryConstantsHold DEF Registry!Destination, Registry!RegistryConstants

\* Command r, that has these pods left, becomes e.
PodsLeft(r, left, e) ==
  /\ e.job = r.job /\ e.targets = r.targets /\ e.todo = r.todo
  /\ \/ /\ left # {} /\ (r.job.op = "import" => r.job.bundles # <<>>)
        /\ e.left = left /\ e.next = 1
        /\ e.pc = IF r.job.op = "import" THEN "bundle" ELSE "wipe"
     \/ /\ left = {} \/ (r.job.op = "import" /\ r.job.bundles = <<>>)
        /\ e.left = {} /\ e.pc = IF r.job.op = "import" THEN "ok" ELSE "undeploy"

LEMMA AfterPodsFacts ==
  ASSUME NEW r \in Registry!Proc, NEW left \in SUBSET Pod
  PROVE  Registry!AfterPods(r, left) \in Registry!Proc /\ PodsLeft(r, left, Registry!AfterPods(r, left))
<1> DEFINE e == Registry!AfterPods(r, left)
<1>1. PICK pc \in Registry!PC : pc = IF r.job.op = "import" THEN "bundle" ELSE "wipe"
  BY DEF Registry!PC
<1>2. PICK end \in Registry!PC : end = IF r.job.op = "import" THEN "ok" ELSE "undeploy"
  BY DEF Registry!PC
<1>3. CASE left # {} /\ (r.job.op = "import" => r.job.bundles # <<>>)
  <2>1. e = [r EXCEPT !.left = left, !.next = 1, !.pc = pc]
    BY <1>1, <1>3 DEF Registry!AfterPods
  <2> HIDE DEF e
  <2>2. /\ e.job = r.job /\ e.targets = r.targets /\ e.todo = r.todo /\ e.left = left /\ e.next = 1
        /\ e.pc = pc
    BY <2>1 DEF Registry!Proc
  <2>3. e \in Registry!Proc
    BY <2>1 DEF Registry!Proc
  <2> QED
    BY <1>1, <1>3, <2>2, <2>3 DEF PodsLeft, e
<1>4. CASE ~(left # {} /\ (r.job.op = "import" => r.job.bundles # <<>>))
  <2>1. e = [r EXCEPT !.left = {}, !.pc = end]
    BY <1>2, <1>4 DEF Registry!AfterPods
  <2> HIDE DEF e
  <2>2. /\ e.job = r.job /\ e.targets = r.targets /\ e.todo = r.todo /\ e.left = {} /\ e.pc = end
    BY <2>1 DEF Registry!Proc
  <2>3. e \in Registry!Proc
    BY <2>1 DEF Registry!Proc
  <2> QED
    BY <1>2, <1>4, <2>2, <2>3 DEF PodsLeft, e
<1> QED
  BY <1>3, <1>4

\* Import r is through with a bundle, and becomes e.
BundleDone(r, e) ==
  /\ e.job = r.job /\ e.targets = r.targets /\ e.todo = r.todo
  /\ \/ /\ r.next < Len(r.job.bundles)
        /\ e.pc = "bundle" /\ e.left = r.left /\ e.next = r.next + 1
     \/ /\ r.next = Len(r.job.bundles) /\ r.left \ {Registry!First(r.left)} # {}
        /\ e.pc = "bundle" /\ e.left = r.left \ {Registry!First(r.left)} /\ e.next = 1
     \/ /\ r.next = Len(r.job.bundles) /\ r.left \ {Registry!First(r.left)} = {}
        /\ e.pc = "ok" /\ e.left = {}

LEMMA NextBundleFacts ==
  ASSUME NEW r \in Registry!Proc, r.job.op = "import", r.next \in DOMAIN r.job.bundles
  PROVE  Registry!NextBundle(r) \in Registry!Proc /\ BundleDone(r, Registry!NextBundle(r))
<1> DEFINE e == Registry!NextBundle(r)  rest == r.left \ {Registry!First(r.left)}
           next == r.next + 1
<1>1. r.next \in Nat /\ r.next \in 1 .. Len(r.job.bundles) /\ Len(r.job.bundles) \in Nat
  BY JobFacts DEF Registry!Proc
<1>2. CASE r.next < Len(r.job.bundles)
  <2>1. e = [r EXCEPT !.next = next, !.pc = "bundle"]
    BY <1>2 DEF Registry!NextBundle
  <2>2. next \in Nat
    BY <1>1
  <2> HIDE DEF e, next
  <2>3. /\ e.job = r.job /\ e.targets = r.targets /\ e.todo = r.todo /\ e.left = r.left
        /\ e.next = next /\ e.pc = "bundle"
    BY <2>1 DEF Registry!Proc
  <2>4. e \in Registry!Proc
    BY <2>1, <2>2 DEF Registry!Proc, Registry!PC
  <2> QED
    BY <1>2, <2>3, <2>4 DEF BundleDone, e, next
<1>3. CASE ~(r.next < Len(r.job.bundles))
  <2>1. e = Registry!AfterPods(r, rest)
    BY <1>3 DEF Registry!NextBundle
  <2>2. rest \in SUBSET Pod
    BY DEF Registry!Proc
  <2> HIDE DEF e, rest
  <2>3. e \in Registry!Proc /\ PodsLeft(r, rest, e)
    BY <2>1, <2>2, AfterPodsFacts
  <2>4. r.next = Len(r.job.bundles) /\ r.job.bundles # <<>>
    BY <1>1, <1>3
  <2>5. BundleDone(r, e)
    BY <2>3, <2>4 DEF PodsLeft, BundleDone, rest
  <2> QED
    BY <2>3, <2>5 DEF e
<1> QED
  BY <1>2, <1>3

\* Import r has got bundle k for pod p.
Has(r, g, p, k) == \E t \in g : t[1] = (IF r.job.dir THEN Local ELSE NodeOf[p]) /\ t[2] = r.job.bundles[k]

\* Import r has got the bundles up to the one that it is at.
GotThrough(r, g) ==
  \A p \in r.targets, k \in DOMAIN r.job.bundles :
    p \notin r.left \/ (p = Registry!First(r.left) /\ k <= r.next) => Has(r, g, p, k)

LEMMA GotBefore ==
  ASSUME NEW r \in Registry!Proc, NEW g, GotAll(r, g), r.job.op = "import",
         r.pc \in {"extract", "open", "write"}, r.next \in DOMAIN r.job.bundles
  PROVE  GotThrough(r, g)
<1> SUFFICES ASSUME NEW p \in r.targets, NEW k \in DOMAIN r.job.bundles,
                    p \notin r.left \/ (p = Registry!First(r.left) /\ k <= r.next)
             PROVE  Has(r, g, p, k)
  BY DEF GotThrough
<1>1. k < r.next \/ k = r.next \/ r.next < k
  BY JobFacts
<1>2. \/ p \notin r.left
      \/ p = Registry!First(r.left) /\ k < r.next
      \/ p = Registry!First(r.left) /\ k = r.next /\ r.pc # "bundle"
  BY <1>1, JobFacts
<1> QED
  BY <1>2 DEF GotAll, Has

\* An import that is through with a bundle has still got what it should have.
LEMMA BundleDoneGot ==
  ASSUME NEW r \in Registry!Proc, NEW g, r.job.op = "import", r.left # {}, r.left \subseteq r.targets,
         r.next \in DOMAIN r.job.bundles, GotThrough(r, g), NEW e, BundleDone(r, e)
  PROVE  Shape(e) /\ GotAll(e, g)
<1> DEFINE len == Len(r.job.bundles)  first == Registry!First(r.left)
<1>1. /\ DOMAIN r.job.bundles = 1 .. len /\ len \in Nat /\ r.next \in 1 .. len
      /\ \A k \in 1 .. len : k <= r.next <=> k < r.next + 1
      /\ \A k \in 1 .. len : r.next = len => k <= r.next
      /\ \A k \in 1 .. len : ~(k < 1)
      /\ (r.next < len => r.next + 1 \in 1 .. len) /\ 1 \in 1 .. len
  BY JobFacts
<1>2. e.job = r.job /\ e.targets = r.targets /\ e.pc \in {"bundle", "ok"}
  BY DEF BundleDone
<1>3. Shape(e)
  BY <1>1, <1>2 DEF Shape, BundleDone
<1>4. ASSUME NEW p \in e.targets, NEW k \in DOMAIN e.job.bundles,
             \/ p \notin e.left
             \/ p = Registry!First(e.left) /\ k < e.next
             \/ p = Registry!First(e.left) /\ k = e.next /\ e.pc # "bundle"
      PROVE  Has(r, g, p, k)
  <2>1. k \in 1 .. len /\ k \in DOMAIN r.job.bundles /\ p \in r.targets
    BY <1>1, <1>2
  <2>2. p \notin r.left \/ (p = first /\ k <= r.next)
    <3>1. CASE e.pc = "bundle" /\ e.left = r.left /\ e.next = r.next + 1
      BY <1>1, <1>4, <2>1, <3>1
    <3>2. CASE r.next = len /\ e.pc = "bundle" /\ e.left = r.left \ {first} /\ e.next = 1
      <4>1. p \notin e.left
        BY <1>1, <1>4, <2>1, <3>2
      <4> QED
        BY <1>1, <2>1, <3>2, <4>1
    <3>3. CASE r.next = len /\ r.left \ {first} = {}
      BY <1>1, <2>1, <3>3
    <3> QED
      BY <3>1, <3>2, <3>3 DEF BundleDone
  <2> QED
    BY <2>1, <2>2 DEF GotThrough
<1>5. GotAll(e, g)
  BY <1>2, <1>4 DEF GotAll, Has
<1> QED
  BY <1>3, <1>5

\* Command r has taken image i from what it has to do, and becomes e.
FileDone(r, i, e) ==
  /\ e.job = r.job /\ e.targets = r.targets
  /\ \/ r.todo = {i} /\ \E q \in Registry!Proc :
          /\ q.job = r.job /\ q.targets = r.targets /\ q.left = r.left /\ q.next = r.next
          /\ q.todo = {} /\ BundleDone(q, e)
     \/ /\ r.todo # {i} /\ e.pc = "extract" /\ e.todo = r.todo \ {i} /\ e.left = r.left
        /\ e.next = r.next

LEMMA AfterFileFacts ==
  ASSUME NEW r \in Registry!Proc, r.job.op = "import", r.next \in DOMAIN r.job.bundles, NEW i \in r.todo
  PROVE  Registry!AfterFile(r, i) \in Registry!Proc /\ FileDone(r, i, Registry!AfterFile(r, i))
<1> DEFINE e == Registry!AfterFile(r, i)
<1>1. CASE r.todo = {i}
  <2>1. PICK q : q = [r EXCEPT !.todo = {}]
    OBVIOUS
  <2>2. /\ q.job = r.job /\ q.targets = r.targets /\ q.left = r.left /\ q.next = r.next /\ q.todo = {}
    BY <2>1 DEF Registry!Proc
  <2>3. q \in Registry!Proc
    BY <2>1 DEF Registry!Proc
  <2>4. e = Registry!NextBundle(q)
    BY <1>1, <2>1 DEF Registry!AfterFile
  <2> HIDE DEF e
  <2>5. e \in Registry!Proc /\ BundleDone(q, e)
    BY <2>2, <2>3, <2>4, NextBundleFacts
  <2>6. e.job = r.job /\ e.targets = r.targets
    BY <2>2, <2>5 DEF BundleDone
  <2> QED
    BY <1>1, <2>2, <2>3, <2>5, <2>6 DEF FileDone, e
<1>2. CASE r.todo # {i}
  <2>1. PICK todo \in SUBSET (Registry!Name \X Content) : todo = r.todo \ {i}
    BY DEF Registry!Proc
  <2>2. e = [r EXCEPT !.todo = todo, !.pc = "extract"]
    BY <1>2, <2>1 DEF Registry!AfterFile
  <2> HIDE DEF e
  <2>3. /\ e.job = r.job /\ e.targets = r.targets /\ e.pc = "extract" /\ e.todo = todo
        /\ e.left = r.left /\ e.next = r.next
    BY <2>2 DEF Registry!Proc
  <2>4. e \in Registry!Proc
    BY <2>2 DEF Registry!Proc, Registry!PC
  <2> QED
    BY <1>2, <2>1, <2>3, <2>4 DEF FileDone, e
<1> QED
  BY <1>1, <1>2

\* When file i was brought to where it goes, the import is as sound as before.
LEMMA FileDoneSound ==
  ASSUME NEW c, NEW r \in Registry!Proc, Shape(r), r.pc \in {"open", "write"},
         NEW f, NEW h, NEW g, NEW s, NEW u, GotAll(r, g), Brought(r, h, g, u),
         Named(r, f),
         \A n \in Node, m \in Registry!Name : f[n][m] \in Content => <<n, m, f[n][m]>> \in h,
         NEW i \in r.todo, Reached(r, Registry!Destination(r), i, h, u),
         NEW e \in Registry!Proc, FileDone(r, i, e)
  PROVE  Sound(c, e, f, h, g, s, u)
<1>1. /\ r.job.op = "import" /\ r.next \in DOMAIN r.job.bundles /\ r.left # {} /\ r.left \subseteq r.targets
  BY DEF Shape
<1>2. GotThrough(r, g)
  BY <1>1, GotBefore
<1>3. CASE r.todo = {i}
  <2>1. PICK q \in Registry!Proc :
          /\ q.job = r.job /\ q.targets = r.targets /\ q.left = r.left /\ q.next = r.next
          /\ q.todo = {} /\ BundleDone(q, e)
    BY <1>3 DEF FileDone
  <2>2. GotThrough(q, g)
    BY <1>2, <2>1 DEF GotThrough, Has
  <2>3. Shape(e) /\ GotAll(e, g)
    BY <1>1, <2>1, <2>2, BundleDoneGot
  <2>4. e.pc \in {"bundle", "ok"} /\ e.job = r.job /\ e.job.op = "import" /\ e.todo = {}
    BY <1>1, <2>1 DEF BundleDone
  <2>5. Wiped(e, f, s) /\ Named(e, f) /\ Seen(e, f, h) /\ Writes(c, e, f, u)
    BY <2>4 DEF Wiped, Named, Seen, Writes
  <2>6. \A t \in g : \A k \in t[3] : Reached(r, t[1], k, h, u)
    BY <1>3 DEF Brought
  <2>7. Brought(e, h, g, u)
    BY <2>4, <2>6 DEF Brought, Reached
  <2> QED
    BY <2>3, <2>5, <2>7 DEF Sound
<1>4. CASE r.todo # {i}
  <2>1. /\ e.job = r.job /\ e.targets = r.targets /\ e.pc = "extract" /\ e.todo = r.todo \ {i}
        /\ e.left = r.left /\ e.next = r.next
    BY <1>4 DEF FileDone
  <2>2. Shape(e)
    BY <1>1, <1>4, <2>1 DEF Shape
  <2>3. Wiped(e, f, s) /\ Named(e, f) /\ Seen(e, f, h) /\ Writes(c, e, f, u)
    BY <1>1, <2>1 DEF Wiped, Named, Seen, Writes
  <2>4. GotAll(e, g)
    BY <2>1 DEF GotAll, Shape
  <2>5. Registry!Destination(e) = Registry!Destination(r)
    BY <2>1 DEF Registry!Destination
  <2>6. Brought(e, h, g, u)
    BY <2>1, <2>5 DEF Brought, Reached
  <2> QED
    BY <2>2, <2>3, <2>4, <2>6 DEF Sound
<1> QED
  BY <1>3, <1>4

-----------------------------------------------------------------------------
(* What a step of one command does to the others *)

\* A step of another command leaves command d alone, but for its history and for files.
Undisturbed(d) ==
  /\ proc'[d] = proc[d] /\ got'[d] = got[d]
  /\ held[d] \subseteq held'[d] /\ stored[d] \subseteq stored'[d] /\ undone[d] \subseteq undone'[d]
  /\ \A n \in Node, x \in Content : files'[n][x] \in Content => files'[n][x] = x
  /\ \A n \in Node, m \in Registry!Name :
       /\ files[n][m] = None => files'[n][m] = None \/ n \in stored'[d]
       /\ files[n][m] = d => files'[n][m] = d \/ <<n, m>> \in undone'[d]
       /\ proc[d].pc \notin Registry!Ended /\ files'[n][m] \in Content =>
            <<n, m, files'[n][m]>> \in held'[d]

LEMMA UndisturbedIsSound ==
  ASSUME RegistryInv, NEW d \in Command, Undisturbed(d)
  PROVE  CommandSound(d)'
<1> DEFINE r == proc[d]
<1>1. r \in Registry!Proc /\ proc'[d] = r /\ got'[d] = got[d]
  BY DEF RegistryInv, Registry!RegistryTypeOK, Undisturbed
<1>2. /\ Shape(r) /\ Wiped(r, files, stored[d]) /\ Named(r, files) /\ Seen(r, files, held[d])
      /\ Writes(d, r, files, undone[d]) /\ GotAll(r, got[d]) /\ Brought(r, held[d], got[d], undone[d])
  BY DEF RegistryInv, CommandSound, Sound
<1>3. /\ held[d] \subseteq held'[d] /\ stored[d] \subseteq stored'[d] /\ undone[d] \subseteq undone'[d]
      /\ \A n \in Node, x \in Content : files'[n][x] \in Content => files'[n][x] = x
      /\ \A n \in Node, m \in Registry!Name :
           /\ files[n][m] = None => files'[n][m] = None \/ n \in stored'[d]
           /\ files[n][m] = d => files'[n][m] = d \/ <<n, m>> \in undone'[d]
           /\ r.pc \notin Registry!Ended /\ files'[n][m] \in Content =>
                <<n, m, files'[n][m]>> \in held'[d]
  BY DEF Undisturbed
<1> HIDE DEF r
<1>4. \A p \in r.targets : NodeOf[p] \in Node
  BY <1>1, RegistryConstantsHold DEF Registry!Proc, Registry!RegistryConstants
<1>5. Wiped(r, files', stored'[d])
  BY <1>2, <1>3, <1>4 DEF Wiped
<1>6. Seen(r, files', held'[d]) /\ Named(r, files')
  BY <1>2, <1>3 DEF Seen, Named
<1>7. Writes(d, r, files', undone'[d])
  <2>1. CASE r.pc = "write"
    <3>1. Registry!Destination(r) \in Node /\ Registry!Entry(r)[1] \in Registry!Name
      BY <1>1, <1>2, <2>1, TargetIn, EntryIn DEF Shape
    <3> QED
      BY <1>2, <1>3, <3>1 DEF Writes
  <2>2. CASE r.pc # "write"
    BY <2>2 DEF Writes
  <2> QED
    BY <2>1, <2>2
<1>8. Brought(r, held'[d], got[d], undone'[d])
  BY <1>2, <1>3 DEF Brought, Reached
<1>9. Sound(d, r, files', held'[d], got[d], stored'[d], undone'[d])
  BY <1>2, <1>5, <1>6, <1>7, <1>8 DEF Sound
<1> QED
  BY <1>1, <1>9 DEF CommandSound

LEMMA OneCommand ==
  ASSUME RegistryInv, NEW c \in Command, NEW e \in Registry!Proc, Registry!Set(c, e)
  PROVE  /\ proc' \in [Command -> Registry!Proc] /\ proc'[c] = e
         /\ \A d \in Command \ {c} : proc'[d] = proc[d]
  BY DEF RegistryInv, Registry!RegistryTypeOK, Registry!Set

\* Nothing happened to the files and to what is known of them.
LEMMA FilesKept ==
  ASSUME RegistryInv, NEW d \in Command, proc'[d] = proc[d], got'[d] = got[d],
         UNCHANGED <<files, held, stored, undone>>
  PROVE  Undisturbed(d)
  BY DEF Undisturbed, RegistryInv, CommandSound, Sound, Seen, Named

\* What is known of a command that is at work.
LEMMA Working ==
  ASSUME RegistryInv, NEW c \in Command
  PROVE  /\ proc[c] \in Registry!Proc /\ Shape(proc[c]) /\ Wiped(proc[c], files, stored[c])
         /\ Named(proc[c], files) /\ Seen(proc[c], files, held[c]) /\ Writes(c, proc[c], files, undone[c])
         /\ GotAll(proc[c], got[c]) /\ Brought(proc[c], held[c], got[c], undone[c])
  BY DEF RegistryInv, Registry!RegistryTypeOK, CommandSound, Sound

\* The registry's type invariant but for its last conjunct, which is part of Shape.
TypedState ==
  /\ registry \in BOOLEAN /\ deployment \in {"none", "live", "deleting"}
  /\ service \in BOOLEAN /\ pods \in [Pod -> Registry!Phase]
  /\ files \in [Node -> [Registry!Name -> Registry!File]]
  /\ starts \in 0 .. MaxStart /\ overlapped \in BOOLEAN
  /\ held \in [Command -> SUBSET (Node \X Registry!Name \X Content)]
  /\ got \in [Command -> SUBSET (Node \X App \X SUBSET (Registry!Name \X Content))]
  /\ stored \in [Command -> SUBSET Node]
  /\ undone \in [Command -> SUBSET (Node \X Registry!Name)]

LEMMA TypedIs ==
  ASSUME Registry!RegistryTypeOK
  PROVE  TypedState /\ proc \in [Command -> Registry!Proc]
  BY DEF Registry!RegistryTypeOK, TypedState

LEMMA Assembled ==
  ASSUME TypedState', proc' \in [Command -> Registry!Proc], Sequenced', Resumable',
         \A c \in Command : CommandSound(c)'
  PROVE  RegistryInv'
<1>1. \A c \in Command : proc'[c].pc \in {"bundle", "extract", "open", "write", "wipe"} => proc'[c].left # {}
  BY DEF CommandSound, Sound, Shape
<1>2. Registry!RegistryTypeOK'
  BY <1>1 DEF TypedState, Registry!RegistryTypeOK
<1> QED
  BY <1>2 DEF RegistryInv

\* A step of command c, on all that the invariant is about.
LEMMA CommandStep ==
  ASSUME RegistryInv, NEW c \in Command, NEW e \in Registry!Proc, Registry!Set(c, e),
         TypedState', Sequenced', Resumable', \A d \in Command \ {c} : Undisturbed(d),
         Sound(c, e, files', held'[c], got'[c], stored'[c], undone'[c])
  PROVE  RegistryInv'
<1>1. proc' \in [Command -> Registry!Proc] /\ proc'[c] = e
  BY OneCommand
<1>2. CommandSound(c)'
  BY <1>1 DEF CommandSound
<1>3. \A d \in Command \ {c} : CommandSound(d)'
  BY UndisturbedIsSound
<1> QED
  BY <1>1, <1>2, <1>3, Assembled

-----------------------------------------------------------------------------
(* Deploys and deletes, one after the other *)

\* A step of a command at work, that keeps its job.
LEMMA KeepsSequence ==
  ASSUME RegistryInv, NEW c \in Command, proc[c].pc \notin Registry!Ended,
         NEW e \in Registry!Proc, Registry!Set(c, e), e.job = proc[c].job,
         UNCHANGED <<registry, deployment, service, overlapped>>,
         e.pc \in {"apply", "expose", "wait"} /\ ~overlapped => registry,
         e.pc \in {"unexpose", "remove"} /\ ~overlapped => deployment # "live",
         e.pc = "remove" /\ ~overlapped => ~service
  PROVE  Sequenced' /\ Resumable'
<1>1. proc'[c] = e /\ \A d \in Command \ {c} : proc'[d] = proc[d]
  BY OneCommand
<1>2. Resumable'
  BY DEF RegistryInv, Resumable, Registry!Resumable
<1>3. SUFFICES ASSUME ~overlapped  PROVE Sequenced'
  BY <1>2 DEF Sequenced
<1>4. ASSUME NEW b \in Command, NEW d \in Command, proc'[b].pc \notin Registry!Ended,
             proc'[b].job.op = "delete", proc'[d].job.op = "deploy"
      PROVE  proc'[d].pc \in Registry!Ended
  <2>1. proc[b].pc \notin Registry!Ended /\ proc[b].job.op = "delete" /\ proc[d].job.op = "deploy"
    BY <1>1, <1>4
  <2>2. proc[d].pc \in Registry!Ended
    BY <1>3, <2>1 DEF RegistryInv, Sequenced
  <2> QED
    BY <1>1, <2>2
<1>5. ASSUME NEW d \in Command
      PROVE  /\ proc'[d].pc \in {"apply", "expose", "wait"} => registry
             /\ proc'[d].pc \in {"unexpose", "remove"} => deployment # "live"
             /\ proc'[d].pc = "remove" => ~service
  BY <1>1, <1>3 DEF RegistryInv, Sequenced
<1> QED
  BY <1>4, <1>5 DEF Sequenced

\* A step of a command at work that only goes on.
LEMMA OnlyGoesOn ==
  ASSUME RegistryInv, NEW c \in Command, proc[c].pc \notin Registry!Ended,
         NEW e \in Registry!Proc, Registry!Step(c, e), e.job = proc[c].job,
         e.pc \in {"apply", "expose", "wait"} /\ ~overlapped => registry,
         e.pc \notin {"unexpose", "remove"},
         Sound(c, e, files, held[c], got[c], stored[c], undone[c])
  PROVE  RegistryInv' /\ proc' \in [Command -> Registry!Proc] /\ UNCHANGED got
<1>1. /\ Registry!Set(c, e)
      /\ UNCHANGED <<registry, deployment, service, pods, files, starts, held, got, stored, undone, overlapped>>
  BY DEF Registry!Step, Registry!objects, Registry!history
<1>2. proc' \in [Command -> Registry!Proc] /\ \A d \in Command \ {c} : proc'[d] = proc[d]
  BY <1>1, OneCommand
<1>3. TypedState'
  BY <1>1, TypedIs DEF RegistryInv, TypedState
<1>4. Sequenced' /\ Resumable'
  BY <1>1, KeepsSequence
<1>5. \A d \in Command \ {c} : Undisturbed(d)
  BY <1>1, <1>2, FilesKept
<1>6. Sound(c, e, files', held'[c], got'[c], stored'[c], undone'[c])
  BY <1>1
<1> QED
  BY <1>1, <1>2, <1>3, <1>4, <1>5, <1>6, CommandStep

\* A command at a place where it has nothing on its hands.
LEMMA PlainlySound ==
  ASSUME NEW c, NEW r \in Registry!Proc, NEW e \in Registry!Proc, NEW f, NEW h, NEW g, NEW s, NEW u,
         Shape(r), Shape(e), Brought(r, h, g, u), r.pc \notin {"extract", "open", "write"},
         Wiped(e, f, s), GotAll(e, g), Named(r, f), e.todo = r.todo, e.job = r.job,
         \A n \in Node, m \in Registry!Name : f[n][m] \in Content => <<n, m, f[n][m]>> \in h,
         e.pc \notin {"open", "write"}
  PROVE  Sound(c, e, f, h, g, s, u)
<1>1. Named(e, f) /\ Seen(e, f, h) /\ Writes(c, e, f, u)
  BY DEF Named, Seen, Writes
<1>2. Brought(e, h, g, u)
  BY DEF Brought, Reached
<1> QED
  BY <1>1, <1>2 DEF Sound

LEMMA GetRegistryKeeps ==
  ASSUME RegistryInv, NEW c \in Command, Registry!GetRegistry(c)
  PROVE  RegistryInv' /\ UNCHANGED got
<1> DEFINE r == proc[c]
<1>1. PICK pc \in {"apply", "list"} : pc = IF r.job.op = "deploy" THEN "apply" ELSE "list"
  OBVIOUS
<1>2. PICK e : e = [r EXCEPT !.pc = pc]
  OBVIOUS
<1>3. r.pc = "get" /\ registry /\ Registry!Step(c, e)
  BY <1>1, <1>2 DEF Registry!GetRegistry, Registry!At
<1>4. /\ r \in Registry!Proc /\ Shape(r) /\ Named(r, files) /\ Seen(r, files, held[c])
      /\ Brought(r, held[c], got[c], undone[c])
  BY Working
<1> HIDE DEF r
<1>5. e \in Registry!Proc
  BY <1>1, <1>2, <1>4 DEF Registry!Proc, Registry!PC
<1>6. e.pc = pc /\ e.job = r.job /\ e.left = r.left /\ e.targets = r.targets /\ e.todo = r.todo
  BY <1>2, <1>4 DEF Registry!Proc
<1>7. Shape(e)
  BY <1>1, <1>3, <1>4, <1>6 DEF Shape
<1>8. Wiped(e, files, stored[c]) /\ GotAll(e, got[c])
  BY <1>1, <1>6 DEF Wiped, GotAll
<1>9. \A n \in Node, m \in Registry!Name : files[n][m] \in Content => <<n, m, files[n][m]>> \in held[c]
  BY <1>3, <1>4 DEF Seen, Registry!Ended
<1>10. Sound(c, e, files, held[c], got[c], stored[c], undone[c])
  BY <1>1, <1>3, <1>4, <1>5, <1>6, <1>7, <1>8, <1>9, PlainlySound
<1> QED
  BY <1>1, <1>3, <1>5, <1>6, <1>10, OnlyGoesOn DEF r, Registry!Ended

LEMMA WaitForRunningKeeps ==
  ASSUME RegistryInv, NEW c \in Command, Registry!WaitForRunning(c)
  PROVE  RegistryInv' /\ UNCHANGED got
<1> DEFINE r == proc[c]
<1>1. r.pc = "wait" /\ (Registry!Step(c, [r EXCEPT !.pc = "ok"])
                          \/ Registry!Step(c, [r EXCEPT !.tries = r.tries + 1]))
  BY DEF Registry!WaitForRunning, Registry!At
<1>2. /\ r \in Registry!Proc /\ Shape(r) /\ Named(r, files) /\ Seen(r, files, held[c])
      /\ Brought(r, held[c], got[c], undone[c])
  BY Working
<1>3. r.job.op = "deploy"
  BY <1>1, <1>2 DEF Shape
<1>4. \A n \in Node, m \in Registry!Name : files[n][m] \in Content => <<n, m, files[n][m]>> \in held[c]
  BY <1>1, <1>2 DEF Seen, Registry!Ended
<1>5. PICK tries \in Nat : tries = r.tries + 1
  BY <1>2 DEF Registry!Proc
<1>6. PICK e : Registry!Step(c, e) /\ (e = [r EXCEPT !.pc = "ok"] \/ e = [r EXCEPT !.tries = tries])
  BY <1>1, <1>5
<1> HIDE DEF r
<1>7. e \in Registry!Proc
  BY <1>2, <1>6 DEF Registry!Proc, Registry!PC
<1>8. /\ e.pc \in {"ok", "wait"} /\ e.job = r.job /\ e.targets = r.targets /\ e.left = r.left
      /\ e.todo = r.todo
  BY <1>1, <1>2, <1>6 DEF Registry!Proc
<1>9. Shape(e)
  BY <1>1, <1>2, <1>3, <1>8 DEF Shape
<1>10. Wiped(e, files, stored[c]) /\ GotAll(e, got[c])
  BY <1>3, <1>8 DEF Wiped, GotAll
<1>11. Sound(c, e, files, held[c], got[c], stored[c], undone[c])
  BY <1>1, <1>2, <1>4, <1>7, <1>8, <1>9, <1>10, PlainlySound
<1> QED
  <2>1. ~overlapped => registry
    BY <1>1 DEF RegistryInv, Sequenced, r
  <2> QED
    BY <1>1, <1>6, <1>7, <1>8, <1>11, <2>1, OnlyGoesOn DEF r, Registry!Ended

LEMMA ListPodsKeeps ==
  ASSUME RegistryInv, NEW c \in Command, Registry!ListPods(c)
  PROVE  RegistryInv' /\ UNCHANGED got
<1>1. PICK s \in SUBSET Pod : Registry!Step(c, Registry!AfterPods([proc[c] EXCEPT !.targets = s], s))
  BY DEF Registry!ListPods
<1>2. PICK r : r = [proc[c] EXCEPT !.targets = s]
  OBVIOUS
<1>3. PICK e : e = Registry!AfterPods(r, s)
  OBVIOUS
<1>4. proc[c].pc = "list" /\ Registry!Step(c, e)
  BY <1>1, <1>2, <1>3 DEF Registry!ListPods, Registry!At
<1>5. /\ proc[c] \in Registry!Proc /\ Shape(proc[c]) /\ Named(proc[c], files) /\ Seen(proc[c], files, held[c])
      /\ Brought(proc[c], held[c], got[c], undone[c])
  BY Working
<1>6. r \in Registry!Proc
  BY <1>2, <1>5 DEF Registry!Proc
<1>7. r.job = proc[c].job /\ r.targets = s /\ r.pc = "list" /\ r.todo = proc[c].todo
  BY <1>2, <1>4, <1>5 DEF Registry!Proc
<1>8. e \in Registry!Proc /\ PodsLeft(r, s, e)
  BY <1>3, <1>6, AfterPodsFacts
<1>9. r.job.op \in {"import", "delete"}
  BY <1>4, <1>5, <1>6, <1>7, JobFacts DEF Shape
<1>10. /\ r.job.bundles # <<>> => 1 \in DOMAIN r.job.bundles
       /\ r.job.bundles = <<>> => DOMAIN r.job.bundles = {}
       /\ \A k \in DOMAIN r.job.bundles : ~(k < 1)
  BY <1>6, JobFacts
<1>11. e.job = r.job /\ e.targets = s /\ e.todo = proc[c].todo
  BY <1>7, <1>8 DEF PodsLeft
<1>12. \/ /\ e.pc = "bundle" /\ r.job.op = "import" /\ s # {} /\ r.job.bundles # <<>>
          /\ e.left = s /\ e.next = 1
       \/ e.pc = "wipe" /\ r.job.op = "delete" /\ s # {} /\ e.left = s
       \/ e.pc = "ok" /\ r.job.op = "import" /\ e.left = {} /\ (s = {} \/ r.job.bundles = <<>>)
       \/ e.pc = "undeploy" /\ r.job.op = "delete" /\ e.left = {} /\ s = {}
  BY <1>8, <1>9 DEF PodsLeft
<1>13. Shape(e)
  BY <1>10, <1>11, <1>12 DEF Shape
<1>14. Wiped(e, files, stored[c])
  BY <1>11, <1>12 DEF Wiped
<1>15. GotAll(e, got[c])
  BY <1>10, <1>11, <1>12 DEF GotAll
<1>16. \A n \in Node, m \in Registry!Name : files[n][m] \in Content => <<n, m, files[n][m]>> \in held[c]
  BY <1>4, <1>5 DEF Seen, Registry!Ended
<1>17. Sound(c, e, files, held[c], got[c], stored[c], undone[c])
  BY <1>4, <1>5, <1>7, <1>8, <1>11, <1>12, <1>13, <1>14, <1>15, <1>16, PlainlySound
<1> QED
  BY <1>4, <1>7, <1>8, <1>11, <1>12, <1>17, OnlyGoesOn DEF Registry!Ended

LEMMA StatFileKeeps ==
  ASSUME RegistryInv, NEW c \in Command, Registry!StatFile(c)
  PROVE  RegistryInv' /\ UNCHANGED got
<1> DEFINE r == proc[c]  m == Registry!Entry(r)[1]  f == files[Local][m]
<1>1. PICK seen : seen = IF f \in Command THEN Part ELSE f
  OBVIOUS
<1>2. PICK e : e = [r EXCEPT !.pc = "open", !.seen = seen]
  OBVIOUS
<1>3. r.pc = "extract" /\ r.job.dir /\ Registry!Step(c, e)
  BY <1>1, <1>2 DEF Registry!StatFile, Registry!At
<1>4. /\ r \in Registry!Proc /\ Shape(r) /\ Named(r, files) /\ Seen(r, files, held[c])
      /\ GotAll(r, got[c])
      /\ Brought(r, held[c], got[c], undone[c])
  BY Working
<1>5. m \in Registry!Name /\ Local \in Node
  BY <1>3, <1>4, EntryIn, RegistryConstantsHold DEF Shape, Registry!RegistryConstants
<1>6. f \in Registry!File
  BY <1>5 DEF RegistryInv, Registry!RegistryTypeOK
<1>7. seen \in Content \cup {None, Part} /\ (seen \in Content => f = seen)
  BY <1>1, <1>6, Kinds DEF Registry!File
<1>8. e \in Registry!Proc
  BY <1>2, <1>4, <1>7 DEF Registry!Proc, Registry!PC
<1>9. /\ e.pc = "open" /\ e.seen = seen /\ e.job = r.job /\ e.left = r.left /\ e.targets = r.targets
      /\ e.next = r.next /\ e.todo = r.todo
  BY <1>2, <1>4 DEF Registry!Proc
<1>10. Registry!Entry(e) = Registry!Entry(r)
  BY <1>9 DEF Registry!Entry
<1>11. Registry!Destination(e) = Registry!Destination(r)
  BY <1>9 DEF Registry!Destination
<1>12. \A n \in Node, k \in Registry!Name : files[n][k] \in Content => <<n, k, files[n][k]>> \in held[c]
  BY <1>3, <1>4 DEF Seen, Registry!Ended
<1>13. Seen(e, files, held[c])
  BY <1>5, <1>7, <1>9, <1>10, <1>12 DEF Seen
<1>19. Named(e, files)
  BY <1>4, <1>5, <1>7, <1>9, <1>10 DEF Named
<1> HIDE DEF f, m, r
<1>14. Shape(e)
  BY <1>3, <1>4, <1>9 DEF Shape
<1>15. Wiped(e, files, stored[c]) /\ Writes(c, e, files, undone[c])
  BY <1>9 DEF Wiped, Writes
<1>16. GotAll(e, got[c])
  BY <1>3, <1>4, <1>9 DEF GotAll, Shape
<1>17. Brought(e, held[c], got[c], undone[c])
  BY <1>3, <1>4, <1>9, <1>11 DEF Brought, Reached
<1>18. Sound(c, e, files, held[c], got[c], stored[c], undone[c])
  BY <1>13, <1>14, <1>15, <1>16, <1>17, <1>19 DEF Sound
<1> QED
  BY <1>3, <1>8, <1>9, <1>18, OnlyGoesOn DEF r, Registry!Ended

-----------------------------------------------------------------------------
(* The steps of an import *)

LEMMA TarFacts ==
  ASSUME kb \in [App -> KbFile], NEW b \in App
  PROVE  /\ Registry!Tar(b) \in SUBSET (Registry!Name \X Content)
         /\ \A e \in Registry!Tar(b) : e[1] \in Content => e[2] = e[1]
<1>1. \A t \in Tag : kb[b].images[t] # None => kb[b].images[t] \in Content
  BY DEF KbFile, Held
<1>2. \A e \in Registry!Tar(b) : \E t \in Tag :
        /\ kb[b].images[t] \in Content
        /\ e = <<t, kb[b].images[t]>> \/ e = <<kb[b].images[t], kb[b].images[t]>>
  BY <1>1 DEF Registry!Tar
<1> QED
  BY <1>2, Kinds

LEMMA GetBundleKeeps ==
  ASSUME RegistryInv, kb \in [App -> KbFile], NEW c \in Command, Registry!GetBundle(c)
  PROVE  /\ RegistryInv' /\ proc[c].job.bundles[proc[c].next] \in App
         /\ kb[proc[c].job.bundles[proc[c].next]].file = "closed"
         /\ \A d \in Command \ {c} : got'[d] = got[d]
         /\ \A t \in got'[c] : t \in got[c] \/
              /\ t[2] = proc[c].job.bundles[proc[c].next] /\ t[3] = Registry!Tar(t[2])
<1> DEFINE r == proc[c]  b == r.job.bundles[r.next]
<1>1. PICK tar : tar = Registry!Tar(b)
  OBVIOUS
<1>2. PICK e : e = IF tar = {} THEN Registry!NextBundle(r) ELSE [r EXCEPT !.pc = "extract", !.todo = tar]
  OBVIOUS
<1>3. PICK t : t = <<Registry!Destination(r), b, tar>>
  OBVIOUS
<1>4. /\ r.pc = "bundle" /\ kb[b].file = "closed" /\ Registry!Set(c, e)
      /\ got' = [got EXCEPT ![c] = got[c] \cup {t}]
      /\ UNCHANGED <<registry, deployment, service, pods, files, starts, held, stored, undone, overlapped>>
  BY <1>1, <1>2, <1>3 DEF Registry!GetBundle, Registry!At, Registry!objects, Registry!NoImagesTar
<1>5. /\ r \in Registry!Proc /\ Shape(r) /\ Named(r, files) /\ Seen(r, files, held[c])
      /\ GotAll(r, got[c]) /\ Brought(r, held[c], got[c], undone[c])
  BY Working
<1>6. /\ r.job.op = "import" /\ r.next \in DOMAIN r.job.bundles /\ r.left # {} /\ r.left \subseteq r.targets
  BY <1>4, <1>5 DEF Shape
<1>7. b \in App /\ Registry!Destination(r) \in Node
        /\ Registry!Destination(r) = (IF r.job.dir THEN Local ELSE NodeOf[Registry!First(r.left)])
  BY <1>5, <1>6, JobFacts, TargetIn
<1>21. /\ tar \in SUBSET (Registry!Name \X Content)
       /\ \A k \in tar : k[1] \in Content => k[2] = k[1]
  BY <1>1, <1>7, TarFacts
<1> DEFINE Get == Node \X App \X SUBSET (Registry!Name \X Content)
<1>8. t \in Get /\ t[1] = Registry!Destination(r) /\ t[2] = b /\ t[3] = tar
  BY <1>3, <1>7, <1>21
<1>9. \A n \in Node, m \in Registry!Name : files[n][m] \in Content => <<n, m, files[n][m]>> \in held[c]
  BY <1>4, <1>5 DEF Seen, Registry!Ended
<1>10. /\ got \in [Command -> SUBSET Get] /\ got'[c] = got[c] \cup {t}
       /\ \A d \in Command \ {c} : got'[d] = got[d]
  BY <1>4 DEF RegistryInv, Registry!RegistryTypeOK
<1> HIDE DEF Get
<1>11. got' \in [Command -> SUBSET Get]
  <2>1. got[c] \cup {t} \in SUBSET Get
    BY <1>8, <1>10
  <2> QED
    BY <1>4, <1>10, <2>1
<1> HIDE DEF r, b
<1>12. GotThrough(r, got'[c])
  <2> SUFFICES ASSUME NEW p \in r.targets, NEW k \in DOMAIN r.job.bundles,
                      p \notin r.left \/ (p = Registry!First(r.left) /\ k <= r.next)
               PROVE  Has(r, got'[c], p, k)
    BY DEF GotThrough
  <2>1. k < r.next \/ k = r.next \/ r.next < k
    BY <1>5, <1>6, JobFacts
  <2>2. CASE p \notin r.left \/ (p = Registry!First(r.left) /\ k < r.next)
    BY <1>4, <1>5, <1>6, <1>10, <2>2 DEF GotAll, Has
  <2>3. CASE p = Registry!First(r.left) /\ k = r.next
    <3>1. t \in got'[c] /\ t[2] = r.job.bundles[k]
      BY <1>8, <1>10, <2>3 DEF b
    <3>2. t[1] = IF r.job.dir THEN Local ELSE NodeOf[p]
      BY <1>7, <1>8, <2>3
    <3> QED
      BY <3>1, <3>2 DEF Has
  <2> QED
    BY <1>5, <1>6, <2>1, <2>2, <2>3, JobFacts
<1>13. ASSUME tar = {}
      PROVE  /\ e \in Registry!Proc /\ e.job = r.job /\ e.pc \in {"bundle", "ok", "extract"}
             /\ Sound(c, e, files, held[c], got'[c], stored[c], undone[c])
  <2>1. e \in Registry!Proc /\ BundleDone(r, e)
    BY <1>2, <1>5, <1>6, <1>13, NextBundleFacts
  <2>2. Shape(e) /\ GotAll(e, got'[c])
    BY <1>5, <1>6, <1>12, <2>1, BundleDoneGot
  <2>3. e.pc \in {"bundle", "ok"} /\ e.job = r.job /\ e.todo = r.todo
    BY <2>1 DEF BundleDone
  <2>4. Wiped(e, files, stored[c])
    BY <1>6, <2>3 DEF Wiped
  <2>5. Brought(r, held[c], got'[c], undone[c])
    BY <1>5, <1>8, <1>10, <1>13 DEF Brought
  <2>6. Sound(c, e, files, held[c], got'[c], stored[c], undone[c])
    BY <1>4, <1>5, <1>9, <2>1, <2>2, <2>3, <2>4, <2>5, PlainlySound
  <2> QED
    BY <2>1, <2>3, <2>6
<1>14. ASSUME tar # {}
      PROVE  /\ e \in Registry!Proc /\ e.job = r.job /\ e.pc \in {"bundle", "ok", "extract"}
             /\ Sound(c, e, files, held[c], got'[c], stored[c], undone[c])
  <2>1. e = [r EXCEPT !.pc = "extract", !.todo = tar]
    BY <1>2, <1>14
  <2>2. e \in Registry!Proc
    BY <1>5, <1>21, <2>1 DEF Registry!Proc, Registry!PC
  <2>3. /\ e.pc = "extract" /\ e.todo = tar /\ e.job = r.job /\ e.left = r.left
        /\ e.targets = r.targets /\ e.next = r.next
    BY <1>5, <2>1 DEF Registry!Proc
  <2>4. Shape(e)
    BY <1>6, <1>14, <2>3 DEF Shape
  <2>5. /\ Wiped(e, files, stored[c]) /\ Named(e, files) /\ Seen(e, files, held[c])
        /\ Writes(c, e, files, undone[c])
    BY <1>5, <1>9, <1>21, <2>3 DEF Wiped, Named, Seen, Writes
  <2>6. GotAll(e, got'[c])
    <3> SUFFICES ASSUME NEW p \in e.targets, NEW k \in DOMAIN e.job.bundles,
                        \/ p \notin e.left
                        \/ p = Registry!First(e.left) /\ k < e.next
                        \/ p = Registry!First(e.left) /\ k = e.next /\ e.pc # "bundle"
                 PROVE  Has(e, got'[c], p, k)
      BY DEF GotAll, Has
    <3>1. p \notin r.left \/ (p = Registry!First(r.left) /\ k <= r.next)
      BY <1>5, <1>6, <2>3, JobFacts
    <3> QED
      BY <1>12, <2>3, <3>1 DEF GotThrough, Has
  <2>7. Registry!Destination(e) = Registry!Destination(r)
    BY <2>3 DEF Registry!Destination
  <2>8. Brought(e, held[c], got'[c], undone[c])
    BY <1>4, <1>5, <1>8, <1>10, <2>3, <2>7 DEF Brought, Reached
  <2>9. Sound(c, e, files, held[c], got'[c], stored[c], undone[c])
    BY <2>4, <2>5, <2>6, <2>8 DEF Sound
  <2> QED
    BY <2>2, <2>3, <2>9
<1>15. /\ e \in Registry!Proc /\ e.job = r.job /\ e.pc \in {"bundle", "ok", "extract"}
       /\ Sound(c, e, files', held'[c], got'[c], stored'[c], undone'[c])
  BY <1>4, <1>13, <1>14
<1>16. proc' \in [Command -> Registry!Proc] /\ \A d \in Command \ {c} : proc'[d] = proc[d]
  BY <1>4, <1>15, OneCommand
<1>17. TypedState'
  BY <1>4, <1>11, TypedIs DEF RegistryInv, TypedState, Get
<1>18. \A d \in Command \ {c} : Undisturbed(d)
  BY <1>4, <1>10, <1>16, FilesKept
<1>19. Sequenced' /\ Resumable'
  BY <1>4, <1>15, KeepsSequence DEF r, Registry!Ended
<1>20. RegistryInv'
  BY <1>4, <1>15, <1>17, <1>18, <1>19, CommandStep
<1> QED
  BY <1>1, <1>4, <1>7, <1>8, <1>10, <1>20 DEF r, b

\* Command c removes or replaces files of node n.
LEMMA UndoFacts ==
  ASSUME RegistryInv, NEW c \in Command, NEW n \in Node, NEW ms \in SUBSET Registry!Name,
         Registry!Undo(c, n, ms)
  PROVE  /\ undone' \in [Command -> SUBSET (Node \X Registry!Name)]
         /\ \A d \in Command : undone[d] \subseteq undone'[d]
         /\ \A d \in Command \ {c}, m \in ms : files[n][m] = d => <<n, m>> \in undone'[d]
<1>1. undone \in [Command -> SUBSET (Node \X Registry!Name)]
  BY DEF RegistryInv, Registry!RegistryTypeOK
<1> DEFINE more(d) == {<<n, m>> : m \in {k \in ms : d # c /\ files[n][k] = d}}
<1>2. undone' = [d \in Command |-> undone[d] \cup more(d)]
  BY DEF Registry!Undo
<1>3. \A d \in Command : more(d) \subseteq Node \X Registry!Name
  OBVIOUS
<1>4. \A d \in Command \ {c}, m \in ms : files[n][m] = d => <<n, m>> \in more(d)
  OBVIOUS
<1> HIDE DEF more
<1> QED
  BY <1>1, <1>2, <1>3, <1>4

\* What the writing of file i on node n, which begins (f is c) or ends, does.
Wrote(c, n, i, f) ==
  /\ files' \in [Node -> [Registry!Name -> Registry!File]] /\ files'[n][i] = f
  /\ \A m \in Node, k \in Registry!Name : <<m, k>> # <<n, i>> => files'[m][k] = files[m][k]
  /\ undone' \in [Command -> SUBSET (Node \X Registry!Name)]
  /\ held' \in [Command -> SUBSET (Node \X Registry!Name \X Content)] /\ stored' \in [Command -> SUBSET Node]
  /\ \A d \in Command : /\ held[d] \subseteq held'[d] /\ undone[d] \subseteq undone'[d]
                        /\ stored[d] \subseteq stored'[d] /\ n \in stored'[d]
                        /\ f \in Content /\ proc[d].pc \notin Registry!Ended => <<n, i, f>> \in held'[d]
  /\ \A d \in Command \ {c} : files[n][i] = d => <<n, i>> \in undone'[d]
  /\ UNCHANGED <<registry, deployment, service, pods, starts, got, overlapped>>

LEMMA PutFacts ==
  ASSUME RegistryInv, NEW c \in Command, NEW n \in Node, NEW i \in Registry!Name, NEW f \in {c} \cup Content,
         Registry!Put(c, n, i, f)
  PROVE  Wrote(c, n, i, f)
<1>1. /\ files \in [Node -> [Registry!Name -> Registry!File]] /\ f \in Registry!File
      /\ held \in [Command -> SUBSET (Node \X Registry!Name \X Content)] /\ stored \in [Command -> SUBSET Node]
  BY DEF RegistryInv, Registry!RegistryTypeOK, Registry!File
<1>2. /\ Registry!Undo(c, n, {i}) /\ files' = [files EXCEPT ![n][i] = f]
      /\ held' = IF f \in Content THEN [d \in Command |->
                    IF proc[d].pc \in Registry!Ended THEN held[d] ELSE held[d] \cup {<<n, i, f>>}] ELSE held
      /\ stored' = [d \in Command |-> stored[d] \cup {n}]
      /\ UNCHANGED <<registry, deployment, service, pods, starts, got, overlapped>>
  BY DEF Registry!Put, Registry!objects
<1>3. /\ undone' \in [Command -> SUBSET (Node \X Registry!Name)]
      /\ \A d \in Command : undone[d] \subseteq undone'[d]
      /\ \A d \in Command \ {c} : files[n][i] = d => <<n, i>> \in undone'[d]
  BY <1>2, UndoFacts
<1>4. /\ files' \in [Node -> [Registry!Name -> Registry!File]] /\ files'[n][i] = f
      /\ \A m \in Node, k \in Registry!Name : <<m, k>> # <<n, i>> => files'[m][k] = files[m][k]
  BY <1>1, <1>2
<1>5. /\ held' \in [Command -> SUBSET (Node \X Registry!Name \X Content)]
      /\ \A d \in Command : held[d] \subseteq held'[d]
      /\ \A d \in Command : f \in Content /\ proc[d].pc \notin Registry!Ended => <<n, i, f>> \in held'[d]
  <2>1. CASE f \in Content
    <3>1. held' = [d \in Command |->
                     IF proc[d].pc \in Registry!Ended THEN held[d] ELSE held[d] \cup {<<n, i, f>>}]
      BY <1>2, <2>1
    <3>2. <<n, i, f>> \in Node \X Registry!Name \X Content
      BY <2>1
    <3> QED
      BY <1>1, <3>1, <3>2
  <2>2. CASE f \notin Content
    BY <1>1, <1>2, <2>2
  <2> QED
    BY <2>1, <2>2
<1>6. /\ stored' \in [Command -> SUBSET Node]
      /\ \A d \in Command : stored[d] \subseteq stored'[d] /\ n \in stored'[d]
  BY <1>1, <1>2
<1> QED
  BY <1>2, <1>3, <1>4, <1>5, <1>6 DEF Wrote

\* Such a step of an import leaves the other commands undisturbed.
LEMMA PutKeeps ==
  ASSUME RegistryInv, NEW c \in Command, NEW n \in Node, NEW i \in Registry!Name, NEW f \in {c} \cup Content,
         Registry!Put(c, n, i, f), 
         f \in Content => files[n][i] = c, f \in Content /\ i \in Content => f = i,
         NEW e \in Registry!Proc, Registry!Set(c, e), e.job = proc[c].job,
         proc[c].pc \notin Registry!Ended,
         e.pc \notin {"apply", "expose", "wait", "unexpose", "remove"},
         Sound(c, e, files', held'[c], got'[c], stored'[c], undone'[c])
  PROVE  RegistryInv'
<1>1. /\ files' \in [Node -> [Registry!Name -> Registry!File]] /\ files'[n][i] = f
      /\ \A m \in Node, k \in Registry!Name : <<m, k>> # <<n, i>> => files'[m][k] = files[m][k]
      /\ undone' \in [Command -> SUBSET (Node \X Registry!Name)]
      /\ held' \in [Command -> SUBSET (Node \X Registry!Name \X Content)] /\ stored' \in [Command -> SUBSET Node]
      /\ \A d \in Command : /\ held[d] \subseteq held'[d] /\ undone[d] \subseteq undone'[d]
                            /\ stored[d] \subseteq stored'[d] /\ n \in stored'[d]
                            /\ f \in Content /\ proc[d].pc \notin Registry!Ended => <<n, i, f>> \in held'[d]
      /\ \A d \in Command \ {c} : files[n][i] = d => <<n, i>> \in undone'[d]
      /\ UNCHANGED <<registry, deployment, service, pods, starts, got, overlapped>>
  BY PutFacts DEF Wrote
<1>2. proc' \in [Command -> Registry!Proc] /\ \A d \in Command \ {c} : proc'[d] = proc[d]
  BY OneCommand
<1>3. TypedState'
  BY <1>1, TypedIs DEF RegistryInv, TypedState
<1>4. Sequenced' /\ Resumable'
  BY <1>1, KeepsSequence
<1>5. ASSUME NEW d \in Command \ {c}  PROVE Undisturbed(d)
  <2>1. ASSUME NEW m \in Node, NEW k \in Registry!Name
        PROVE  /\ files[m][k] = None => files'[m][k] = None \/ m \in stored'[d]
               /\ files[m][k] = d => files'[m][k] = d \/ <<m, k>> \in undone'[d]
               /\ proc[d].pc \notin Registry!Ended /\ files'[m][k] \in Content =>
                    <<m, k, files'[m][k]>> \in held'[d]
    <3>1. CASE <<m, k>> = <<n, i>>
      <4>1. m = n /\ k = i
        BY <3>1
      <4>2. c \notin Content /\ c # None
        BY Kinds
      <4> QED
        BY <1>1, <4>1, <4>2
    <3>2. CASE <<m, k>> # <<n, i>>
      <4>1. files'[m][k] = files[m][k]
        BY <1>1, <3>2
      <4>2. proc[d].pc \notin Registry!Ended /\ files[m][k] \in Content => <<m, k, files[m][k]>> \in held[d]
        BY Working DEF Seen
      <4> QED
        BY <1>1, <4>1, <4>2
    <3> QED
      BY <3>1, <3>2
  <2>2. ASSUME NEW m \in Node, NEW x \in Content, files'[m][x] \in Content  PROVE files'[m][x] = x
    <3>1. x \in Registry!Name /\ c \notin Content
      BY Kinds
    <3>2. CASE <<m, x>> = <<n, i>>
      BY <1>1, <2>2, <3>1, <3>2
    <3>3. CASE <<m, x>> # <<n, i>>
      BY <1>1, <2>2, <3>1, <3>3, Working DEF Named
    <3> QED
      BY <3>2, <3>3
  <2> QED
    BY <1>1, <1>2, <2>1, <2>2 DEF Undisturbed
<1> QED
  BY <1>2, <1>3, <1>4, <1>5, CommandStep

\* The command has made its file, by which it writes.
LEMMA BeginsToWrite ==
  ASSUME RegistryInv, NEW c \in Command, proc[c].pc \in {"extract", "open"},
         Registry!Set(c, [proc[c] EXCEPT !.pc = "write"]),
         Registry!Put(c, Registry!Destination(proc[c]), Registry!Entry(proc[c])[1], c)
  PROVE  RegistryInv' /\ UNCHANGED got
<1> DEFINE r == proc[c]
<1>1. /\ r \in Registry!Proc /\ Shape(r) /\ Named(r, files) /\ Seen(r, files, held[c])
      /\ GotAll(r, got[c]) /\ Brought(r, held[c], got[c], undone[c])
  BY Working
<1>2. PICK e : e = [r EXCEPT !.pc = "write"]
  OBVIOUS
<1>3. PICK n : n = Registry!Destination(r)
  OBVIOUS
<1>4. PICK i : i = Registry!Entry(r)[1]
  OBVIOUS
<1>5. Registry!Set(c, e) /\ Registry!Put(c, n, i, c) /\ r.pc \in {"extract", "open"}
  BY <1>2, <1>3, <1>4
<1>6. n \in Node /\ i \in Registry!Name
  BY <1>1, <1>3, <1>4, <1>5, TargetIn, EntryIn DEF Shape
<1> HIDE DEF r
<1>7. /\ e.pc = "write" /\ e.job = r.job /\ e.left = r.left /\ e.targets = r.targets
      /\ e.next = r.next /\ e.todo = r.todo
  BY <1>1, <1>2 DEF Registry!Proc
<1>8. e \in Registry!Proc
  BY <1>1, <1>2 DEF Registry!Proc, Registry!PC
<1>9. /\ files'[n][i] = c /\ held[c] \subseteq held'[c] /\ undone[c] \subseteq undone'[c]
      /\ got' = got /\ n \in Node /\ i \in Registry!Name
      /\ \A m \in Node, k \in Registry!Name : <<m, k>> # <<n, i>> => files'[m][k] = files[m][k]
  <2>1. PICK f \in {c} \cup Content : f = c
    OBVIOUS
  <2>2. Registry!Put(c, n, i, f) /\ f \in {c} \cup Content
    BY <1>5, <2>1
  <2>3. Wrote(c, n, i, f)
    BY <1>6, <2>2, PutFacts
  <2> QED
    BY <1>6, <2>1, <2>3 DEF Wrote
<1>10. Shape(e)
  BY <1>1, <1>5, <1>7 DEF Shape
<1>11. Wiped(e, files', stored'[c])
  BY <1>7 DEF Wiped
<1>12. Seen(e, files', held'[c])
  <2>1. SUFFICES ASSUME NEW m \in Node, NEW k \in Registry!Name, files'[m][k] \in Content
                 PROVE  <<m, k, files'[m][k]>> \in held'[c]
    BY <1>7 DEF Seen
  <2>2. c \notin Content
    BY Kinds
  <2>3. files'[m][k] = files[m][k]
    BY <1>9, <2>1, <2>2
  <2> QED
    BY <1>1, <1>5, <1>9, <2>1, <2>3 DEF Seen, Registry!Ended
<1>20. Named(e, files')
  <2>1. ASSUME NEW m \in Node, NEW x \in Content, files'[m][x] \in Content  PROVE files'[m][x] = x
    <3>1. x \in Registry!Name /\ c \notin Content
      BY Kinds
    <3>2. files'[m][x] = files[m][x]
      BY <1>9, <2>1, <3>1
    <3> QED
      BY <1>1, <2>1, <3>2 DEF Named
  <2> QED
    BY <1>1, <1>7, <2>1 DEF Named
<1>13. Registry!Destination(e) = n /\ Registry!Entry(e)[1] = i
  BY <1>3, <1>4, <1>7 DEF Registry!Destination, Registry!Entry
<1>14. Writes(c, e, files', undone'[c])
  BY <1>9, <1>13 DEF Writes
<1>15. GotAll(e, got'[c])
  BY <1>1, <1>5, <1>7, <1>9 DEF GotAll, Shape
<1>16. Brought(e, held'[c], got'[c], undone'[c])
  BY <1>1, <1>3, <1>5, <1>7, <1>9, <1>13 DEF Brought, Reached
<1>17. Sound(c, e, files', held'[c], got'[c], stored'[c], undone'[c])
  BY <1>10, <1>11, <1>12, <1>14, <1>15, <1>16, <1>20 DEF Sound
<1>18. c \notin Content
  BY Kinds
<1>19. RegistryInv'
  BY <1>5, <1>6, <1>7, <1>8, <1>17, <1>18, PutKeeps DEF r, Registry!Ended
<1> QED
  BY <1>9, <1>19

LEMMA TarFileKeeps ==
  ASSUME RegistryInv, NEW c \in Command, Registry!TarFile(c)
  PROVE  RegistryInv' /\ UNCHANGED got
  BY BeginsToWrite DEF Registry!TarFile, Registry!At

LEMMA OpenFileKeeps ==
  ASSUME RegistryInv, NEW c \in Command, Registry!OpenFile(c)
  PROVE  RegistryInv' /\ UNCHANGED got
<1> DEFINE r == proc[c]
<1>1. /\ r.pc = "open"
      /\ \/ Registry!Set(c, [r EXCEPT !.pc = "write"]) /\ Registry!Put(c, Local, Registry!Entry(r)[1], c)
         \/ r.seen \in Content /\ Registry!Step(c, Registry!AfterFile(r, Registry!Entry(r)))
  BY DEF Registry!OpenFile, Registry!At
<1>2. /\ r \in Registry!Proc /\ Shape(r) /\ Named(r, files) /\ Seen(r, files, held[c])
      /\ GotAll(r, got[c]) /\ Brought(r, held[c], got[c], undone[c])
  BY Working
<1>3. /\ Registry!Destination(r) = Local /\ Registry!Entry(r) \in r.todo /\ r.job.dir
      /\ Registry!Entry(r)[1] \in Registry!Name
  BY <1>1, <1>2, EntryIn DEF Shape, Registry!Destination
<1>4. CASE Registry!Set(c, [r EXCEPT !.pc = "write"]) /\ Registry!Put(c, Local, Registry!Entry(r)[1], c)
  BY <1>1, <1>3, <1>4, BeginsToWrite
<1>5. CASE r.seen \in Content /\ Registry!Step(c, Registry!AfterFile(r, Registry!Entry(r)))
  <2>1. PICK i \in r.todo : i = Registry!Entry(r)
    BY <1>3
  <2>2. PICK e : e = Registry!AfterFile(r, i)
    OBVIOUS
  <2>3. Registry!Step(c, e)
    BY <1>5, <2>1, <2>2
  <2>4. r.job.op = "import" /\ r.next \in DOMAIN r.job.bundles
    BY <1>1, <1>2 DEF Shape
  <2>5. e \in Registry!Proc /\ FileDone(r, i, e)
    BY <1>2, <2>2, <2>4, AfterFileFacts
  <2>6. Reached(r, Registry!Destination(r), i, held[c], undone[c])
    <3>1. <<Local, i[1], r.seen>> \in held[c]
      BY <1>1, <1>2, <1>5, <2>1 DEF Seen
    <3>2. CASE r.seen = i[2]
      BY <1>3, <3>1, <3>2 DEF Reached
    <3>3. CASE r.seen # i[2]
      <4>1. i[1] \notin Content
        BY <1>1, <1>2, <1>5, <2>1, <3>3 DEF Named
      <4>2. i[1] \in Tag
        BY <1>3, <2>1, <4>1, Kinds
      <4> QED
        BY <1>3, <1>5, <3>1, <3>3, <4>2 DEF Reached
    <3> QED
      BY <3>2, <3>3
  <2>7. \A n \in Node, m \in Registry!Name : files[n][m] \in Content => <<n, m, files[n][m]>> \in held[c]
    BY <1>1, <1>2 DEF Seen, Registry!Ended
  <2>8. Sound(c, e, files, held[c], got[c], stored[c], undone[c])
    BY <1>1, <1>2, <2>5, <2>6, <2>7, FileDoneSound
  <2>9. e.job = r.job /\ e.pc \in {"bundle", "ok", "extract"}
    BY <2>5 DEF FileDone, BundleDone
  <2> QED
    BY <1>1, <2>3, <2>5, <2>8, <2>9, OnlyGoesOn DEF Registry!Ended
<1> QED
  BY <1>1, <1>4, <1>5

LEMMA WriteFileKeeps ==
  ASSUME RegistryInv, NEW c \in Command, Registry!WriteFile(c)
  PROVE  RegistryInv' /\ UNCHANGED got
<1> DEFINE r == proc[c]
<1>1. PICK n : n = Registry!Destination(r)
  OBVIOUS
<1>2. PICK i : i = Registry!Entry(r)
  OBVIOUS
<1>3. PICK e : e = Registry!AfterFile(r, i)
  OBVIOUS
<1>4. /\ r.pc = "write" /\ Registry!Set(c, e)
      /\ \/ files[n][i[1]] = c /\ Registry!Put(c, n, i[1], i[2])
         \/ /\ files[n][i[1]] # c
            /\ UNCHANGED <<registry, deployment, service, pods, files, starts, held, got, stored,
                           undone, overlapped>>
  BY <1>1, <1>2, <1>3
     DEF Registry!WriteFile, Registry!At, Registry!objects, Registry!history
<1>5. /\ r \in Registry!Proc /\ Shape(r) /\ Named(r, files) /\ Seen(r, files, held[c])
      /\ GotAll(r, got[c])
      /\ Brought(r, held[c], got[c], undone[c]) /\ Writes(c, r, files, undone[c])
  BY Working
<1> HIDE DEF r
<1>6. r.job.op = "import" /\ r.next \in DOMAIN r.job.bundles /\ r.todo # {} /\ r.left # {}
  BY <1>4, <1>5 DEF Shape
<1>7. n \in Node /\ i \in r.todo /\ i[1] \in Registry!Name /\ i[2] \in Content
  BY <1>1, <1>2, <1>5, <1>6, TargetIn, EntryIn
<1>8. e \in Registry!Proc /\ FileDone(r, i, e)
  BY <1>3, <1>5, <1>6, <1>7, AfterFileFacts
<1>9. e.job = r.job /\ e.pc \in {"bundle", "ok", "extract"}
  BY <1>8 DEF FileDone, BundleDone
<1>10. \A m \in Node, k \in Registry!Name : files[m][k] \in Content => <<m, k, files[m][k]>> \in held[c]
  BY <1>4, <1>5 DEF Seen, Registry!Ended
<1>11. CASE files[n][i[1]] = c /\ Registry!Put(c, n, i[1], i[2])
  <2>10. PICK m : m = i[1]
    OBVIOUS
  <2>1. PICK f \in {c} \cup Content : f = i[2]
    BY <1>7
  <2>11. m \in Registry!Name /\ f \in Content /\ (m \in Content => f = m) /\ files[n][m] = c
    BY <1>5, <1>7, <1>11, <2>1, <2>10 DEF Named
  <2>2. Registry!Put(c, n, m, f)
    BY <1>11, <2>1, <2>10
  <2>3. /\ held[c] \subseteq held'[c] /\ undone[c] \subseteq undone'[c] /\ got' = got
        /\ proc[c].pc \notin Registry!Ended => <<n, m, f>> \in held'[c]
        /\ files'[n][m] = f
        /\ \A o \in Node, k \in Registry!Name : <<o, k>> # <<n, m>> => files'[o][k] = files[o][k]
    <3>1. Wrote(c, n, m, f)
      BY <1>7, <2>1, <2>2, <2>11, PutFacts
    <3> QED
      BY <2>11, <3>1 DEF Wrote
  <2>4. <<n, m, f>> \in held'[c]
    BY <1>4, <2>3 DEF r, Registry!Ended
  <2>5. \A o \in Node, k \in Registry!Name : files'[o][k] \in Content => <<o, k, files'[o][k]>> \in held'[c]
    <3> SUFFICES ASSUME NEW o \in Node, NEW k \in Registry!Name, files'[o][k] \in Content
                 PROVE  <<o, k, files'[o][k]>> \in held'[c]
      OBVIOUS
    <3>1. CASE <<o, k>> = <<n, m>>
      BY <2>3, <2>4, <3>1
    <3>2. CASE <<o, k>> # <<n, m>>
      BY <1>10, <2>3, <3>2
    <3> QED
      BY <3>1, <3>2
  <2>6. GotAll(r, got'[c]) /\ Brought(r, held'[c], got'[c], undone'[c])
    BY <1>5, <2>3 DEF Brought, Reached
  <2>7. Reached(r, Registry!Destination(r), i, held'[c], undone'[c])
    BY <1>1, <2>1, <2>4, <2>10 DEF Reached, r
  <2>12. Named(r, files')
    <3>1. ASSUME NEW o \in Node, NEW x \in Content, files'[o][x] \in Content  PROVE files'[o][x] = x
      <4>1. x \in Registry!Name
        BY Kinds
      <4>2. CASE <<o, x>> = <<n, m>>
        BY <2>3, <2>11, <4>2
      <4>3. CASE <<o, x>> # <<n, m>>
        BY <1>5, <2>3, <3>1, <4>1, <4>3 DEF Named
      <4> QED
        BY <4>2, <4>3
    <3> QED
      BY <1>5, <3>1 DEF Named
  <2>8. Sound(c, e, files', held'[c], got'[c], stored'[c], undone'[c])
    BY <1>4, <1>5, <1>7, <1>8, <2>5, <2>6, <2>7, <2>12, FileDoneSound
  <2>9. RegistryInv'
    BY <1>4, <1>7, <1>8, <1>9, <2>2, <2>8, <2>11, PutKeeps DEF r, Registry!Ended
  <2> QED
    BY <2>3, <2>9
<1>12. CASE /\ files[n][i[1]] # c
            /\ UNCHANGED <<registry, deployment, service, pods, files, starts, held, got, stored,
                           undone, overlapped>>
  <2>1. Reached(r, Registry!Destination(r), i, held[c], undone[c])
    BY <1>1, <1>2, <1>4, <1>5, <1>12 DEF Writes, Reached, r
  <2>2. Sound(c, e, files, held[c], got[c], stored[c], undone[c])
    BY <1>4, <1>5, <1>7, <1>8, <1>10, <2>1, FileDoneSound
  <2>3. Registry!Step(c, e)
    BY <1>4, <1>12 DEF Registry!Step, Registry!objects, Registry!history
  <2> QED
    BY <1>4, <1>8, <1>9, <2>2, <2>3, OnlyGoesOn DEF r, Registry!Ended
<1> QED
  BY <1>4, <1>11, <1>12

-----------------------------------------------------------------------------
(* The steps of a delete, a deploy and the cluster *)

LEMMA WipePodKeeps ==
  ASSUME RegistryInv, NEW c \in Command, Registry!WipePod(c)
  PROVE  RegistryInv' /\ UNCHANGED got
<1> DEFINE r == proc[c]
<1>1. PICK p : p = Registry!First(r.left)
  OBVIOUS
<1>2. PICK rest : rest = r.left \ {p}
  OBVIOUS
<1>3. PICK e : e = Registry!AfterPods(r, rest)
  OBVIOUS
<1>4. PICK n : n = NodeOf[p]
  OBVIOUS
<1>5. /\ r.pc = "wipe" /\ Registry!Set(c, e) /\ Registry!Undo(c, n, Registry!Name)
      /\ files' = [files EXCEPT ![n] = [m \in Registry!Name |-> None]]
      /\ UNCHANGED <<registry, deployment, service, pods, starts, held, got, stored, overlapped>>
  BY <1>1, <1>2, <1>3, <1>4 DEF Registry!WipePod, Registry!At, Registry!objects
<1>6. /\ r \in Registry!Proc /\ Shape(r) /\ Named(r, files) /\ Seen(r, files, held[c])
      /\ GotAll(r, got[c]) /\ Brought(r, held[c], got[c], undone[c]) /\ Wiped(r, files, stored[c])
  BY Working
<1> HIDE DEF r
<1>7. r.job.op = "delete" /\ r.left # {} /\ r.left \subseteq r.targets
  BY <1>5, <1>6 DEF Shape
<1>8. p \in r.left /\ p \in Pod /\ rest \in SUBSET Pod
  BY <1>1, <1>2, <1>6, <1>7, FirstIn DEF Registry!Proc
<1>9. NodeOf \in [Pod -> Node] /\ n \in Node
  BY <1>4, <1>8, RegistryConstantsHold DEF Registry!RegistryConstants
<1>10. e \in Registry!Proc /\ PodsLeft(r, rest, e)
  BY <1>3, <1>6, <1>8, AfterPodsFacts
<1>11. /\ e.job = r.job /\ e.targets = r.targets /\ e.left = rest
       /\ \/ rest # {} /\ e.pc = "wipe"
          \/ rest = {} /\ e.pc = "undeploy"
  BY <1>7, <1>10 DEF PodsLeft
<1>12. /\ files' \in [Node -> [Registry!Name -> Registry!File]] /\ \A m \in Registry!Name : files'[n][m] = None
       /\ \A m \in Node \ {n} : files'[m] = files[m]
  BY <1>5, <1>9 DEF RegistryInv, Registry!RegistryTypeOK, Registry!File
<1>13. /\ undone' \in [Command -> SUBSET (Node \X Registry!Name)]
       /\ \A d \in Command : undone[d] \subseteq undone'[d]
       /\ \A d \in Command \ {c}, m \in Registry!Name : files[n][m] = d => <<n, m>> \in undone'[d]
  BY <1>5, <1>9, UndoFacts
<1>14. Shape(e)
  BY <1>2, <1>7, <1>11 DEF Shape
<1>15. Wiped(e, files', stored'[c])
  <2> SUFFICES ASSUME NEW q \in r.targets, e.pc = "wipe" => q \notin e.left, NodeOf[q] \notin stored[c],
                      NEW m \in Registry!Name
               PROVE  files'[NodeOf[q]][m] = None
    BY <1>5, <1>11 DEF Wiped
  <2>1. NodeOf[q] \in Node
    BY <1>6, <1>9 DEF Registry!Proc
  <2>2. q = p \/ q \notin r.left
    BY <1>2, <1>11
  <2>3. CASE q = p
    BY <1>4, <1>12, <2>3
  <2>4. CASE q \notin r.left
    <3>1. files[NodeOf[q]][m] = None
      BY <1>5, <1>6, <1>7, <2>4 DEF Wiped
    <3> QED
      BY <1>12, <2>1, <3>1
  <2> QED
    BY <2>2, <2>3, <2>4
<1>16. \A o \in Node, m \in Registry!Name : files'[o][m] \in Content => files'[o][m] = files[o][m]
  BY <1>12, Kinds
<1>17. Seen(e, files', held'[c])
  BY <1>5, <1>6, <1>11, <1>16 DEF Seen, Registry!Ended
<1>26. \A o \in Node, x \in Content : files'[o][x] \in Content => files'[o][x] = x
  BY <1>6, <1>16, Kinds DEF Named
<1>27. Named(e, files')
  BY <1>6, <1>10, <1>11, <1>26 DEF Named, PodsLeft
<1>18. Writes(c, e, files', undone'[c]) /\ GotAll(e, got'[c])
  BY <1>7, <1>11 DEF Writes, GotAll
<1>19. Brought(e, held'[c], got'[c], undone'[c])
  BY <1>5, <1>6, <1>11, <1>13 DEF Brought, Reached
<1>20. Sound(c, e, files', held'[c], got'[c], stored'[c], undone'[c])
  BY <1>14, <1>15, <1>17, <1>18, <1>19, <1>27 DEF Sound
<1>21. proc' \in [Command -> Registry!Proc] /\ \A d \in Command \ {c} : proc'[d] = proc[d]
  BY <1>5, <1>10, OneCommand
<1>22. ASSUME NEW d \in Command \ {c}  PROVE Undisturbed(d)
  <2>1. ASSUME NEW o \in Node, NEW m \in Registry!Name
        PROVE  /\ files[o][m] = None => files'[o][m] = None \/ o \in stored'[d]
               /\ files[o][m] = d => files'[o][m] = d \/ <<o, m>> \in undone'[d]
               /\ proc[d].pc \notin Registry!Ended /\ files'[o][m] \in Content =>
                    <<o, m, files'[o][m]>> \in held'[d]
    <3>1. proc[d].pc \notin Registry!Ended /\ files[o][m] \in Content => <<o, m, files[o][m]>> \in held'[d]
      BY <1>5, Working DEF Seen
    <3> QED
      BY <1>12, <1>13, <1>16, <3>1
  <2> QED
    BY <1>5, <1>13, <1>21, <1>26, <2>1 DEF Undisturbed
<1>23. TypedState'
  BY <1>5, <1>12, <1>13, TypedIs DEF RegistryInv, TypedState
<1>24. Sequenced' /\ Resumable'
  BY <1>5, <1>10, <1>11, KeepsSequence DEF r, Registry!Ended
<1>25. RegistryInv'
  BY <1>5, <1>10, <1>20, <1>22, <1>23, <1>24, CommandStep
<1> QED
  BY <1>5, <1>25

\* A step of a deploy or a delete that changes an object: command c goes on to pc.
LEMMA ObjectStep ==
  ASSUME RegistryInv, NEW c \in Command, NEW pc \in {"expose", "wait", "unexpose", "remove", "ok"},
         Registry!Set(c, [proc[c] EXCEPT !.pc = pc]),
         \/ proc[c].pc \in {"apply", "expose"} /\ pc \in {"expose", "wait"}
         \/ proc[c].pc \in {"undeploy", "unexpose", "remove"} /\ pc \in {"unexpose", "remove", "ok"},
         UNCHANGED <<pods, files, starts, held, got, stored, undone, overlapped>>,
         registry' \in BOOLEAN, deployment' \in {"none", "live", "deleting"}, service' \in BOOLEAN,
         ~overlapped => Resumable',
         ~overlapped => \A d \in Command :
           /\ proc'[d].pc \in {"apply", "expose", "wait"} => registry'
           /\ proc'[d].pc \in {"unexpose", "remove"} => deployment' # "live"
           /\ proc'[d].pc = "remove" => ~service'
  PROVE  RegistryInv' /\ UNCHANGED got
<1> DEFINE r == proc[c]
<1>1. PICK e : e = [r EXCEPT !.pc = pc]
  OBVIOUS
<1>2. Registry!Set(c, e)
  BY <1>1
<1>3. /\ r \in Registry!Proc /\ Shape(r) /\ Named(r, files) /\ Seen(r, files, held[c])
      /\ GotAll(r, got[c]) /\ Brought(r, held[c], got[c], undone[c]) /\ Wiped(r, files, stored[c])
  BY Working
<1>4. e \in Registry!Proc
  BY <1>1, <1>3 DEF Registry!Proc, Registry!PC
<1>5. e.pc = pc /\ e.job = r.job /\ e.left = r.left /\ e.targets = r.targets /\ e.todo = r.todo
  BY <1>1, <1>3 DEF Registry!Proc
<1>6. /\ proc' \in [Command -> Registry!Proc] /\ proc'[c] = e
      /\ \A d \in Command \ {c} : proc'[d] = proc[d]
  BY <1>2, <1>4, OneCommand
<1>7. r.pc \notin Registry!Ended
  BY DEF Registry!Ended
<1>8. Sound(c, e, files, held[c], got[c], stored[c], undone[c])
  <2>1. r.pc \in {"apply", "expose"} => r.job.op = "deploy"
    BY <1>3 DEF Shape
  <2>2. r.pc \in {"undeploy", "unexpose", "remove"} => r.job.op = "delete" /\ r.left = {}
    BY <1>3 DEF Shape
  <2>3. Shape(e)
    BY <1>3, <1>5, <2>1, <2>2 DEF Shape
  <2>4. Wiped(e, files, stored[c])
    BY <1>3, <1>5, <2>1, <2>2 DEF Wiped
  <2>5. GotAll(e, got[c])
    BY <1>5, <2>1, <2>2 DEF GotAll
  <2>6. \A n \in Node, m \in Registry!Name : files[n][m] \in Content => <<n, m, files[n][m]>> \in held[c]
    BY <1>3, <1>7 DEF Seen
  <2>7. r.pc \notin {"extract", "open", "write"} /\ e.pc \notin {"open", "write"}
    BY <1>5
  <2> HIDE DEF r
  <2> QED
    BY <1>3, <1>4, <1>5, <2>3, <2>4, <2>5, <2>6, <2>7, PlainlySound
<1>9. Sequenced'
  <2>1. SUFFICES ASSUME ~overlapped  PROVE Sequenced'
    BY DEF Sequenced
  <2>2. ASSUME NEW b \in Command, NEW d \in Command, proc'[b].pc \notin Registry!Ended,
               proc'[b].job.op = "delete", proc'[d].job.op = "deploy"
        PROVE  proc'[d].pc \in Registry!Ended
    <3>1. proc[b].pc \notin Registry!Ended /\ proc[b].job.op = "delete" /\ proc[d].job.op = "deploy"
      BY <1>5, <1>6, <1>7, <2>2
    <3>2. proc[d].pc \in Registry!Ended
      BY <2>1, <3>1 DEF RegistryInv, Sequenced
    <3> QED
      BY <1>6, <1>7, <3>2
  <2> QED
    BY <2>1, <2>2 DEF Sequenced
<1>10. Resumable'
  BY DEF Resumable, Registry!Resumable
<1>11. TypedState'
  BY TypedIs DEF RegistryInv, TypedState
<1>12. \A d \in Command \ {c} : Undisturbed(d)
  BY <1>6, FilesKept
<1>13. RegistryInv'
  BY <1>2, <1>4, <1>8, <1>9, <1>10, <1>11, <1>12, CommandStep
<1> QED
  BY <1>13

\* While no deploy met a delete: what there is when a command of either is at work.
LEMMA Sequence ==
  ASSUME RegistryInv, ~overlapped
  PROVE  /\ \A c, d \in Command :
              proc[c].pc \in {"undeploy", "unexpose", "remove"} =>
                proc[d].pc \notin {"apply", "expose", "wait"}
         /\ \A c \in Command :
              /\ proc[c].pc \in {"apply", "expose", "wait"} => registry
              /\ proc[c].pc \in {"unexpose", "remove"} => deployment # "live"
              /\ proc[c].pc = "remove" => ~service
<1>1. \A c \in Command :
        /\ proc[c].pc \in {"undeploy", "unexpose", "remove"} =>
             proc[c].job.op = "delete" /\ proc[c].pc \notin Registry!Ended
        /\ proc[c].pc \in {"apply", "expose", "wait"} =>
             proc[c].job.op = "deploy" /\ proc[c].pc \notin Registry!Ended
  BY Working DEF Shape, Registry!Ended
<1> QED
  BY <1>1 DEF RegistryInv, Sequenced

LEMMA ObjectsTyped ==
  ASSUME RegistryInv
  PROVE  /\ registry \in BOOLEAN /\ deployment \in {"none", "live", "deleting"} /\ service \in BOOLEAN
         /\ (~registry /\ ~overlapped => deployment # "live" /\ ~service)
         /\ \A c \in Command : proc[c] \in Registry!Proc
  BY DEF RegistryInv, Registry!RegistryTypeOK, Resumable, Registry!Resumable

LEMMA ApplyDeploymentKeeps ==
  ASSUME RegistryInv, NEW c \in Command, Registry!ApplyDeployment(c)
  PROVE  RegistryInv' /\ UNCHANGED got
<1>1. PICK pc \in {"expose", "wait", "unexpose", "remove", "ok"} : pc = "expose"
  OBVIOUS
<1>2. /\ proc[c].pc = "apply" /\ Registry!Set(c, [proc[c] EXCEPT !.pc = pc])
      /\ deployment' = IF deployment = "none" THEN "live" ELSE deployment
      /\ UNCHANGED <<registry, service, pods, files, starts, held, got, stored, undone, overlapped>>
  BY <1>1 DEF Registry!ApplyDeployment, Registry!At, Registry!history
<1>3. proc'[c].pc = "expose" /\ \A d \in Command \ {c} : proc'[d] = proc[d]
  BY <1>1, <1>2, ObjectsTyped DEF Registry!Set, Registry!Proc, RegistryInv, Registry!RegistryTypeOK
<1>4. ASSUME ~overlapped
      PROVE  registry /\ \A d \in Command : proc'[d].pc \notin {"undeploy", "unexpose", "remove"}
  BY <1>2, <1>3, <1>4, Sequence
<1>5. ~overlapped => Resumable'
  BY <1>2, <1>4 DEF Resumable, Registry!Resumable
<1> QED
  BY <1>1, <1>2, <1>4, <1>5, ObjectsTyped, ObjectStep

LEMMA ApplyServiceKeeps ==
  ASSUME RegistryInv, NEW c \in Command, Registry!ApplyService(c)
  PROVE  RegistryInv' /\ UNCHANGED got
<1>1. PICK pc \in {"expose", "wait", "unexpose", "remove", "ok"} : pc = "wait"
  OBVIOUS
<1>2. /\ proc[c].pc = "expose" /\ Registry!Set(c, [proc[c] EXCEPT !.pc = pc]) /\ service' = TRUE
      /\ UNCHANGED <<registry, deployment, pods, files, starts, held, got, stored, undone, overlapped>>
  BY <1>1 DEF Registry!ApplyService, Registry!At, Registry!history
<1>3. proc'[c].pc = "wait" /\ \A d \in Command \ {c} : proc'[d] = proc[d]
  BY <1>1, <1>2, ObjectsTyped DEF Registry!Set, Registry!Proc, RegistryInv, Registry!RegistryTypeOK
<1>4. ASSUME ~overlapped
      PROVE  registry /\ \A d \in Command : proc'[d].pc \notin {"undeploy", "unexpose", "remove"}
  BY <1>2, <1>3, <1>4, Sequence
<1>5. ~overlapped => Resumable'
  BY <1>2, <1>4 DEF Resumable, Registry!Resumable
<1> QED
  BY <1>1, <1>2, <1>4, <1>5, ObjectsTyped, ObjectStep

LEMMA DeleteDeploymentKeeps ==
  ASSUME RegistryInv, NEW c \in Command, Registry!DeleteDeployment(c)
  PROVE  RegistryInv' /\ UNCHANGED got
<1>1. PICK pc \in {"expose", "wait", "unexpose", "remove", "ok"} : pc = "unexpose"
  OBVIOUS
<1>2. /\ proc[c].pc = "undeploy" /\ Registry!Set(c, [proc[c] EXCEPT !.pc = pc])
      /\ deployment' = IF deployment = "live" THEN "deleting" ELSE deployment
      /\ UNCHANGED <<registry, service, pods, files, starts, held, got, stored, undone, overlapped>>
  BY <1>1 DEF Registry!DeleteDeployment, Registry!At, Registry!history
<1>3. proc'[c].pc = "unexpose" /\ \A d \in Command \ {c} : proc'[d] = proc[d]
  BY <1>1, <1>2, ObjectsTyped DEF Registry!Set, Registry!Proc, RegistryInv, Registry!RegistryTypeOK
<1>4. deployment' # "live" /\ deployment' \in {"none", "live", "deleting"}
  BY <1>2, ObjectsTyped
<1>5. ~overlapped => Resumable'
  BY <1>2, <1>4, ObjectsTyped DEF Resumable, Registry!Resumable
<1>6. ~overlapped => \A d \in Command :
        /\ proc'[d].pc \in {"apply", "expose", "wait"} => registry'
        /\ proc'[d].pc = "remove" => ~service'
  BY <1>2, <1>3, Sequence
<1> QED
  BY <1>1, <1>2, <1>4, <1>5, <1>6, ObjectsTyped, ObjectStep

LEMMA DeleteServiceKeeps ==
  ASSUME RegistryInv, NEW c \in Command, Registry!DeleteService(c)
  PROVE  RegistryInv' /\ UNCHANGED got
<1>1. PICK pc \in {"expose", "wait", "unexpose", "remove", "ok"} : pc = "remove"
  OBVIOUS
<1>2. /\ proc[c].pc = "unexpose" /\ Registry!Set(c, [proc[c] EXCEPT !.pc = pc]) /\ service' = FALSE
      /\ UNCHANGED <<registry, deployment, pods, files, starts, held, got, stored, undone, overlapped>>
  BY <1>1 DEF Registry!DeleteService, Registry!At, Registry!history
<1>3. proc'[c].pc = "remove" /\ \A d \in Command \ {c} : proc'[d] = proc[d]
  BY <1>1, <1>2, ObjectsTyped DEF Registry!Set, Registry!Proc, RegistryInv, Registry!RegistryTypeOK
<1>4. ~overlapped => Resumable'
  BY <1>2, ObjectsTyped DEF Resumable, Registry!Resumable
<1>5. ~overlapped => \A d \in Command :
        /\ proc'[d].pc \in {"apply", "expose", "wait"} => registry'
        /\ proc'[d].pc \in {"unexpose", "remove"} => deployment' # "live"
  BY <1>2, <1>3, Sequence
<1> QED
  BY <1>1, <1>2, <1>4, <1>5, ObjectsTyped, ObjectStep

LEMMA DeleteRegistryKeeps ==
  ASSUME RegistryInv, NEW c \in Command, Registry!DeleteRegistry(c)
  PROVE  RegistryInv' /\ UNCHANGED got
<1>1. PICK pc \in {"expose", "wait", "unexpose", "remove", "ok"} : pc = "ok"
  OBVIOUS
<1>2. /\ proc[c].pc = "remove" /\ Registry!Set(c, [proc[c] EXCEPT !.pc = pc]) /\ registry' = FALSE
      /\ UNCHANGED <<deployment, service, pods, files, starts, held, got, stored, undone, overlapped>>
  BY <1>1 DEF Registry!DeleteRegistry, Registry!At, Registry!history
<1>3. proc'[c].pc = "ok" /\ \A d \in Command \ {c} : proc'[d] = proc[d]
  BY <1>1, <1>2, ObjectsTyped DEF Registry!Set, Registry!Proc, RegistryInv, Registry!RegistryTypeOK
<1>4. ASSUME ~overlapped
      PROVE  /\ deployment # "live" /\ ~service
             /\ \A d \in Command : proc'[d].pc \notin {"apply", "expose", "wait"}
  BY <1>2, <1>3, <1>4, Sequence
<1>5. ~overlapped => Resumable'
  BY <1>2, <1>4 DEF Resumable, Registry!Resumable
<1> QED
  BY <1>1, <1>2, <1>4, <1>5, ObjectsTyped, ObjectStep

LEMMA StoppedIs ==
  /\ Registry!Stopped \in Registry!Proc /\ Registry!Stopped.pc = "error"
  /\ Registry!Stopped.left = {} /\ Registry!Stopped.targets = {} /\ Registry!Stopped.todo = {}
<1>1. (CHOOSE j \in Jobs : TRUE) \in Jobs
  BY RegistryConstantsHold DEF Registry!RegistryConstants
<1> QED
  BY <1>1 DEF Registry!Stopped, Registry!Proc, Registry!PC

LEMMA StartKeeps ==
  ASSUME RegistryInv, NEW c \in Command, jobs \subseteq Jobs, Registry!Start(c, jobs)
  PROVE  /\ RegistryInv' /\ got'[c] = {} /\ proc'[c] # proc[c]
         /\ \A d \in Command \ {c} : got'[d] = got[d] /\ proc'[d] = proc[d]
<1>1. PICK j \in jobs :
        /\ Registry!Set(c, [Registry!Stopped EXCEPT !.pc = "get", !.job = j])
        /\ overlapped' = (overlapped \/ \E d \in Command \ {c} :
             proc[d].pc \notin Registry!Ended /\ {j.op, proc[d].job.op} = {"deploy", "delete"})
  BY DEF Registry!Start
<1>2. PICK e : e = [Registry!Stopped EXCEPT !.pc = "get", !.job = j]
  OBVIOUS
<1>3. e \in Registry!Proc
  BY <1>2, StoppedIs DEF Registry!Proc, Registry!PC
<1>4. e.pc = "get" /\ e.job = j /\ e.left = {} /\ e.targets = {} /\ e.todo = {}
  BY <1>2, StoppedIs DEF Registry!Proc
<1>5. Registry!Set(c, e)
  BY <1>1, <1>2
<1>6. /\ proc' \in [Command -> Registry!Proc] /\ proc'[c] = e
      /\ \A d \in Command \ {c} : proc'[d] = proc[d]
  BY <1>3, <1>5, OneCommand
<1>7. PICK whole : whole = {<<x[1], x[2], files[x[1]][x[2]]>> :
                              x \in {y \in Node \X Registry!Name : files[y[1]][y[2]] \in Content}}
  OBVIOUS
<1>18. whole \in SUBSET (Node \X Registry!Name \X Content)
  BY <1>7
<1>19. \A n \in Node, m \in Registry!Name : files[n][m] \in Content => <<n, m, files[n][m]>> \in whole
  <2> SUFFICES ASSUME NEW n \in Node, NEW m \in Registry!Name, files[n][m] \in Content
               PROVE  <<n, m, files[n][m]>> \in whole
    OBVIOUS
  <2>1. PICK x : x = <<n, m>>
    OBVIOUS
  <2>2. x \in {y \in Node \X Registry!Name : files[y[1]][y[2]] \in Content} /\ x[1] = n /\ x[2] = m
    BY <2>1
  <2> QED
    BY <1>7, <2>2
<1>8. /\ proc[c].pc \in Registry!Ended /\ starts < MaxStart /\ starts' = starts + 1
      /\ held' = [held EXCEPT ![c] = whole] /\ got' = [got EXCEPT ![c] = {}]
      /\ stored' = [stored EXCEPT ![c] = {}] /\ undone' = [undone EXCEPT ![c] = {}]
      /\ UNCHANGED <<registry, deployment, service, pods, files>>
  BY <1>7 DEF Registry!Start, Registry!objects
<1>9. TypedState
  BY TypedIs DEF RegistryInv
<1>10. /\ held'[c] = whole /\ got'[c] = {} /\ stored'[c] = {} /\ undone'[c] = {}
       /\ \A d \in Command \ {c} : /\ held'[d] = held[d] /\ got'[d] = got[d] /\ stored'[d] = stored[d]
                                   /\ undone'[d] = undone[d]
  BY <1>8, <1>9 DEF TypedState
<1>11. TypedState'
  <2>1. starts' \in 0 .. MaxStart
    BY <1>8, <1>9, RegistryConstantsHold DEF TypedState, Registry!RegistryConstants
  <2>2. overlapped' \in BOOLEAN
    BY <1>1, <1>9 DEF TypedState
  <2>3. /\ held' \in [Command -> SUBSET (Node \X Registry!Name \X Content)]
        /\ got' \in [Command -> SUBSET (Node \X App \X SUBSET (Registry!Name \X Content))]
        /\ stored' \in [Command -> SUBSET Node] /\ undone' \in [Command -> SUBSET (Node \X Registry!Name)]
    BY <1>8, <1>9, <1>18 DEF TypedState
  <2> QED
    BY <1>8, <1>9, <2>1, <2>2, <2>3 DEF TypedState
<1>12. Sound(c, e, files', held'[c], got'[c], stored'[c], undone'[c])
  <2>1. Shape(e) /\ Wiped(e, files', stored'[c]) /\ Writes(c, e, files', undone'[c]) /\ GotAll(e, got'[c])
    BY <1>4 DEF Shape, Wiped, Writes, GotAll
  <2>2. Seen(e, files', held'[c])
    BY <1>4, <1>8, <1>10, <1>19 DEF Seen
  <2>4. Named(e, files')
    BY <1>4, <1>8, Working DEF Named
  <2>3. Brought(e, held'[c], got'[c], undone'[c])
    BY <1>10 DEF Brought
  <2> QED
    BY <2>1, <2>2, <2>3, <2>4 DEF Sound
<1>13. ASSUME NEW d \in Command \ {c}  PROVE Undisturbed(d)
  <2>1. /\ \A n \in Node, m \in Registry!Name :
             proc[d].pc \notin Registry!Ended /\ files[n][m] \in Content => <<n, m, files[n][m]>> \in held[d]
        /\ \A n \in Node, x \in Content : files[n][x] \in Content => files[n][x] = x
    BY Working DEF Seen, Named
  <2> QED
    BY <1>6, <1>8, <1>10, <2>1 DEF Undisturbed
<1>14. Resumable'
  BY <1>1, <1>8 DEF RegistryInv, Resumable, Registry!Resumable
<1>15. Sequenced'
  <2>1. SUFFICES ASSUME ~overlapped'  PROVE Sequenced'
    BY DEF Sequenced
  <2>2. ~overlapped /\ \A d \in Command \ {c} :
          proc[d].pc \notin Registry!Ended => {j.op, proc[d].job.op} # {"deploy", "delete"}
    BY <1>1, <2>1
  <2>3. ASSUME NEW b \in Command, NEW d \in Command, proc'[b].pc \notin Registry!Ended,
               proc'[b].job.op = "delete", proc'[d].job.op = "deploy"
        PROVE  proc'[d].pc \in Registry!Ended
    <3>1. CASE b = c
      <4>1. d # c /\ proc'[d] = proc[d] /\ j.op = "delete"
        BY <1>4, <1>6, <2>3, <3>1
      <4>2. proc[d].pc \notin Registry!Ended => {"delete", "deploy"} # {"deploy", "delete"}
        BY <2>2, <2>3, <4>1
      <4> QED
        BY <4>1, <4>2
    <3>2. CASE d = c
      <4>1. b # c /\ proc'[b] = proc[b] /\ j.op = "deploy"
        BY <1>4, <1>6, <2>3, <3>2
      <4>2. proc[b].pc \notin Registry!Ended => {"deploy", "delete"} # {"deploy", "delete"}
        BY <2>2, <2>3, <4>1
      <4> QED
        BY <2>3, <4>1, <4>2
    <3>3. CASE b # c /\ d # c
      BY <1>6, <2>2, <2>3, <3>3 DEF RegistryInv, Sequenced
    <3> QED
      BY <3>1, <3>2, <3>3
  <2>4. ASSUME NEW d \in Command
        PROVE  /\ proc'[d].pc \in {"apply", "expose", "wait"} => registry'
               /\ proc'[d].pc \in {"unexpose", "remove"} => deployment' # "live"
               /\ proc'[d].pc = "remove" => ~service'
    BY <1>4, <1>6, <1>8, <2>2 DEF RegistryInv, Sequenced
  <2> QED
    BY <2>1, <2>3, <2>4 DEF Sequenced
<1>16. RegistryInv'
  BY <1>3, <1>5, <1>11, <1>12, <1>13, <1>14, <1>15, CommandStep
<1>17. proc'[c] # proc[c]
  BY <1>4, <1>6, <1>8 DEF Registry!Ended
<1> QED
  BY <1>6, <1>10, <1>16, <1>17

LEMMA CommandFailsKeeps ==
  ASSUME RegistryInv, NEW c \in Command, Registry!CommandFails(c)
  PROVE  /\ RegistryInv' /\ got'[c] = {} /\ \A d \in Command \ {c} : got'[d] = got[d]
<1>1. PICK e : e = Registry!Stopped
  OBVIOUS
<1>2. e \in Registry!Proc /\ e.pc = "error" /\ e.left = {} /\ e.targets = {} /\ e.todo = {}
  BY <1>1, StoppedIs
<1>3. /\ proc[c].pc \notin Registry!Ended /\ Registry!Set(c, e)
      /\ files' = [n \in Node |-> [m \in Registry!Name |-> IF files[n][m] = c THEN Part ELSE files[n][m]]]
      /\ held' = [held EXCEPT ![c] = {}] /\ got' = [got EXCEPT ![c] = {}]
      /\ stored' = [stored EXCEPT ![c] = {}] /\ undone' = [undone EXCEPT ![c] = {}]
      /\ UNCHANGED <<registry, deployment, service, pods, starts, overlapped>>
  BY <1>1 DEF Registry!CommandFails, Registry!objects
<1>4. /\ proc' \in [Command -> Registry!Proc] /\ proc'[c] = e
      /\ \A d \in Command \ {c} : proc'[d] = proc[d]
  BY <1>2, <1>3, OneCommand
<1>5. TypedState
  BY TypedIs DEF RegistryInv
<1>6. /\ held'[c] = {} /\ got'[c] = {} /\ stored'[c] = {} /\ undone'[c] = {}
      /\ \A d \in Command \ {c} : /\ held'[d] = held[d] /\ got'[d] = got[d] /\ stored'[d] = stored[d]
                                  /\ undone'[d] = undone[d]
  BY <1>3, <1>5 DEF TypedState
<1>7. files' \in [Node -> [Registry!Name -> Registry!File]]
  BY <1>3, <1>5 DEF TypedState, Registry!File
<1>8. TypedState'
  <2>1. /\ held' \in [Command -> SUBSET (Node \X Registry!Name \X Content)]
        /\ got' \in [Command -> SUBSET (Node \X App \X SUBSET (Registry!Name \X Content))]
        /\ stored' \in [Command -> SUBSET Node] /\ undone' \in [Command -> SUBSET (Node \X Registry!Name)]
    BY <1>3, <1>5 DEF TypedState
  <2> QED
    BY <1>3, <1>5, <1>7, <2>1 DEF TypedState
<1>14. \A n \in Node, x \in Content : files'[n][x] \in Content => files'[n][x] = x
  <2> SUFFICES ASSUME NEW n \in Node, NEW x \in Content, files'[n][x] \in Content
               PROVE  files'[n][x] = x
    OBVIOUS
  <2>1. x \in Registry!Name /\ Part \notin Content
    BY Kinds
  <2>2. files'[n][x] = files[n][x]
    BY <1>3, <2>1
  <2> QED
    BY <2>2, Working DEF Named
<1>9. Sound(c, e, files', held'[c], got'[c], stored'[c], undone'[c])
  <2>1. Shape(e) /\ Wiped(e, files', stored'[c]) /\ Writes(c, e, files', undone'[c]) /\ GotAll(e, got'[c])
    BY <1>2 DEF Shape, Wiped, Writes, GotAll
  <2>2. Named(e, files') /\ Seen(e, files', held'[c]) /\ Brought(e, held'[c], got'[c], undone'[c])
    BY <1>2, <1>6, <1>14 DEF Named, Seen, Brought, Registry!Ended
  <2> QED
    BY <2>1, <2>2 DEF Sound
<1>10. ASSUME NEW d \in Command \ {c}  PROVE Undisturbed(d)
  <2>1. /\ \A n \in Node, m \in Registry!Name :
             proc[d].pc \notin Registry!Ended /\ files[n][m] \in Content => <<n, m, files[n][m]>> \in held[d]
        /\ \A n \in Node, x \in Content : files[n][x] \in Content => files[n][x] = x
    BY Working DEF Seen, Named
  <2>2. c # None /\ Part \notin Content
    BY Kinds
  <2>3. ASSUME NEW n \in Node, NEW m \in Registry!Name
        PROVE  /\ files[n][m] = None => files'[n][m] = None
               /\ files[n][m] = d => files'[n][m] = d
               /\ files'[n][m] \in Content => files'[n][m] = files[n][m]
    BY <1>3, <2>2
  <2>4. \A n \in Node, m \in Registry!Name : proc[d].pc \notin Registry!Ended /\ files'[n][m] \in Content =>
          <<n, m, files'[n][m]>> \in held'[d]
    BY <1>6, <2>1, <2>3
  <2> QED
    BY <1>4, <1>6, <1>14, <2>3, <2>4 DEF Undisturbed
<1>11. Resumable'
  BY <1>3 DEF RegistryInv, Resumable, Registry!Resumable
<1>12. Sequenced'
  <2>1. SUFFICES ASSUME ~overlapped  PROVE Sequenced'
    BY <1>3 DEF Sequenced
  <2>2. ASSUME NEW b \in Command, NEW d \in Command, proc'[b].pc \notin Registry!Ended,
               proc'[b].job.op = "delete", proc'[d].job.op = "deploy"
        PROVE  proc'[d].pc \in Registry!Ended
    <3>1. b # c /\ proc'[b] = proc[b]
      BY <1>2, <1>4, <2>2 DEF Registry!Ended
    <3>2. CASE d = c
      BY <1>2, <1>4, <3>2 DEF Registry!Ended
    <3>3. CASE d # c
      BY <1>4, <2>1, <2>2, <3>1, <3>3 DEF RegistryInv, Sequenced
    <3> QED
      BY <3>2, <3>3
  <2>3. ASSUME NEW d \in Command
        PROVE  /\ proc'[d].pc \in {"apply", "expose", "wait"} => registry'
               /\ proc'[d].pc \in {"unexpose", "remove"} => deployment' # "live"
               /\ proc'[d].pc = "remove" => ~service'
    BY <1>2, <1>3, <1>4, <2>1 DEF RegistryInv, Sequenced
  <2> QED
    BY <2>2, <2>3 DEF Sequenced
<1>13. RegistryInv'
  BY <1>2, <1>3, <1>8, <1>9, <1>10, <1>11, <1>12, CommandStep
<1> QED
  BY <1>6, <1>13

\* The cluster's own steps, on which no command's state depends.
LEMMA ClusterKeeps ==
  ASSUME RegistryInv,
         \/ Registry!DeploymentGone \/ Registry!ApplyRegistry
         \/ \E p \in Pod : Registry!MakePod(p) \/ Registry!RunPod(p) \/ Registry!StopPod(p)
  PROVE  RegistryInv' /\ UNCHANGED <<got, proc, starts>>
<1>1. /\ UNCHANGED <<files, proc, starts, held, got, stored, undone, overlapped, service>>
      /\ pods' \in [Pod -> Registry!Phase] /\ registry' \in BOOLEAN
      /\ deployment' \in {"none", "live", "deleting"}
      /\ (registry => registry') /\ (deployment # "live" => deployment' # "live")
      /\ (~registry' => registry' = registry)
  <2>1. CASE Registry!DeploymentGone \/ Registry!ApplyRegistry
    BY <2>1
       DEF Registry!DeploymentGone, Registry!ApplyRegistry, Registry!history, RegistryInv,
           Registry!RegistryTypeOK
  <2>2. ASSUME NEW p \in Pod, Registry!MakePod(p) \/ Registry!RunPod(p) \/ Registry!StopPod(p)
        PROVE  /\ UNCHANGED <<files, proc, starts, held, got, stored, undone, overlapped, service,
                              registry, deployment>>
               /\ pods' \in [Pod -> Registry!Phase]
    BY <2>2
       DEF Registry!MakePod, Registry!RunPod, Registry!StopPod, Registry!PodBecomes,
           Registry!history, Registry!Phase, RegistryInv, Registry!RegistryTypeOK
  <2> QED
    BY <2>1, <2>2 DEF RegistryInv, Registry!RegistryTypeOK
<1>2. TypedState' /\ proc' \in [Command -> Registry!Proc]
  BY <1>1, TypedIs DEF RegistryInv, TypedState
<1>3. Resumable'
  BY <1>1 DEF RegistryInv, Resumable, Registry!Resumable
<1>4. Sequenced'
  BY <1>1 DEF RegistryInv, Sequenced
<1>5. \A d \in Command : CommandSound(d)'
  <2> SUFFICES ASSUME NEW d \in Command  PROVE CommandSound(d)'
    OBVIOUS
  <2>1. Undisturbed(d)
    BY <1>1, FilesKept
  <2> QED
    BY <2>1, UndisturbedIsSound
<1>6. RegistryInv'
  BY <1>2, <1>3, <1>4, <1>5, Assembled
<1> QED
  BY <1>1, <1>6

LEMMA RegistryInvInit ==
  ASSUME NEW up \in BOOLEAN, Registry!RegistryInit(up)
  PROVE  RegistryInv /\ \A c \in Command : got[c] = {}
<1>1. /\ registry \in {TRUE, up} /\ deployment = (IF up THEN "live" ELSE "none") /\ service = up
      /\ pods = [p \in Pod |-> IF up THEN "running" ELSE "none"]
      /\ files = [n \in Node |-> [m \in Registry!Name |-> None]]
      /\ proc = [c \in Command |-> Registry!Stopped] /\ starts = 0 /\ overlapped = FALSE
      /\ held = [c \in Command |-> {}] /\ got = [c \in Command |-> {}]
      /\ stored = [c \in Command |-> {}] /\ undone = [c \in Command |-> {}]
  BY DEF Registry!RegistryInit
<1>2. proc \in [Command -> Registry!Proc] /\ \A c \in Command :
        proc[c].pc = "error" /\ proc[c].left = {} /\ proc[c].targets = {} /\ proc[c].todo = {}
  BY <1>1, StoppedIs
<1>3. pods \in [Pod -> Registry!Phase] /\ files \in [Node -> [Registry!Name -> Registry!File]]
  BY <1>1 DEF Registry!Phase, Registry!File
<1>4. /\ held \in [Command -> SUBSET (Node \X Registry!Name \X Content)]
      /\ got \in [Command -> SUBSET (Node \X App \X SUBSET (Registry!Name \X Content))]
      /\ stored \in [Command -> SUBSET Node] /\ undone \in [Command -> SUBSET (Node \X Registry!Name)]
  BY <1>1
<1>5. /\ registry \in BOOLEAN /\ deployment \in {"none", "live", "deleting"} /\ service \in BOOLEAN
      /\ starts \in 0 .. MaxStart /\ overlapped \in BOOLEAN
  <2>1. starts \in 0 .. MaxStart
    BY <1>1, RegistryConstantsHold DEF Registry!RegistryConstants
  <2>2. registry \in BOOLEAN
    BY <1>1
  <2>3. deployment \in {"none", "live", "deleting"}
    BY <1>1
  <2> QED
    BY <1>1, <2>1, <2>2, <2>3
<1>6. Registry!RegistryTypeOK
  BY <1>2, <1>3, <1>4, <1>5 DEF Registry!RegistryTypeOK
<1>7. Sequenced /\ Resumable
  BY <1>1, <1>2 DEF Sequenced, Resumable, Registry!Resumable, Registry!Ended
<1>8. ASSUME NEW c \in Command  PROVE CommandSound(c)
  <2> DEFINE r == proc[c]
  <2>1. r.pc = "error" /\ r.left = {} /\ r.targets = {} /\ r.todo = {} /\ got[c] = {}
    BY <1>1, <1>2
  <2>3. \A n \in Node, x \in Content : files[n][x] \in Content => files[n][x] = x
    BY <1>1, Kinds
  <2> HIDE DEF r
  <2>2. /\ Shape(r) /\ Wiped(r, files, stored[c]) /\ Named(r, files) /\ Seen(r, files, held[c])
        /\ Writes(c, r, files, undone[c]) /\ GotAll(r, got[c]) /\ Brought(r, held[c], got[c], undone[c])
    BY <2>1, <2>3 DEF Shape, Wiped, Named, Seen, Writes, GotAll, Brought, Registry!Ended
  <2> QED
    BY <2>2 DEF CommandSound, Sound, r
<1> QED
  BY <1>1, <1>6, <1>7, <1>8 DEF RegistryInv

\* What a step of command c gets of bundles, and whether it is the first.
Gets(c) ==
  /\ \A d \in Command \ {c} : got'[d] = got[d]
  /\ starts' # starts => /\ got'[c] = {} /\ proc'[c] # proc[c]
                         /\ \A d \in Command \ {c} : proc'[d] = proc[d]
  /\ \A t \in got'[c] :
       t \in got[c] \/ (t[2] \in App /\ kb[t[2]].file = "closed" /\ t[3] = Registry!Tar(t[2]))

\* Only Start starts a command.
LEMMA OthersStartNothing ==
  ASSUME NEW c \in Command,
         \/ Registry!GetRegistry(c) \/ Registry!ApplyDeployment(c) \/ Registry!ApplyService(c)
         \/ Registry!WaitForRunning(c) \/ Registry!ListPods(c) \/ Registry!GetBundle(c)
         \/ Registry!TarFile(c) \/ Registry!StatFile(c) \/ Registry!OpenFile(c) \/ Registry!WriteFile(c)
         \/ Registry!WipePod(c) \/ Registry!DeleteDeployment(c) \/ Registry!DeleteService(c)
         \/ Registry!DeleteRegistry(c) \/ Registry!CommandFails(c)
  PROVE  starts' = starts
<1>1. CASE \/ Registry!GetRegistry(c) \/ Registry!WaitForRunning(c) \/ Registry!ListPods(c)
           \/ Registry!StatFile(c)
  BY <1>1 DEF Registry!GetRegistry, Registry!WaitForRunning, Registry!ListPods, Registry!StatFile,
              Registry!Step
<1>2. CASE \/ Registry!TarFile(c) \/ Registry!OpenFile(c) \/ Registry!WriteFile(c)
  BY <1>2 DEF Registry!TarFile, Registry!OpenFile, Registry!WriteFile, Registry!Step, Registry!Put
<1>3. CASE \/ Registry!ApplyDeployment(c) \/ Registry!ApplyService(c) \/ Registry!GetBundle(c)
           \/ Registry!WipePod(c) \/ Registry!DeleteDeployment(c) \/ Registry!DeleteService(c)
           \/ Registry!DeleteRegistry(c) \/ Registry!CommandFails(c)
  BY <1>3 DEF Registry!ApplyDeployment, Registry!ApplyService, Registry!GetBundle, Registry!WipePod,
              Registry!DeleteDeployment, Registry!DeleteService, Registry!DeleteRegistry,
              Registry!CommandFails
<1> QED
  BY <1>1, <1>2, <1>3

LEMMA RegistryInvNext ==
  ASSUME RegistryInv, kb \in [App -> KbFile], jobs \subseteq Jobs, Registry!RegistryNext(actors, jobs)
  PROVE  /\ RegistryInv' /\ UNCHANGED kb
         /\ (\E c \in Command : Gets(c)) \/ UNCHANGED <<got, proc, starts>>
<1>1. CASE \/ Registry!DeploymentGone \/ Registry!ApplyRegistry
           \/ \E p \in Pod : Registry!MakePod(p) \/ Registry!RunPod(p) \/ Registry!StopPod(p)
  BY <1>1, ClusterKeeps DEF Registry!RegistryNext
<1>2. ASSUME NEW c \in Command, Registry!Start(c, jobs)
      PROVE  RegistryInv' /\ Gets(c)
  BY <1>2, StartKeeps DEF Gets
<1>3. ASSUME NEW c \in Command,
             \/ Registry!GetRegistry(c) \/ Registry!ApplyDeployment(c) \/ Registry!ApplyService(c)
             \/ Registry!WaitForRunning(c) \/ Registry!ListPods(c) \/ Registry!TarFile(c)
             \/ Registry!StatFile(c) \/ Registry!OpenFile(c) \/ Registry!WriteFile(c)
             \/ Registry!WipePod(c) \/ Registry!DeleteDeployment(c) \/ Registry!DeleteService(c)
             \/ Registry!DeleteRegistry(c)
      PROVE  RegistryInv' /\ Gets(c)
  <2>1. RegistryInv' /\ got' = got
    BY <1>3, GetRegistryKeeps, ApplyDeploymentKeeps, ApplyServiceKeeps, WaitForRunningKeeps,
       ListPodsKeeps, TarFileKeeps, StatFileKeeps, OpenFileKeeps, WriteFileKeeps, WipePodKeeps,
       DeleteDeploymentKeeps, DeleteServiceKeeps, DeleteRegistryKeeps
  <2>2. starts' = starts
    BY <1>3, OthersStartNothing
  <2> QED
    BY <2>1, <2>2 DEF Gets
<1>4. ASSUME NEW c \in Command, Registry!GetBundle(c)
      PROVE  RegistryInv' /\ Gets(c)
  <2>1. starts' = starts
    BY <1>4, OthersStartNothing
  <2> QED
    BY <1>4, <2>1, GetBundleKeeps DEF Gets
<1>5. ASSUME NEW c \in Command, Registry!CommandFails(c)
      PROVE  RegistryInv' /\ Gets(c)
  <2>1. starts' = starts
    BY <1>5, OthersStartNothing
  <2> QED
    BY <1>5, <2>1, CommandFailsKeeps DEF Gets
<1> QED
  BY <1>1, <1>2, <1>3, <1>4, <1>5 DEF Registry!RegistryNext

-----------------------------------------------------------------------------
(* The whole way *)

LEMMA InvInit ==
  ASSUME Init
  PROVE  IInv
<1>1. PICK s \in Setups :
        /\ actors = s[1] /\ jobs = s[3] /\ BuildInit(s[2]) /\ Registry!RegistryInit(s[4])
        /\ trusted = [k \in Command \cup {"now"} |->
                       IF k = "now" THEN {a \in s[2] : Distinct(a)} ELSE {}]
  BY DEF Init
<1>2. /\ s[1] \subseteq Builder \cup Command \cup Pod \cup App /\ s[2] \in SUBSET (App \ Handmade)
      /\ s[3] \subseteq Jobs /\ s[4] \in BOOLEAN
  BY SetupAssumption DEF SetupAssumption
<1>3. /\ BuildInv /\ \A a \in s[2] : Distinct(a) => Holds(a)
      /\ \A b \in Builder : build[b].pc \in Quiet
  BY <1>1, <1>2, BuildInvInit
<1>4. RegistryInv /\ \A c \in Command : got[c] = {}
  BY <1>1, <1>2, RegistryInvInit
<1>5. trusted \in [Command \cup {"now"} -> SUBSET App] /\ trusted["now"] = {a \in s[2] : Distinct(a)}
        /\ \A c \in Command : trusted[c] = {}
  BY <1>1, <1>2, RegistryConstantsHold
<1>6. TypeOK
  BY <1>1, <1>2, <1>3, <1>4, <1>5 DEF TypeOK, BuildInv, RegistryInv
<1>7. TrustSound /\ GotSound
  BY <1>3, <1>4, <1>5 DEF TrustSound, GotSound
<1> QED
  BY <1>3, <1>4, <1>6, <1>7 DEF IInv

\* A bundle that holds its application has its images.
LEMMA HoldsImages ==
  ASSUME NEW a \in App, Holds(a), made[a] \in 0 .. MaxBuild, kb[a] \in KbFile, NEW i \in Images(a)
  PROVE  Carries(a, i, made[a], Registry!Tar(a))
<1>1. Target[i] \in Tag
  BY ImagesOf, BuildAssumption DEF BuildAssumption
<1>2. PICK x : x = kb[a].images[Target[i]]
  OBVIOUS
<1>3. Right(a, i, x, made[a])
  BY <1>2 DEF Holds
<1>4. x # None
  BY <1>3, RightIsThere
<1>5. x \in Content
  BY <1>1, <1>2, <1>4 DEF KbFile, Held
<1>6. <<Target[i], x>> \in Registry!Tar(a) /\ <<x, x>> \in Registry!Tar(a)
  BY <1>1, <1>2, <1>4 DEF Registry!Tar
<1> QED
  BY <1>3, <1>5, <1>6 DEF Carries

LEMMA BuildStageKeeps ==
  ASSUME IInv, BuildStage
  PROVE  IInv'
<1>1. BuildNext(actors) /\ UNCHANGED <<registryVars, actors, jobs>>
  BY DEF BuildStage
<1>2. BuildInv /\ RegistryInv /\ TypeOK /\ TrustSound /\ GotSound
  BY DEF IInv
<1>3. BuildInv' /\ ((\E b \in Builder : Moves(b)) \/ UNCHANGED <<build, kb, made>>)
  BY <1>1, <1>2, BuildInvNext
<1>4. /\ UNCHANGED <<registry, deployment, service, pods, files, proc, starts, held, got, stored,
                     undone, overlapped, actors, jobs>>
  BY <1>1 DEF registryVars
<1>5. RegistryInv'
  <2>1. Registry!RegistryTypeOK'
    BY <1>2, <1>4 DEF RegistryInv, Registry!RegistryTypeOK
  <2>2. Sequenced' /\ Resumable'
    BY <1>2, <1>4 DEF RegistryInv, Sequenced, Resumable, Registry!Resumable
  <2>3. \A c \in Command : CommandSound(c)'
    BY <1>2, <1>4 DEF RegistryInv, CommandSound
  <2> QED
    BY <2>1, <2>2, <2>3 DEF RegistryInv
<1>6. /\ trusted \in [Command \cup {"now"} -> SUBSET App]
      /\ trusted' = [k \in DOMAIN trusted |->
                       (trusted[k] \ {a \in App : Begun(a)}) \cup {a \in App : k = "now" /\ Ended(a)}]
  BY <1>2 DEF TypeOK, BuildStage
<1>7. /\ trusted' \in [Command \cup {"now"} -> SUBSET App]
      /\ trusted'["now"] = (trusted["now"] \ {a \in App : Begun(a)}) \cup {a \in App : Ended(a)}
      /\ \A c \in Command : trusted'[c] = trusted[c] \ {a \in App : Begun(a)}
  BY <1>6, RegistryConstantsHold
<1>8. TypeOK'
  BY <1>2, <1>3, <1>4, <1>5, <1>7 DEF TypeOK, BuildInv, RegistryInv
<1>9. ASSUME NEW a \in trusted["now"], ~Begun(a)
      PROVE  /\ a \in App /\ Holds(a)' /\ \A b \in Builder : build'[b].app = a => build'[b].pc \in Quiet
  <2>1. /\ a \in App /\ Holds(a) /\ \A b \in Builder : build[b].app = a => build[b].pc \in Quiet
    BY <1>2, <1>6 DEF TrustSound
  <2>2. CASE UNCHANGED <<build, kb, made>>
    BY <2>1, <2>2 DEF Holds
  <2>3. ASSUME NEW b \in Builder, Moves(b)
        PROVE  /\ Holds(a)' /\ \A c \in Builder : build'[c].app = a => build'[c].pc \in Quiet
    <3>1. \A c \in Builder \ {b} : build'[c].app = a => build'[c].pc \in Quiet
      BY <2>1, <2>3 DEF Moves
    <3>2. CASE build[b].app = a
      <4>1. build[b].pc \in Quiet
        BY <2>1, <3>2
      <4>2. ~(At(b, "image") /\ build'[b].pc = "upload" /\ build'[b].app = build[b].app)
        BY <1>9, <3>2 DEF Begun
      <4>3. build'[b].pc \in Quiet /\ kb' = kb /\ made' = made
        BY <2>3, <3>2, <4>1, <4>2 DEF Moves, Quiet, Idle
      <4>4. Holds(a)'
        BY <2>1, <4>3 DEF Holds
      <4> QED
        BY <3>1, <4>3, <4>4
    <3>3. CASE build[b].app # a
      <4>1. Holds(a)'
        BY <2>1, <2>3, <3>3 DEF Moves
      <4>2. build'[b].app = a => build'[b].pc \in Quiet
        BY <2>3, <3>3 DEF Moves
      <4> QED
        BY <3>1, <4>1, <4>2
    <3> QED
      BY <3>2, <3>3
  <2> QED
    BY <1>3, <2>1, <2>2, <2>3
<1>10. ASSUME NEW a \in App, Ended(a)
       PROVE  Holds(a)' /\ \A b \in Builder : build'[b].app = a => build'[b].pc \in Quiet
  <2>1. PICK b \in Builder :
          /\ At(b, "stop") /\ build[b].app = a /\ build'[b].pc = "ok"
          /\ ~build[b].unseen /\ ~build[b].rival /\ Distinct(a)
    BY <1>10 DEF Ended, Unhindered
  <2>2. Moves(b)
    BY <1>3, <2>1 DEF Moves, At
  <2>3. ~build[b].failed /\ build'[b] = [build[b] EXCEPT !.pc = "ok"]
    BY <2>1, <2>2 DEF Moves
  <2>4. /\ build'[b].app = a /\ ~build'[b].failed /\ ~build'[b].unseen /\ ~build'[b].rival
    BY <1>2, <2>1, <2>3 DEF BuildInv, BuildTypeOK, Build
  <2>5. Holds(a)'
    BY <1>3, <2>1, <2>4 DEF BuildInv, BuilderSound, Loaded, Clean, Unhindered
  <2>6. ASSUME NEW c \in Builder, build'[c].app = a  PROVE build'[c].pc \in Quiet
    <3>1. CASE c = b
      BY <2>1, <3>1 DEF Quiet, Idle
    <3>2. CASE c # b
      <4>1. Apart(b, c)'
        BY <1>3, <3>2 DEF BuildInv
      <4>2. Meet(a, a)
        BY MeetsItself
      <4> QED
        BY <2>1, <2>4, <2>6, <4>1, <4>2 DEF Apart
    <3> QED
      BY <3>1, <3>2
  <2> QED
    BY <2>5, <2>6
<1>11. TrustSound'
  <2>1. \A a \in trusted'["now"] :
          Holds(a)' /\ \A b \in Builder : build'[b].app = a => build'[b].pc \in Quiet
    <3> SUFFICES ASSUME NEW a \in trusted'["now"]
                 PROVE  Holds(a)' /\ \A b \in Builder : build'[b].app = a => build'[b].pc \in Quiet
      OBVIOUS
    <3>1. CASE a \in App /\ Ended(a)
      BY <1>10, <3>1
    <3>2. CASE a \in trusted["now"] /\ ~(a \in App /\ Begun(a))
      <4>1. a \in App
        BY <1>6, <3>2
      <4> QED
        BY <1>9, <3>2, <4>1
    <3> QED
      BY <1>7, <3>1, <3>2
  <2>2. \A c \in Command : trusted'[c] \subseteq trusted'["now"]
    BY <1>2, <1>7 DEF TrustSound
  <2> QED
    BY <2>1, <2>2 DEF TrustSound
<1>12. GotSound'
  <2> SUFFICES ASSUME NEW c \in Command, NEW t \in got[c], t[2] \in trusted'[c], NEW i \in Images(t[2])
               PROVE  Carries(t[2], i, made'[t[2]], t[3])
    BY <1>4 DEF GotSound
  <2>1. /\ t[2] \in trusted[c] /\ t[2] \in App /\ ~Begun(t[2]) /\ t[2] \in trusted["now"]
    BY <1>2, <1>6, <1>7 DEF TrustSound
  <2>2. made'[t[2]] = made[t[2]]
    <3>1. CASE UNCHANGED <<build, kb, made>>
      BY <3>1
    <3>2. ASSUME NEW b \in Builder, Moves(b)  PROVE made'[t[2]] = made[t[2]]
      BY <2>1, <3>2 DEF Moves, Begun
    <3> QED
      BY <1>3, <3>1, <3>2
  <2> QED
    BY <1>2, <2>1, <2>2 DEF GotSound
<1> QED
  BY <1>3, <1>5, <1>8, <1>11, <1>12 DEF IInv

LEMMA ImportStageKeeps ==
  ASSUME IInv, ImportStage
  PROVE  IInv'
<1>1. BuildInv /\ RegistryInv /\ TypeOK /\ TrustSound /\ GotSound
  BY DEF IInv
<1>2. /\ Registry!RegistryNext(actors, jobs) /\ kb \in [App -> KbFile] /\ jobs \subseteq Jobs
      /\ UNCHANGED <<local, tagged, remote, port, volume, made, build, builds, actors, jobs>>
  BY <1>1 DEF ImportStage, buildVars, TypeOK, BuildTypeOK
<1>3. /\ RegistryInv' /\ kb' = kb
      /\ (\E c \in Command : Gets(c)) \/ UNCHANGED <<got, proc, starts>>
  BY <1>1, <1>2, RegistryInvNext
<1>4. BuildInv'
  <2>1. BuildTypeOK' /\ OwnImages' /\ Genuine'
    BY <1>1, <1>2, <1>3 DEF BuildInv, BuildTypeOK, OwnImages, Genuine
  <2>2. \A b \in Builder : BuilderSound(b)'
    BY <1>1, <1>2, <1>3
       DEF BuildInv, BuilderSound, PortHeld, VolumeOwn, Loaded, Clean, Unhindered, Honest, Holds, At
  <2>3. \A b, c \in Builder : b # c => Apart(b, c)'
    BY <1>1, <1>2 DEF BuildInv, Apart
  <2> QED
    BY <2>1, <2>2, <2>3 DEF BuildInv
<1>5. /\ trusted \in [Command \cup {"now"} -> SUBSET App]
      /\ trusted' = [k \in DOMAIN trusted |->
                       IF k # "now" /\ starts' # starts /\ proc'[k] # proc[k]
                         THEN trusted["now"] ELSE trusted[k]]
  BY <1>1 DEF TypeOK, ImportStage
<1>6. /\ trusted' \in [Command \cup {"now"} -> SUBSET App] /\ trusted'["now"] = trusted["now"]
      /\ \A c \in Command : trusted'[c] = IF starts' # starts /\ proc'[c] # proc[c]
                                            THEN trusted["now"] ELSE trusted[c]
  BY <1>5, RegistryConstantsHold
<1>7. TypeOK'
  BY <1>1, <1>2, <1>3, <1>4, <1>6 DEF TypeOK, BuildInv, RegistryInv
<1>8. TrustSound'
  <2>1. \A a \in App : Holds(a) => Holds(a)'
    BY <1>2, <1>3 DEF Holds
  <2>2. \A a \in trusted["now"] : a \in App
    BY <1>5
  <2>3. \A c \in Command : trusted'[c] \subseteq trusted'["now"]
    BY <1>1, <1>6 DEF TrustSound
  <2> QED
    BY <1>1, <1>2, <1>6, <2>1, <2>2, <2>3 DEF TrustSound
<1>9. GotSound'
  <2>1. CASE UNCHANGED <<got, proc, starts>>
    BY <1>1, <1>2, <1>6, <2>1 DEF GotSound
  <2>2. ASSUME NEW c \in Command, Gets(c)
        PROVE  GotSound'
    <3>1. ASSUME NEW d \in Command \ {c}, NEW t \in got'[d], t[2] \in trusted'[d]
          PROVE  \A i \in Images(t[2]) : Carries(t[2], i, made[t[2]], t[3])
      <4>1. got'[d] = got[d] /\ trusted'[d] = trusted[d]
        BY <1>6, <2>2 DEF Gets
      <4> QED
        BY <1>1, <3>1, <4>1 DEF GotSound
    <3>2. ASSUME NEW t \in got'[c], t[2] \in trusted'[c]
          PROVE  \A i \in Images(t[2]) : Carries(t[2], i, made[t[2]], t[3])
      <4>1. starts' = starts
        BY <2>2, <3>2 DEF Gets
      <4>2. trusted'[c] = trusted[c]
        BY <1>6, <4>1
      <4>3. CASE t \in got[c]
        BY <1>1, <3>2, <4>2, <4>3 DEF GotSound
      <4>4. CASE t[2] \in App /\ t[3] = Registry!Tar(t[2])
        <5>1. Holds(t[2])
          BY <1>1, <3>2, <4>2 DEF TrustSound
        <5>2. made[t[2]] \in 0 .. MaxBuild /\ kb[t[2]] \in KbFile
          BY <1>1, <4>4 DEF TypeOK, BuildTypeOK
        <5> QED
          BY <4>4, <5>1, <5>2, HoldsImages
      <4> QED
        BY <2>2, <3>2, <4>3, <4>4 DEF Gets
    <3> QED
      BY <1>2, <3>1, <3>2 DEF GotSound
  <2> QED
    BY <1>3, <2>1, <2>2
<1> QED
  BY <1>3, <1>4, <1>7, <1>8, <1>9 DEF IInv

LEMMA InvNext ==
  ASSUME IInv, [Next]_vars
  PROVE  IInv'
<1>1. CASE BuildStage
  BY <1>1, BuildStageKeeps
<1>2. CASE ImportStage
  BY <1>2, ImportStageKeeps
<1>3. CASE UNCHANGED vars
  <2>1. UNCHANGED <<local, tagged, remote, port, volume, kb, made, build, builds, registry, deployment,
                    service, pods, files, proc, starts, held, got, stored, undone, overlapped,
                    actors, jobs, trusted>>
    BY <1>3 DEF vars, buildVars, registryVars
  <2>2. BuildTypeOK' /\ OwnImages' /\ Genuine' /\ Registry!RegistryTypeOK' /\ TypeOK'
    BY <2>1 DEF IInv, BuildInv, BuildTypeOK, OwnImages, Genuine, RegistryInv, Registry!RegistryTypeOK, TypeOK
  <2>3. \A b \in Builder : BuilderSound(b)'
    BY <2>1 DEF IInv, BuildInv, BuilderSound, PortHeld, VolumeOwn, Loaded, Clean, Unhindered, Honest, Holds, At
  <2>4. \A b, c \in Builder : b # c => Apart(b, c)'
    BY <2>1 DEF IInv, BuildInv, Apart
  <2>5. Sequenced' /\ Resumable'
    BY <2>1 DEF IInv, RegistryInv, Sequenced, Resumable, Registry!Resumable
  <2>6. \A c \in Command : CommandSound(c)'
    BY <2>1 DEF IInv, RegistryInv, CommandSound
  <2>7. TrustSound' /\ GotSound'
    BY <2>1 DEF IInv, TrustSound, GotSound, Holds
  <2> QED
    BY <2>2, <2>3, <2>4, <2>5, <2>6, <2>7 DEF IInv, BuildInv, RegistryInv
<1> QED
  BY <1>1, <1>2, <1>3 DEF Next

LEMMA InvHolds == Spec => []IInv
<1>1. Init => IInv
  BY InvInit
<1>2. IInv /\ [Next]_vars => IInv'
  BY InvNext
<1> QED
  BY <1>1, <1>2, PTL DEF Spec

-----------------------------------------------------------------------------
(* The theorems *)

\* Every variable keeps its type: a build, in BundleBuild, always has a next image to
\* take, and a command, in RegistryDeploy, that goes through pods has one left.
THEOREM TypeCorrect == Spec => []TypeOK
<1>1. IInv => TypeOK
  BY DEF IInv
<1> QED
  BY <1>1, InvHolds, PTL

\* A build that succeeds has written a bundle with all images of its application and the
\* deploy image it built, if it met no error that kb build does not look at, no build that
\* touches the same deploy image ran at the same time, and no two of the application's
\* images differ in their hosts only; any number of other builds share the daemon, its
\* names of images and the port with it, fail, and are killed at any time (build.go, Build).
THEOREM BuildIsSound == Spec => []BuildSound
<1>1. IInv => BuildSound
  BY BuildInvIsSound DEF IInv
<1> QED
  BY <1>1, InvHolds, PTL

\* No build has images of another's application in its bundle, although docker push sends
\* all tags of a repository that the shared daemon has, to whoever has the port: a build
\* that pushes has the port itself (build.go, launchLocalRegistry, pushImages).
THEOREM ImagesAreOwn == Spec => []OwnImages
<1>1. IInv => OwnImages
  BY DEF IInv, BuildInv
<1> QED
  BY <1>1, InvHolds, PTL

\* A delete of the registry that was interrupted can be run again: as long as there is a
\* deployment or a service of it, there is the Registry resource that kb registry delete
\* looks for first; unless a deploy ran at the same time (registry.go, Delete).
THEOREM DeleteIsResumable == Spec => []Resumable
<1>1. IInv => Resumable
  BY DEF IInv, RegistryInv
<1> QED
  BY <1>1, InvHolds, PTL

\* A delete that succeeds has emptied the directories of the nodes of all pods it found,
\* but for nodes to which an import wrote meanwhile (registry.go, deleteRegistryContents).
THEOREM DeleteEmpties == Spec => []Emptied
<1>1. ASSUME IInv  PROVE Emptied
  <2> SUFFICES ASSUME NEW c \in Command, proc[c].pc = "ok", proc[c].job.op = "delete",
                      NEW p \in proc[c].targets, NodeOf[p] \notin stored[c], NEW m \in Registry!Name
               PROVE  files[NodeOf[p]][m] = None
    BY DEF Emptied, Registry!Emptied, Registry!At
  <2>1. Wiped(proc[c], files, stored[c])
    BY <1>1, Working DEF IInv
  <2> QED
    BY <2>1 DEF Wiped
<1> QED
  BY <1>1, InvHolds, PTL

\* What an import that succeeds has got and brought, in terms of what is known of it.
LEMMA EndedImport ==
  ASSUME IInv, NEW c \in Command, proc[c].pc = "ok", proc[c].job.op = "import"
  PROVE  Registry!Imported(c)
<1> DEFINE r == proc[c]
<1>1. r \in Registry!Proc /\ Shape(r) /\ GotAll(r, got[c]) /\ Brought(r, held[c], got[c], undone[c])
  BY Working DEF IInv
<1>2. r.left = {}
  BY <1>1 DEF Shape
<1>3. \A p \in r.targets, k \in DOMAIN r.job.bundles : \E t \in got[c] :
        t[1] = (IF r.job.dir THEN Local ELSE NodeOf[p]) /\ t[2] = r.job.bundles[k]
  BY <1>1, <1>2 DEF GotAll
<1>4. \A t \in got[c] : \A e \in t[3] : Reached(r, t[1], e, held[c], undone[c])
  BY <1>1 DEF Brought
<1>5. \A t \in got[c] : \A e \in t[3] :
        Registry!Brings(c, t[1], e) \/ Registry!Lost(c, t[1], e) \/ Registry!Kept(c, t[1], e)
  BY <1>4 DEF Reached, Registry!Brings, Registry!Lost, Registry!Kept
<1> QED
  BY <1>3, <1>5 DEF Registry!Imported, Registry!GotEach

\* An import that succeeds has got each of its bundles for each pod it found and brought
\* all of the bundle's files to the pod's node, with the contents they have in the bundle,
\* whatever imports that failed had left there and whatever others did to the same
\* directory; but for what was removed or replaced under its hands and, with a directory,
\* the links that led to another image before (registry.go, Import, ImportToPod,
\* extractTarToDir).
THEOREM ImportIsSound == Spec => []ImportSound
<1>1. IInv => ImportSound
  BY EndedImport DEF ImportSound, Registry!ImportSound, Registry!At
<1> QED
  BY <1>1, InvHolds, PTL

\* From kb build to the nodes: after an import that succeeds, of a bundle whose build had
\* succeeded when the import began, all images of the application, and the deploy image
\* that this build made, were on the node of every pod that the import found and their
\* tags led to them, with the exceptions of the two theorems above.
THEOREM ImagesAreDelivered == Spec => []Delivered
<1>1. ASSUME IInv  PROVE Delivered
  <2> SUFFICES ASSUME NEW c \in Command, proc[c].pc = "ok", proc[c].job.op = "import",
                      NEW k \in DOMAIN proc[c].job.bundles,
                      proc[c].job.bundles[k] \in trusted[c],
                      NEW p \in proc[c].targets, NEW i \in Images(proc[c].job.bundles[k])
               PROVE  \E x \in Content :
                        /\ Right(proc[c].job.bundles[k], i, x, made[proc[c].job.bundles[k]])
                        /\ \A e \in {<<Target[i], x>>, <<x, x>>} :
                             LET n == IF proc[c].job.dir THEN Local ELSE NodeOf[p] IN
                             Registry!Brings(c, n, e) \/ Registry!Lost(c, n, e) \/ Registry!Kept(c, n, e)
    BY DEF Delivered
  <2>1. Registry!Imported(c)
    BY <1>1, EndedImport
  <2>2. PICK t \in got[c] :
          /\ t[1] = (IF proc[c].job.dir THEN Local ELSE NodeOf[p])
          /\ t[2] = proc[c].job.bundles[k]
    BY <2>1 DEF Registry!Imported, Registry!GotEach
  <2>3. Carries(t[2], i, made[t[2]], t[3])
    BY <1>1, <2>2 DEF IInv, GotSound
  <2>4. PICK x \in Content : Right(t[2], i, x, made[t[2]]) /\ {<<Target[i], x>>, <<x, x>>} \subseteq t[3]
    BY <2>3 DEF Carries
  <2>5. \A e \in t[3] :
          Registry!Brings(c, t[1], e) \/ Registry!Lost(c, t[1], e) \/ Registry!Kept(c, t[1], e)
    BY <2>1 DEF Registry!Imported
  <2> QED
    BY <2>2, <2>4, <2>5
<1> QED
  BY <1>1, InvHolds, PTL
=============================================================================
