--------------------------- MODULE RegistryDeploy ---------------------------
(***************************************************************************)
(* The docker registry of a cluster (managers/registry.go): commands that  *)
(* deploy it, delete it and import the images of bundles into it, by way   *)
(* of its pods or straight into a directory of the node they run on.       *)
(* Commands run at once, fail and are killed anywhere.  The registry's     *)
(* pods keep their files in a directory of their node, which outlives them *)
(* and is shared by the pods of one node.                                  *)
(***************************************************************************)
EXTENDS Integers, Sequences, FiniteSets

CONSTANTS Bundle, Tag,
          Content,            \* what the image of a tag can be
          None, Part,
          Node, Pod, NodeOf,  \* the pods that the registry can have, and where
          Local,              \* the node on which kb runs
          Command, Jobs,
          Attempts,           \* of WaitForRunning
          MaxStart            \* bound: commands started

\* What the constants are; assumed by the module that composes.
RegistryConstants ==
  /\ NodeOf \in [Pod -> Node] /\ Local \in Node
  /\ Jobs \subseteq [op: {"deploy", "delete", "import"}, bundles: Seq(Bundle),
                     dir: BOOLEAN, hosts: SUBSET Node]
  /\ Jobs # {} /\ Attempts \in Nat \ {0} /\ MaxStart \in Nat
  /\ Tag \cap Content = {} /\ None # Part /\ {None, Part} \cap Content = {}
  /\ Command \cap (Content \cup {None, Part}) = {}

VARIABLES
  kb,          \* the bundle files: what their images.tar hold
  registry,    \* the Registry resource exists
  deployment, service, pods,
  files,       \* the files in each node's directory
  proc, starts,
  held,        \* history: the files seen whole on a node since each command began
  got,         \* history: the bundles it got for each node since, with their files
  stored,      \* history: the nodes to which an import wrote since each command began
  undone,      \* history: what was removed or replaced while a command was writing it
  overlapped   \* history: a deploy and a delete ran at the same time

registryVars ==
  <<registry, deployment, service, pods, files, proc, starts, held, got, stored, undone, overlapped>>
objects == <<registry, deployment, service, pods>>
history == <<held, got, stored, undone, overlapped>>

PC == {"get", "apply", "expose", "wait", "list", "bundle", "extract", "open", "write",
       "wipe", "undeploy", "unexpose", "remove", "ok", "error"}
Ended == {"ok", "error"}
Phase == {"none", "pending", "running"}  \* a pod that is being removed still runs
\* The files have the layout of a docker registry.  What an image consists of is named after
\* it; a tag has a file, the link, with the name of its image.
Name == Tag \cup Content
\* A file can be cut short, or being written by a command.
File == Content \cup {None, Part} \cup Command
Proc == [pc: PC, job: Jobs, left: SUBSET Pod, targets: SUBSET Pod, next: Nat,
         todo: SUBSET (Name \X Content), seen: Content \cup {None, Part}, tries: Nat]

Listed == {p \in Pod : pods[p] # "none"}
Runs(p) == pods[p] = "running"
\* The entries of the bundle's images.tar: the name of a file and what is in it.
Tar(b) ==
  LET tags == {t \in Tag : kb[b].images[t] # None} IN
  {<<t, kb[b].images[t]>> : t \in tags}
  \cup {<<kb[b].images[t], kb[b].images[t]>> : t \in tags}

Stopped == [pc |-> "error", job |-> CHOOSE j \in Jobs : TRUE, left |-> {}, targets |-> {},
            next |-> 1, todo |-> {}, seen |-> None, tries |-> 0]

Set(c, r) == proc' = [proc EXCEPT ![c] = r]
Step(c, r) == Set(c, r) /\ UNCHANGED <<objects, files, starts, history>>
At(c, pc) == proc[c].pc = pc

Start(c, jobs) ==
  /\ proc[c].pc \in Ended /\ starts < MaxStart /\ starts' = starts + 1
  /\ \E j \in jobs :
       /\ Set(c, [Stopped EXCEPT !.pc = "get", !.job = j])
       /\ overlapped' = (overlapped \/ \E d \in Command \ {c} :
            proc[d].pc \notin Ended /\ {j.op, proc[d].job.op} = {"deploy", "delete"})
  /\ held' = [held EXCEPT ![c] =
       {<<x[1], x[2], files[x[1]][x[2]]>> : x \in {y \in Node \X Name : files[y[1]][y[2]] \in Content}}]
  /\ got' = [got EXCEPT ![c] = {}] /\ stored' = [stored EXCEPT ![c] = {}]
  /\ undone' = [undone EXCEPT ![c] = {}]
  /\ UNCHANGED <<objects, files>>

\* A call that fails ends the command, a signal may do so anywhere.  The files that it
\* was writing stay as they are.
CommandFails(c) ==
  /\ proc[c].pc \notin Ended /\ Set(c, Stopped)
  /\ files' = [n \in Node |-> [m \in Name |-> IF files[n][m] = c THEN Part ELSE files[n][m]]]
  /\ held' = [held EXCEPT ![c] = {}] /\ got' = [got EXCEPT ![c] = {}]
  /\ stored' = [stored EXCEPT ![c] = {}] /\ undone' = [undone EXCEPT ![c] = {}]
  /\ UNCHANGED <<objects, starts, overlapped>>
\* All of them begin by getting the Registry resource.
GetRegistry(c) ==
  LET r == proc[c] IN
  /\ At(c, "get") /\ registry
  /\ Step(c, [r EXCEPT !.pc = IF r.job.op = "deploy" THEN "apply" ELSE "list"])

-----------------------------------------------------------------------------
(* Deploy *)

\* Its flavor is read; the templates are applied in the order of their names.
ApplyDeployment(c) ==
  /\ At(c, "apply") /\ Set(c, [proc[c] EXCEPT !.pc = "expose"])
  /\ deployment' = IF deployment = "none" THEN "live" ELSE deployment
  /\ UNCHANGED <<registry, service, pods, files, starts, history>>
ApplyService(c) ==
  /\ At(c, "expose") /\ Set(c, [proc[c] EXCEPT !.pc = "wait"])
  /\ service' = TRUE
  /\ UNCHANGED <<registry, deployment, pods, files, starts, history>>

\* One attempt: the pods that there are must all run.  Its List may fail.
WaitForRunning(c) ==
  LET r == proc[c]  up == Listed # {} /\ \A p \in Listed : Runs(p) IN
  /\ At(c, "wait")
  /\ \/ up /\ Step(c, [r EXCEPT !.pc = "ok"])
     \/ r.tries + 1 < Attempts /\ Step(c, [r EXCEPT !.tries = @ + 1])

-----------------------------------------------------------------------------
(* Import *)

\* All pods, or the first one on the given host.
Chosen(j, s) ==
  IF j.hosts = {} THEN s = Listed
  ELSE LET there == {p \in Listed : NodeOf[p] \in j.hosts} IN
       IF there = {} THEN s = {} ELSE \E p \in there : s = {p}

\* Without bundles (kb import bundle takes any number) there is nothing to do at a pod.
AfterPods(r, left) ==
  IF left # {} /\ (r.job.op = "import" => r.job.bundles # <<>>)
  THEN [r EXCEPT !.left = left, !.next = 1,
                 !.pc = IF r.job.op = "import" THEN "bundle" ELSE "wipe"]
  ELSE [r EXCEPT !.left = {}, !.pc = IF r.job.op = "import" THEN "ok" ELSE "undeploy"]

ListPods(c) ==
  /\ At(c, "list")
  /\ \E s \in SUBSET Pod :
       /\ IF proc[c].job.op = "import" THEN Chosen(proc[c].job, s) ELSE s = Listed
       /\ Step(c, AfterPods([proc[c] EXCEPT !.targets = s], s))

\* The pods are taken in the order of the list.
First(s) == CHOOSE p \in s : TRUE
Destination(r) == IF r.job.dir THEN Local ELSE NodeOf[First(r.left)]

\* ImportToPod: one bundle after the other; then the next pod.
NextBundle(r) ==
  IF r.next < Len(r.job.bundles) THEN [r EXCEPT !.next = @ + 1, !.pc = "bundle"]
  ELSE AfterPods(r, r.left \ {First(r.left)})

\* A bundle without images is skipped.
NoImagesReturn(r) == AfterPods(r, r.left \ {First(r.left)})
NoImagesTar(r) == NextBundle(r)

\* The bundle is got from the source and opened.
GetBundle(c) ==
  LET r == proc[c]  b == r.job.bundles[r.next] IN
  /\ At(c, "bundle")
  /\ kb[b].file = "closed"
  /\ Set(c, IF Tar(b) = {} THEN NoImagesTar(r) ELSE [r EXCEPT !.pc = "extract", !.todo = Tar(b)])
  /\ got' = [got EXCEPT ![c] = @ \cup {<<Destination(r), b, Tar(b)>>}]
  /\ UNCHANGED <<objects, files, starts, held, stored, undone, overlapped>>

\* Command c removes or replaces these files on node n.
Undo(c, n, ms) ==
  undone' = [d \in Command |->
               undone[d] \cup {<<n, m>> : m \in {k \in ms : d # c /\ files[n][k] = d}}]

Put(c, n, m, f) ==
  /\ Undo(c, n, {m})
  /\ files' = [files EXCEPT ![n][m] = f]
  /\ held' = IF f \in Content THEN [d \in Command |->
                IF proc[d].pc \in Ended THEN held[d] ELSE held[d] \cup {<<n, m, f>>}] ELSE held
  /\ stored' = [d \in Command |-> stored[d] \cup {n}]
  /\ UNCHANGED <<objects, starts, got, overlapped>>

AfterFile(r, e) ==
  IF r.todo = {e} THEN NextBundle([r EXCEPT !.todo = {}])
  ELSE [r EXCEPT !.todo = @ \ {e}, !.pc = "extract"]

\* The next of the tar; the links are its last entries.
Entry(r) == CHOOSE e \in r.todo : e[1] \in Content \/ \A f \in r.todo : f[1] \notin Content

\* tar, in the pod: a file is made anew and written.
TarFile(c) ==
  LET r == proc[c] IN
  /\ At(c, "extract") /\ ~r.job.dir /\ Runs(First(r.left))
  /\ Set(c, [r EXCEPT !.pc = "write"]) /\ Put(c, Destination(r), Entry(r)[1], c)

\* extractTarToDir: Stat of the file, then an open that makes it or fails.
StatFile(c) ==
  LET r == proc[c]  f == files[Local][Entry(r)[1]] IN
  /\ At(c, "extract") /\ r.job.dir
  /\ Step(c, [r EXCEPT !.pc = "open", !.seen = IF f \in Command THEN Part ELSE f])

\* A file that was there with the size of the entry is skipped, and a link has the same size
\* whatever it names; with another size, the copy goes to a file that is not open and
\* fails; one that was not there then is a nil dereference.
OpenFile(c) ==
  LET r == proc[c]  m == Entry(r)[1]  f == files[Local][m] IN
  /\ At(c, "open")
  /\ \/ f = None /\ Set(c, [r EXCEPT !.pc = "write"]) /\ Put(c, Local, m, c)
     \/ f # None /\ r.seen \in Content /\ Step(c, AfterFile(r, Entry(r)))

\* The writing ends; what was written is lost if the file was removed or replaced.
WriteFile(c) ==
  LET r == proc[c]  e == Entry(r)  n == Destination(r) IN
  /\ At(c, "write") /\ (r.job.dir \/ Runs(First(r.left)))
  /\ Set(c, AfterFile(r, e))
  /\ \/ files[n][e[1]] = c /\ Put(c, n, e[1], e[2])
     \/ files[n][e[1]] # c /\ UNCHANGED <<objects, files, starts, history>>

-----------------------------------------------------------------------------
(* Delete *)

\* deleteRegistryContents, in each pod that was listed: rm -rf of the directory.
WipeOnePod(c) ==
  LET r == proc[c]  p == First(r.left) IN
  /\ At(c, "wipe") /\ Runs(p)
  /\ files' = [files EXCEPT ![NodeOf[p]] = [m \in Name |-> None]]
  /\ Set(c, AfterPods(r, {})) /\ Undo(c, NodeOf[p], Name)
  /\ UNCHANGED <<objects, starts, held, got, stored, overlapped>>
WipePod(c) ==
  LET r == proc[c]  p == First(r.left) IN
  /\ At(c, "wipe") /\ Runs(p)
  /\ files' = [files EXCEPT ![NodeOf[p]] = [m \in Name |-> None]]
  /\ Set(c, AfterPods(r, r.left \ {p})) /\ Undo(c, NodeOf[p], Name)
  /\ UNCHANGED <<objects, starts, held, got, stored, overlapped>>

\* ResourceManager.Delete, three times: what is not there is no error.
DeleteRegistryFirst(c) ==
  /\ At(c, "undeploy") /\ Set(c, [proc[c] EXCEPT !.pc = "unexpose"])
  /\ registry' = FALSE
  /\ UNCHANGED <<deployment, service, pods, files, starts, history>>
DeleteDeployment(c) ==
  /\ At(c, "undeploy") /\ Set(c, [proc[c] EXCEPT !.pc = "unexpose"])
  /\ deployment' = IF deployment = "live" THEN "deleting" ELSE deployment
  /\ UNCHANGED <<registry, service, pods, files, starts, history>>
DeleteService(c) ==
  /\ At(c, "unexpose") /\ Set(c, [proc[c] EXCEPT !.pc = "remove"])
  /\ service' = FALSE
  /\ UNCHANGED <<registry, deployment, pods, files, starts, history>>
DeleteRegistry(c) ==
  /\ At(c, "remove") /\ Set(c, [proc[c] EXCEPT !.pc = "ok"])
  /\ registry' = FALSE
  /\ UNCHANGED <<deployment, service, pods, files, starts, history>>

-----------------------------------------------------------------------------
(* The cluster *)

PodBecomes(p, s) ==
  /\ pods' = [pods EXCEPT ![p] = s]
  /\ UNCHANGED <<registry, deployment, service, files, proc, starts, history>>
MakePod(p) == deployment = "live" /\ pods[p] = "none" /\ PodBecomes(p, "pending")
RunPod(p) == pods[p] = "pending" /\ PodBecomes(p, "running")
\* Evicted, or because its deployment is deleted.
StopPod(p) ==
  pods[p] # "none" /\ PodBecomes(p, "none")
DeploymentGone ==
  /\ deployment = "deleting" /\ Listed = {} /\ deployment' = "none"
  /\ UNCHANGED <<registry, service, pods, files, proc, starts, history>>
\* kubectl apply of the resource, by whoever wants the registry.
ApplyRegistry ==
  /\ ~registry /\ registry' = TRUE
  /\ UNCHANGED <<deployment, service, pods, files, proc, starts, history>>

\* Nothing has been deployed yet, or the registry is up and empty.
RegistryInit(up) ==
  /\ registry \in {TRUE, up} /\ deployment = (IF up THEN "live" ELSE "none") /\ service = up
  /\ pods = [p \in Pod |-> IF up THEN "running" ELSE "none"]
  /\ files = [n \in Node |-> [m \in Name |-> None]]
  /\ proc = [c \in Command |-> Stopped]
  /\ starts = 0 /\ overlapped = FALSE
  /\ held = [c \in Command |-> {}] /\ got = [c \in Command |-> {}]
  /\ stored = [c \in Command |-> {}] /\ undone = [c \in Command |-> {}]

RegistryNext(actors, jobs) ==
  /\ UNCHANGED kb
  /\ \/ DeploymentGone \/ ApplyRegistry
     \/ \E p \in Pod \cap actors : MakePod(p) \/ RunPod(p) \/ StopPod(p)
     \/ \E c \in Command \cap actors :
          \/ Start(c, jobs) \/ GetRegistry(c) \/ ApplyDeployment(c) \/ ApplyService(c)
          \/ WaitForRunning(c) \/ ListPods(c) \/ GetBundle(c) \/ TarFile(c) \/ StatFile(c)
          \/ OpenFile(c) \/ WriteFile(c) \/ WipePod(c) \/ DeleteDeployment(c)
          \/ DeleteService(c) \/ DeleteRegistry(c) \/ CommandFails(c)

-----------------------------------------------------------------------------
(* Properties *)

RegistryTypeOK ==
  /\ registry \in BOOLEAN /\ deployment \in {"none", "live", "deleting"}
  /\ service \in BOOLEAN /\ pods \in [Pod -> Phase]
  /\ files \in [Node -> [Name -> File]] /\ proc \in [Command -> Proc]
  /\ starts \in 0 .. MaxStart /\ overlapped \in BOOLEAN
  /\ held \in [Command -> SUBSET (Node \X Name \X Content)]
  /\ got \in [Command -> SUBSET (Node \X Bundle \X SUBSET (Name \X Content))]
  /\ stored \in [Command -> SUBSET Node]
  /\ undone \in [Command -> SUBSET (Node \X Name)]
  /\ \A c \in Command : proc[c].pc \in {"bundle", "extract", "open", "write", "wipe"} =>
       proc[c].left # {}

\* As long as something is left of a registry for which it could be needed, its resource
\* is there: a delete that failed or was killed anywhere can be run again.
Resumable == ~registry /\ ~overlapped => deployment # "live" /\ ~service

\* A delete that succeeds has emptied the directories of all pods that it found, except
\* of those to which images were imported meanwhile.
Emptied ==
  \A c \in Command : At(c, "ok") /\ proc[c].job.op = "delete" =>
    \A p \in proc[c].targets :
      NodeOf[p] \notin stored[c] => \A m \in Name : files[NodeOf[p]][m] = None

\* A file was on the node as the entry has it, since command c began.
Brings(c, n, e) == <<n, e[1], e[2]>> \in held[c]
\* Excepted are the files that another command removed or replaced while this one was
\* writing them: tar does not notice; ...
Lost(c, n, e) == <<n, e[1]>> \in undone[c]
\* ... and with a directory, the links that led to another image before.
Kept(c, n, e) ==
  proc[c].job.dir /\ e[1] \in Tag /\ \E x \in Content \ {e[2]} : <<n, e[1], x>> \in held[c]

\* An import that succeeds has got each bundle for each pod that it found, and has
\* brought all files that the bundle then had to the pod's node (with a directory, to
\* the node kb runs on), whatever an import that failed or was killed had left there,
\* but for those excepted above.
GotEach(c) ==
  LET r == proc[c] IN
  \A p \in r.targets, k \in DOMAIN r.job.bundles : \E t \in got[c] :
    t[1] = (IF r.job.dir THEN Local ELSE NodeOf[p]) /\ t[2] = r.job.bundles[k]
Imported(c) ==
  /\ GotEach(c)
  /\ \A t \in got[c] : \A e \in t[3] : Brings(c, t[1], e) \/ Lost(c, t[1], e) \/ Kept(c, t[1], e)
ImportSound ==
  \A c \in Command : At(c, "ok") /\ proc[c].job.op = "import" => Imported(c)
=============================================================================
