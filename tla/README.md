# kube-bundler in TLA+

TLA+ models of kube-bundler (`kb`): what its commands and its status server do to
a cluster, checked with TLC on small instances and, for the properties that
matter most, proved with TLAPS for every value of the constants. Paths below are
relative to the repository (`src/` in PROJECT.json).

## 1. The system

kube-bundler packages applications as bundles and installs them on Kubernetes.
Nearly everything is done by `kb`, a command that makes a *sequence of
Kubernetes API calls* and exits. It keeps no state but the cluster's, takes no
lock and sets no `resourceVersion` except where noted, so two commands, or a
command and its interrupted predecessor, meet in the cluster's objects. Two
long-running programs watch the result: `kb server health-status` and the
`cluster-status` daemon on every node.

| Component | State it keeps | Operations | What makes it hard | What makes it correct |
|---|---|---|---|---|
| Deploying an install (`managers/deploy.go`, `deploysmoketest.go`, `cmd/kb/subcommands/uninstall.go`) | per install: a Job per *name* (apply, diff and delete share one), a ConfigMap, the workloads | Deploy, Delete, DeploySmoketest, uninstall | delete-then-create of one name; background deletion; two processes; the configmap is read by the pod when it starts; timeouts | a verdict is that of one's own job; uninstall removes nothing before the workloads are gone; what runs is what was asked for and valid; the command returns |
| API access (`managers/resource.go`) | none | Get, CreateOrPatch, Apply, Patch, Delete | get and write are two calls | a patch changes what it means to change; Delete returns after the deletion |
| Generated parameters (`managers/parameter.go`) | one Secret `kubebundler-global` | get or generate a value | create, then unconditional Update; optimistic concurrency after that; crash between the calls | all commands get the same value for the same key |
| Installs and their configuration (`managers/install.go`, `config.go`) | `Install.spec.parameters` and its field owners | install, config set, config remove, delete | server-side apply and merge patches on one field; read-modify-write | an install preserves what is configured; a set changes its key only and brings in no unknown one |
| Manifests (`managers/manifest.go`, `register.go`) | Applications, Installs | register, install all, deploy in layers | order from two sources of requirements; partial failure | dependencies first; only unsolvable manifests are refused; success means all is deployed |
| Application status (`managers/status_app.go`) | two `sync.Map`s, a goroutine per application | List loop, check loop | late cancellation, successors, a data race, a panic on what cannot be parsed | one goroutine per application; no status left behind; the statuses converge |
| Node status (`managers/status_node.go`, `cmd/cluster-status`) | `sync.Map`s on both sides, goroutine per node | node List loop, checks, HTTP between the two | the server learns from the daemon that learns from the server; restarts; a nil assertion | no crash; statuses converge |
| Resource status, rollout (`managers/status_resource.go`, `rollout.go`, `helpers/rolloutstatus`, `resources/`) | the published list of statuses | status of a workload from its replica counts; waiting for a bundle's workloads; restart, scale, delete | an object's status is that of an earlier generation until its controller has looked; zero, odd and too few replicas | a wait that succeeds saw the rollout it was for; the status is the one the pods deserve |
| Bundle sources (`managers/source.go`, `publish.go`, `copy.go`) | files or objects of bundles, one metadata file with the latest version | publish, copy, get from several sources | interruption between bundle and metadata; a file rewritten in place; partial failure over several sources | the latest version was put in full; what is got is whole; the first source that has it gives it |
| Registry of the cluster (`managers/registry.go`) | Registry, deployment, service, pods, the files on the nodes | deploy, delete, import | four steps that can stop half-way; files left by an import that stopped, or of an earlier build | a deletion can be run again and leaves nothing; an import that succeeds brought all images |
| Bundle build (`managers/build.go`) | images and tags of a docker daemon, a registry container on a fixed port, the bundle file | build | builds that share the daemon, its tags, names of images and the port; containers left behind; errors reported on a stream | a bundle has all the images of its application and no others |
| Bootstrap, flavors, `waitfor` | | | | |
| Controllers (`controllers/`) | none | every Reconcile returns at once | | |

The components interact through the cluster: a deploy reads the Install that
`config` writes and the secret that any command may extend; a manifest's deploy
calls Deploy for each install; the status server reads the Applications that
registration writes. `DeployJob` has the edits of `config` as an action of the
environment (`Configure`), `ManifestDeploy` has one Deploy as one action, and
`InstallConfig` has the generation of a secret as one action (`Generate`), and
`DeployJob` has the rollout wait as one step; each of them is modelled in full by
the module of its own component. The way of an image from `kb build` to the nodes of
a cluster is composed in `Images`: the bundle files are what the two stages share.

## 2. The modules

| Module | Models | Proofs |
|---|---|---|
| `DeployJob` | `DeployManager.Deploy` and `Delete` and the commands made of them, the job controller, the pod | `DeployJobProofs` |
| `GlobalSecret` | `getSecretValue`, `getGlobalSecret` | `GlobalSecretProofs` |
| `SecretVault` | the abstract specification of `GlobalSecret`: a store in which each value is chosen once | |
| `InstallConfig` | `InstallManager.Install`, `ConfigManager.Set` and `Remove`, `ResourceManager.Apply` and `Patch` on the parameters | `InstallProofs` |
| `ManifestDeploy` | `ManifestManager.Install` and `deploy`, `RegisterAll`, the layered topological sort | `InstallProofs` |
| `AppStatus` | `updateAppList`, `runApplicationCheck` | `AppStatusProofs` |
| `NodeHealth` | `updateClusterList`, `runNodeCheck` and the other side, `updateClusterNodes` and `getStatus` of the `cluster-status` daemon | `NodeHealthProofs` |
| `CheckPool` | the abstract specification of `AppStatus` and of the server in `NodeHealth`: workers that check keys and show statuses | |
| `Workloads` | the package `resources`, the viewers of `helpers/rolloutstatus`, `RolloutStatusManager.Wait`, `updateResourceList` | `WorkloadsProofs` |
| `BundleSource` | the sources, `PublishManager`, `CopyManager` | `BundleSourceProofs` |
| `BundleBuild` | `BuildManager` | |
| `RegistryDeploy` | `RegistryManager` | |
| `Images` | the composition of `BundleBuild` and `RegistryDeploy` | `ImagesProofs`, for all three |
| `MC...` | the constants of the TLC runs | |

### DeployJob

One action per API call. `Preflight` is everything Deploy reads and validates
before it changes anything. `DeleteJob` is the DeleteAllOf with foreground
propagation: the job stays as *terminating* until `CollectJob`. `DeleteWait` is
the poll after it, whose condition every answer meets (`PollConditionMet`), so
that the Create (`CreateJob`) may meet the old job; that it is answered
AlreadyExists, and that this ends the command, is what keeps the verdicts right
(`Conflict`). `ConfigmapGet` and `ConfigmapWrite` are the two halves of
`CreateOrPatch`. `LogsGet`, `LogsList`, `LogsStream`, `LogsError` are GetLogs, which is
called in three places (`printing`): by `pollJob` first, under the timeout; by `pollJob`
again after a failed poll, without a deadline, unless the logs were shown already
(`PollFailed`); and by `diff bundle` after its Deploy, without a deadline. `ShowLogs` is
the flag, which only `deploy` and `smoketest` have (`LogsShown`): `uninstall` and `diff
bundle` pass its default.
`Expire` is the timeout, `PollJob` the iteration of `pollJob` that ends it (the
iterations that change nothing are stutters). `Fail`, `Succeed` and
`StartCleanup` say what the calling command does with Deploy's answer. `Crash`
stops a process anywhere, `ApiError` fails any call. Of the cluster, `PodCreate`
to `JobDeadline` are the job controller and the pod of `bases/static-deploy`,
which reads the configmap when it starts. The model's jobs have a uid
that grows, to tell "my job" from "a job of that name": `since` and `seenUid` are
history variables.

### GlobalSecret and SecretVault

`GetSecret`, `CreateSecret` and `UpdateSecret` are the three API calls of
`getSecretValue`. An Update by a process that read the secret carries the
resourceVersion it read (`Accepted`); the process that created it sends none. An
entry is added to the `Data` map that was read: when the map is nil, because the
secret has no entry, the assignment panics (`crashed`). That panic is what makes
the unconditional Update of the creator harmless: nobody but the creator can add
the first entry. It also makes an empty secret permanent (finding
`secret_empty`). `SecretVault` has two actions, choose a value for a key once and
hand it out; the refinement maps `vault` to the secret's entries and what was
handed out to what the processes returned.

### InstallConfig

`Apply` is server-side apply with forced ownership of the atomic list
`spec.parameters`, with its owners (`managers`): an apply of an empty list removes
the field only when applies alone have set it. The Set and Remove commands get
the install (`GetInstall`) and send the whole list as a merge patch (`PatchInstall`).
`StartInstall` gives the install any list: `kb install manifest` hands over what the
manifest has for the bundle (`managers/manifest.go:84`, `:142`, `:158`) and nobody compares
it with the definitions. The history variable `passed` remembers the undefined names that
were given so; a set accepts those too once they are listed (`MergedKeys`). A list names a parameter at
most once here; of a parameter that a manifest names twice the code keeps both entries.

### ManifestDeploy

`Register` accepts or refuses the bundles, `CreateInstall` makes one Install per
bundle and suffix (from the *applications'* requirements), `Lookup` fetches the
installs to be deployed (with the suffixes of the *manifest's* requirements),
`Solve` is one layer of the sort, `Deploy` and `Deployed` one Deploy. The
dependencies given to the solver are `Deps`. Registration and
deployment use the same solver, an external package, modelled by its contract: it
returns an order or nil (`Solvable`).

### AppStatus

The updater's actions follow one pass of `updateAppList`: `List`, then for each
application either `StartCheck` or a refresh of the tracked AppContext, in two
steps because the assignment of a struct is not atomic and the check goroutine
copies it meanwhile (`Readable`: the old value, the new one or a mixture, `Torn`),
then `StopCheck` for each one that is gone. A check goroutine loads the
AppContext, checks the endpoints, stores the status, and in the `select` waits
for its cancellation or the timer: between the store and the next `select` it
does not see a cancellation, and its `Return` deletes the application's status
even when a successor published it. `Restart` ends the server, and all of its
maps, and starts it again (`NewServer`); `MaxRestarts` bounds these restarts only. A
specification with an endpoint that is no template (`Malformed`) does the same by a
panic (`Panic`), as often as it is checked, which nothing bounds: the error of `Parse` is
dropped and the template is nil. `Converges` is therefore about behaviours in which the
applications are well-formed from some time on; while one is malformed, none keeps a
status (section 4).

### NodeHealth

The server's half has the shape of `AppStatus`: `List`, `StoreNode` for each node
listed, `StopCheck` for each one that is gone, and check goroutines that load the
node's address, ask, store and wait. Three things differ. A goroutine that finds its
node deleted fails an assertion, which ends the process (`Panic`); the cluster starts
it again, with empty maps and no goroutine (`ServerStarts`). That does happen: a
goroutine that is stopped late deletes the entry that a node which came back was
just given, and its successor loads nothing. What is published is either
"Not Available" or the daemon's answer. And the daemon answers with a status only
after it found its own node among the nodes that have a status at the server
(`UpdateClusterNodes`, `GetStatus`): each side needs the other, and what starts the
circle is that "Not Available" is published too. `UpdateClusterNodes` is one action
because nothing else uses the daemon's tracker and it makes a single request. A
daemon's `getStatus` goroutines never end, so that `running` and `status` only go
back when the daemon restarts.

`Ask` is the request and its answer. An address the node has had may still lead to its
daemon, or to nobody (`MayReach`); it must be answered only when the address is right
and `calm` is true. `calm` says that nothing fails, restarts or changes any more, which
it may become at any moment and then remains. Two things are assumed of the cluster. A
node's address is its own: two nodes never share one, not even one after the other. And a
node that is listed has an address: `managers/status_node.go:128` takes the first of
`Status.Addresses`, and a node without any would be one more panic.

### CheckPool

What the two managers have in common, without lists, maps and timers: a key has at most
one *active* worker, `Stop` makes it a *leaving* one, which goes some time later
(`Leave`) and takes the key's status with it, its successor's too; and the status of a
key is shown only by a worker of the key, active or leaving. `AppStatus` and `NodeHealth`
map `active` to the tracker, `leaving` to the cancelled goroutines and `shown` to the keys
of the results (`Pool`), so that each pass of an updater and each wait of a goroutine is a
stutter. A status is withdrawn by an active worker in neither of them: in `NodeHealth`,
because even an address that is not reached is published ("Not Available"). That no status is
left behind without a goroutine that will replace or delete it (`ResultsOwned`) is so of
every such pool; it is stated as a theorem of its own, and the runs check the refinement.

### Workloads

An object of the API has the generation of its spec (`gen`), what is wanted, and a
status that `Report` brings up to date at some later time; `pods` is what is really
there, of the present template and of earlier ones. `Restart...`, `Scale...` and
`Delete...` are the operations of the package `resources`, one per kind, done by
whoever calls them; `Apply` is the deploy job. `AddPod` to `JobEnds` are the
controllers and the kubelets, which may do their work in any order.

`RolloutWait` is `RolloutStatusManager.Wait`: it goes through the application's
resources, and each `Poll...` is one round of the loop in the `Wait` of that kind,
with the viewer's condition (`DeploymentDone`, `StatefulsetDone`, ...); a round that
changes nothing is a stutter. The history variable `rolled` is the last generation
whose replicas were seen to be ready at some `Report`, `since` the generations when
the wait began; `WaitSound` compares them. It asks for the resources before the first
Service only, because a Service makes the code return, and not for a kubegres, whose
statefulsets are those that exist when the wait looks and may be none.

`UpdateResourceList` is the status server's goroutine: list the installs, fetch each
resource and calculate a status, publish all of them. `Describes` says what a status
means in terms of the pods, independently of `CalculateStatus`: *impacted* is a
statefulset with some pods ready and no majority, `n/2 + 1`, of those wanted, as
`resources/deployable_resource.go:105` says. The code compares with `n/2`, so that
`StatusConverges` leaves open which of *degraded* and *impacted* a statefulset with just half of its
replicas is (`HalfReady`); section 4 says what the code makes of it.

### BundleSource

A bundle file is `Size` parts, and only its end makes it an archive that can be opened
(`Parses`). `Create` and `CopyPart` are a directory's Put, in place: whoever has the
file open (`shared`) sees it change. `Upload` sends parts to a bucket, where the object
appears at once. `PutMetadata` writes the latest version, in a directory in two steps
(`os.WriteFile` empties the file first, and what is read then cannot be decoded, `bad`).
`ReadMetadata`, `OpenShared`, `Download` and `GetListed` are the Gets; `NotFound` and
`GetError` are the two ways on in `MultiSource.Get`. `PutError` ends a publish and is
logged by a copy; `Kill` ends a process anywhere. The versions that are rewritten while
another command reads or writes them are remembered in `contested`; the properties
except them, because commands do read torn files then (see section 4).

### BundleBuild, RegistryDeploy, Images

`BundleBuild` follows `BuildManager`: the deploy image is built and uploaded, the
registry's container is created and started (which fails while another has port 5000),
the images are pulled, tagged, pushed and copied into the bundle, and the deferred
`stopLocalRegistry` runs. What the daemon and the registries hold under a name is a
`Content`: the image as somebody published it, or the deploy image that build number *n* of
an application made, so that an old and a new image of one name are two. The tag in the build's
registry is the image's name without its host (`Target`; `TagImage`), and two images may
have the same. A push goes to whoever has the port and with all the tags of the
repository that the daemon has (`Pushed`). What docker says on the stream of a pull or
push is not looked at: the action succeeds without effect and sets the history
variable `unseen`. Nothing keeps the name of a deploy image to one application: two builds
*meet* (`Meet`) when one of the applications lists the deploy image of the other, or is the other, and the
history variable `rival` marks both when they run at the same time. `BuildSound` is about the builds that
met no hidden error and no such build, whatever ran before or after them, and the
applications whose images do not differ in their hosts only (`Distinct`). `BuildFails`, `StopFails` and `KillBuild` are
the failures, and `FreePort` somebody who removes the container that was left.

`RegistryDeploy` follows `RegistryManager`. A deletion wipes the contents of each pod
that it listed, then deletes the deployment, the service and the Registry. An import gets
each bundle for each pod and writes the entries of its tar one by one. An entry (`Tar`) is either
the data of an image, in a file that is named after its digest, or the link of a tag, a
file that names the image; the links come last. They are
written through the pod (`TarFile`) or into a directory of the node `kb` runs on
(`StatFile`, `OpenFile`), where a file that is already there is skipped when it has the size of the entry
and makes the import fail when it has not. A data file that is whole has the right
content then, and a link has the same size whatever image it names, so that an old link is kept
(`Kept`), which `ImportSound` and `Delivered` except. The files of a node outlive the pods. `CommandFails` ends a command
anywhere, and the file it was writing stays partial; the properties also except a file that
another command removed or replaced while it was being written (`Lost`), which neither
tar nor a copy notices. The pods come and go (`MakePod`, `RunPod`, `StopPod`).

`Images` composes the two: `RegistryDeploy` is an instance whose bundles are
`BundleBuild`'s applications, and `kb` is the variable they share. Its constant
`Setups` says which processes do anything in an instance, for which applications, which
bundles were built before, and whether the registry is up, so that TLC can look at two
builds, at a build and an import, and at two commands of the registry without
the product of all of them. `trusted` remembers whose last build is one that `BuildSound` is
about, so that `Delivered` can follow it from `kb build` to the nodes.

## 3. The runs

| Run | Question | Instance |
|---|---|---|
| `deploy_concurrent` | Do two processes that deploy and uninstall the same install keep apart? `FreshVerdict`, `UninstallEarned`, `OnlyValidDeployed` | 2 processes, 1 command each, 1 valid and 1 invalid spec, 1 edit (1.2M states) |
| `deploy_sequential` | Does a command that succeeds leave what it promised, after any predecessor that crashed anywhere? `TypeOK`, `DeployedAsRequested`, `NoOrphans`. Does every command return, or end up in a printing of logs that has no deadline; do `deploy` and `smoketest` return when `--show-logs` is given? `Terminates` | 1 process, 2 commands of 5 kinds, 3 specs, 2 edits, `FairSpec` (0.59M states) |
| `deploy_delete` | finding | 1 process, 2 commands |
| `secret_shared` | Do all processes get the same value? `TypeOK`, `Agreed`, `ImplementsVault` | 2 processes, 2 rounds each, 2 keys, 2 values |
| `secret_empty` | finding | 1 process on a new cluster |
| `config_sequential` | Are parameters preserved, and edits confined to their key, through any sequence of installs, sets, removes and deletions? `ConfigTypeOK`, `PreservesExisting`, `EditsOwnKey` | 1 process, 2 defined keys and an undefined one that manifests may give, 2 values, unbounded sequences (0.13M states) |
| `manifest_order` | Is the order right, the refusal right, the success complete? `TypeOK`, `DepsFirst`, `SolverRight`, `Complete` | 3 bundles, one with 2 installs, any requirements (1.6M states) |
| `app_status` | Do goroutines and statuses follow the applications? `TypeOK`, `OneChecker`, `Converges`, `ImplementsPool` | 2 applications, 2 specifications and a malformed one, 2 goroutines, 2 changes, 1 restart and any number of panics (1.7M states) |
| `node_status` | Does the server recover from everything it can meet, its own panics included? `TypeOK`, `OneChecker`, `Converges`, `ImplementsPool` | 1 node, 2 addresses, 2 goroutines, any number of changes and restarts (0.14M states) |
| `workloads` | Did a wait that succeeds see what it waited for, and does the published status become the one the pods deserve? `TypeOK`, `WaitSound`, `StatusConverges` | 13 applications of one to three resources, all kinds, 1 waiter or the server, 2 generations, 1 to 4 replicas (0.36M states) |
| `bundle_sources` | What can be relied on after publications and copies that were interrupted anywhere? `TypeOK`, `LatestEarned`, `PublishSound`, `GetWhole`, `FirstMatch` | 2 processes, 3 commands of 9 kinds, a directory, a bucket and a list of files, 2 versions, one of them in two builds, files of 2 parts (1.8M states) |
| `images` | Do the images of an application arrive, whatever fails? `TypeOK`, `BuildSound`, `OwnImages`, `Resumable`, `Emptied`, `ImportSound`, `Delivered` | 2 builds, of 2 applications with images of one name on two hosts; or 2 builds one after the other of applications that share a deploy image; or a build and an import, over an earlier build's images too; or 2 processes with 3 registry commands, 2 pods on 2 nodes (2.1M states) |

Why the bounds are enough. *Deploy*: with two processes every pair of API calls
can meet, and the third actor, whoever edits the install, is `Configure`; the
freshness property is about three jobs of one name (the old, mine, the other's),
which two commands of two processes make. With one process, two commands are a
predecessor that stopped anywhere and a successor. *Secret*: the first process
creates, the second reads between the Create and the Update or after, and a
second round meets the conflict of resource versions and a key that is there.
*Config*: the state space is finite without a bound. *Manifest*: cycles of two
and three bundles, missing requirements, two installs of one bundle, and an order
of three layers. *Applications*: two changes remove an application and register it
again, so that a goroutine that is stopped late meets its successor, or make one
malformed and well again; the bound on
goroutines makes the updater wait for a late one when both slots are taken, the
theorems have no such bound. *Nodes*: one node suffices to meet its own successor,
because a goroutine, an entry of a map and a daemon belong to one node each; what
nodes share is the pass over all of them and the panic that ends all goroutines, and
of these `OneChecker` and `ImplementsPool` are proved for any number of nodes. The state
space is finite without a bound on changes and restarts. *Workloads*: two generations are the one a wait may confuse with its own and
its own; the replicas are zero, all, a third, half and a quarter; workloads meet only in the order of
the list and in a kubegres, so that an application has up to three resources. *Sources*:
two parts tell whole, half and torn files apart, and three commands are an interrupted
publication, one that meets what it left, and a reader of both. *Images*: the port, the daemon's
tags and the bundle file are shared by two builds, of applications that have nothing, a
tag or the deploy image in common; two pods on two nodes make a
deletion or an import stop between them, and three commands are one that stopped, one
that runs it again, and another that meets it; a bundle that was built before and is built
again is the old and the new content of one tag. Bounds are constants named `Max...`, `Room` and `Setups`, or
the sizes of the sets of processes and goroutines.

In the runs of `DeployJob`, `GlobalSecret`, `ManifestDeploy`, `BundleSource` and
`Images` deadlock is not an error: processes are commands, and a state in which all
have ended is an end.

Fairness. `DeployJob!FairSpec` has weak fairness of each process's steps and of
its timer: the runtime schedules a running process and each API call has an
answer. Nothing is assumed of the cluster (a pod may stay Pending for ever),
because the command must return nevertheless. `AppStatus!FairSpec` has weak
fairness of `updateAppList` (a failed List is a stutter, so this says that a List
succeeds at last) and of each check goroutine (each HTTP request has a timeout).
`NodeHealth!FairSpec` has the same and weak fairness of the daemon's two loops (a
request to the server succeeds at last). Its `Converges` is about the behaviours that
become calm and promises nothing of the others. `Workloads!FairSpec` has weak fairness
of `updateResourceList` and of each controller's `Report` (the status of an object is
brought up to date at last); nothing is assumed of the pods, which need not become
ready. `StatusConverges`, too, is about the behaviours that become calm.

## 4. Findings

Each of these runs checks one property and TLC finds it violated.

- `deploy_delete`: the poll that is to wait for the deletion ends at the first
  answer, whatever it is, so Delete returns while the job is still there.
- `secret_empty`: a secret left without entries (a crash between Create and
  Update, or `kb config remove` on a new cluster) makes every later command that
  needs a value panic.

More disagreements are behaviours of the models that no run is spent on. The first five
are what the exceptions of `Terminates`, `Converges`, `StatusConverges`, `BuildSound` and
`ImportSound` are for: without them TLC finds these properties violated.

- Deploy: when the job failed or the timeout passed, `pollJob` prints the logs
  again with a context that has no deadline (`managers/deploy.go:479`), unless they were
  shown before. A job that failed by its own deadline has no pod left, and GetLogs then lists
  pods for ever, however well the cluster works (`Unbounded`), although `cmd/kb/subcommands/uninstall.go:41`
  calls the flag a timeout and uninstall has no `--show-logs`. `diff bundle` prints its
  logs without a deadline as well (`cmd/kb/subcommands/diff.go:113`).
- Application status: an endpoint that cannot be parsed as a template makes the status server
  panic (`managers/status_app.go:156`), and again after each restart, so that no
  application keeps a status; the warning and the `continue` that follow are never reached.
- Resource status: half of the replicas are counted as a quorum
  (`managers/status_resource.go:165` compares with `n/2`, where the comments at `:163` and
  `resources/deployable_resource.go:105` say a majority and `(n/2)+1`): a statefulset with one
  ready pod of three, or two of four, is *degraded*, not *impacted* (`HalfReady`).
- Build: of two images of an application whose names differ in their hosts only,
  the bundle has the one that was tagged last (`managers/build.go:418`), although
  `docs/02_building-bundles.md:113` says that it has all docker images associated with the
  application (`Distinct`).
- Registry: an import into a directory skips what has the size of the entry
  (`managers/registry.go:529`), so that the tags lead to the images of the bundle's earlier
  build (`Kept`), although the comment at `:533` says that a file that exists is overwritten.
- Deploy: the job of a smoketest is created under one name
  (`managers/deploy.go:339`) and polled under another (`:458`), that of the apply job. With two processes, a deploy can
  take the `Complete` of another process's delete job, created since under the same name, for its own.
- Configuration: a `config set` between the List and the Apply of an install is undone,
  and of two sets at once one is lost (`PreservesExisting` and `EditsOwnKey` with two
  processes). A manifest's parameters that no application defines are stored in the install.
- Manifests: the requirements that a manifest gives a bundle order the bundles
  that require it, not the bundle itself (`ManifestDeps`); a suffix that only an
  application's requirements give is used when the installs are created
  (`managers/manifest.go:136`) and not when they are looked up (`:191`), so that the
  deploy fails for want of an install that nobody created, although the comment at
  `managers/manifest.go:59` promises to install all bundles.
- Node status: the server of `NodeHealth` can panic, whenever a node leaves and comes
  back within the wait of its goroutine (`Panic`).
- Rollout wait: a Service in the list ends the wait, and the resources after it are not
  waited for; a kubegres whose statefulsets do not exist yet is not waited for either
  (`Finish`, `WaitKubegres`).
- Sources: a bucket's Get asks for the error code `NotFound` when a bundle is missing (`managers/source.go:414`)
  and for `NoSuchKey` when the metadata are (`:370`); the model takes a bundle that is
  missing in a bucket for not found. A directory's Get makes no ErrNotFound of a missing
  file, so that the search ends there although a later source has the bundle (`OpenShared`). A copy whose
  destination fails succeeds (`managers/copy.go:44`). A version that is put again in a
  directory is torn under its readers, and a copy of a bundle to the directory it
  comes from empties it.
- Registry: the comment at `managers/registry.go:533` says that a file that exists is
  overwritten; the file was not opened, so the copy fails, and an import to a directory
  that was interrupted once cannot be repeated before somebody removes the partial file.
- Build: a pull that docker fails on its stream is not
  noticed (`managers/build.go:353`), and the bundle lacks the image, or has the daemon's older one.
  A build that fails in the middle of the bundle file closes the archive all the same
  (`:250`), so that `kb import` takes what there is. Two builds at once that share a deploy
  image, which `app.yaml` names freely (`:96`), may each bundle the other's.

## 5. The proofs

The proof modules hold theorems of `Spec` for any constants that satisfy the
assumptions of the module (types of the constants, and that `None`-like values are
not members of the sets they complete). Each follows the same argument: an
inductive invariant, established by `Init`, preserved by every action, one step
per action, and implying the property.

- `DeployJobProofs`: `TypeCorrect`, `VerdictIsFresh`, `UninstallIsEarned`,
  `WorkloadsAreValid`, `DeployedIsRequested`, `NothingIsOrphaned`. A verdict is fresh because, from its Create on, a process's
  name never holds a job older than its `since`: uids grow, its Create succeeded,
  hence the name was free then, and whatever another process creates later is
  younger. The invariant says this of every process between its Create and its
  verdict. Workloads are valid because everything on the way from the install to
  the workloads is: what a process read and validated, what the configmap holds,
  what a pod started with. The last two have the hypothesis `OneProcess` (any two
  processes are the same): then the configmap is what the process wrote, the job of the
  install's name is nobody's or its own, and once its pod has succeeded no pod is left
  that could change the workloads (`Mine`, `DoneAsSeen`). Earlier commands may have been
  interrupted anywhere; their jobs are gone when the Create succeeds.
- `GlobalSecretProofs`: `TypeCorrect`, `SecretsAgree`, `SecretImplementsVault`. The
  invariant says that a process that will update with a version it read, when that
  is still the secret's, read the entries that are there; and that as long as the
  creator has not updated, the secret is empty, so the unconditional Update loses
  nothing.
- `InstallProofs`, for `InstallConfig`: `ConfigTypeCorrect` for any number of processes: what
  a list, a secret or a process holds is defined or was given to an install (`Known`), because a set has checked
  its key before, when it was known, and a remove leaves a key alone that is not in the list (`KeySound`).
  `ExistingIsPreserved` and `EditsAreOwn` have the hypothesis `OneProcess`; with it, what
  a process has read is still so when it writes (`Current`).
- `InstallProofs`, for `ManifestDeploy`: `TypeCorrect`, `DependenciesFirst`, `SolverIsRight`,
  `DeployIsComplete`. The layers that are left partition the placed installs that
  are not done, and each install's dependencies are in an earlier layer or done; an
  empty next layer makes the installs that are left a stuck set, and a complete
  placement leaves no set stuck (a stuck set would need a first member placed).
- `AppStatusProofs`: `TypeCorrect`, `CheckersAreTracked`, `ResultsAreOwned`, `ChecksArePooled`. The
  tracker's entries and the goroutines that are not cancelled correspond one to
  one; a goroutine that published returns only after it deleted what it published. The
  same invariant is what the refinement of `CheckPool` needs: a start finds the goroutine
  idle, and a cancellation reaches the goroutine of that application.
- `NodeHealthProofs`: `TypeCorrect`, `CheckersAreTracked`, `ResultsAreOwned`, `ChecksArePooled`. The same
  correspondence, which each new goroutine enters tracked and each cancelled one has
  left; a panic resets both sides of it at once. A result belongs to a goroutine of
  its node that has not returned, because only such a goroutine stores one, and when it
  returns it deletes the node's result with it. The refinement needs besides that a
  goroutine which comes to store an answer has one (`Answered`).
- `WorkloadsProofs`: `TypeCorrect`, `WaitIsSound`. When a status that was observed
  satisfies a viewer, the generation that was reported is the present one and the
  replicas were ready when it was reported, so `rolled` is at least that generation; and
  generations grow, so it is at least as young as the wait. The invariant says this of every
  object whose status is complete, and of the waiter that all resources before its
  position are rolled out since it began.
- `BundleSourceProofs`: `TypeCorrect`, `LatestIsEarned`, `PublishIsSound`, `GetIsWhole`,
  `FirstIsFound`. As long as a version is not contested, its file is the beginning of a
  bundle (`Begins`), so that a file as long as a bundle is one, which is why it is enough
  that the end of an archive parses; what a command has moved is the beginning of what it
  moves (`Moved`); and a write disturbs no other command, because one that reads or writes the
  same version would make it contested. The metadata follow a bundle that was moved in
  full. For the search, the invariant keeps that a source that had the bundle when the
  search began still has it: files, objects and metadata are replaced and never removed. That a
  source's `Get` for `Latest` finds the object needs more, and is where it is used that
  metadata are written last.

- `ImagesProofs`: `TypeCorrect`, `BuildIsSound`, `ImagesAreOwn`, `DeleteIsResumable`,
  `DeleteEmpties`, `ImportIsSound`, `ImagesAreDelivered`, from one invariant (`IInv`) of the
  composition, whose parts are:
  - *Builds* (`BuildInv`). A build whose registry serves has the port (`PortHeld`), so that
    nobody else pushes to that registry and what it holds is of the own application
    (`VolumeOwn`): this carries `OwnImages` past a killed build, whose registry keeps
    the port and is nobody's. `Genuine` says that the
    daemon and the remote registries have under a name what somebody made for that name. `Loaded` says how far a build that
    met no error has brought its images, from the daemon's deploy image to the bundle file, and
    which of the daemon's tags and of the registry's images it relies on meanwhile. The
    daemon's tags are relied on only while the build tags and pushes, when the port is its
    own, so that builds that share a tag cannot disturb it; the name of the deploy image is shared
    longer, and the only builds that replace what is there are those that meet this one,
    which have then marked both as rivals (`Apart`).
  - *Commands* (`RegistryInv`). `Wiped` is the part of the pods that a deletion has
    emptied so far, with the nodes to which something was stored since. An import has got a bundle for each
    pod and index before its position (`GotAll`), and each image of what it got is on
    the node, was lost or kept (`Reached`), or is among those still to be written to the node at hand (`Brought`). A
    file that is skipped because it is there was seen whole (`Seen`); a data file holds
    what it is named after (`Named`), so that the right image is there, and a link that led elsewhere is one of those
    excepted. A file that is being
    written is the writer's or known to have been undone (`Writes`), so that what ends
    whole is what the command wrote. `Resumable` is inductive only with `Sequenced`: as long
    as no deploy met a deletion, a deploy past its first step still has the Registry it
    made, and what a deletion has taken away stays away.
  - *The whole way*. A bundle that is trusted holds all images and no build is at
    work on it (`TrustSound`); what an import got of a bundle that was trusted since
    the import began is the whole application, each image with its data and its tag's link (`Carries`, `GotSound`). Together with `ImportSound` that is `Delivered`.

  Two cases came up in the proof that the run had not shown: an import of no bundles, which
  ends once it has listed the pods (`AfterPods`, now a job of the run), and a `kb` that
  could build nothing at all, which `BuildAssumption` excludes (`App # {}`).

Only model-checked: the liveness properties (`Terminates`, `Converges`, `StatusConverges`),
which need `ENABLED`, and the findings, which are counterexamples. Every other
property of a passing run is stated by a theorem.

## 6. What is not modelled, and the plan

PROJECT.json lists each component with its status, and the hazards there that have no
property say why. What is left, in this order:

1. `PeerChecks`: the rest of the daemon, `checkNodeOnline` for the other nodes, the
   goroutines that `getStatus` leaves behind and their number, and the addresses that
   are published and handed back, with nodes that take over an address of another.
2. `ParameterMerge`: `MergeAdditionalParameters` as a function on sequences against
   the reference "the override wins, the rest stays".
3. `Register`: the Application resources version by version, the solver's
   names against the maps' names; `ManifestDeploy` takes these for equal.
4. `DeployProxy`, and `waitfor`, a polling loop of one process.

Left out for good: the generated deep copies, printing and formatting (the logs and
statuses that `kb get` and `kb describe` print among them), the empty controllers, and
the credentials of `kb build`. Bootstrap and flavors are sequences of idempotent
applies without state of their own.
