--------------------------- MODULE ManifestDeploy ---------------------------
(***************************************************************************)
(* kb install manifest: ManifestManager.Install, which registers the       *)
(* bundles of a manifest and creates their installs, followed by           *)
(* ManifestManager.deploy, which sorts the installs into layers and        *)
(* deploys them one by one (managers/manifest.go).  An install is a bundle *)
(* with a suffix: a bundle that several others require can be installed    *)
(* once for each.  One Deploy is one action here; DeployJob is its model.  *)
(***************************************************************************)
EXTENDS Sequences

CONSTANTS Bundle,
          Suffix, NoSuffix,    \* NoSuffix is the empty one
          AppRequirement,      \* what applications may require
          ManifestRequirement, \* what a manifest may say that bundles require
          NoInstall

Install == Bundle \X Suffix

ASSUME SuffixAssumption == NoSuffix \in Suffix /\ NoInstall \notin Install
ASSUME RequirementAssumption == /\ AppRequirement \subseteq Install
                                /\ ManifestRequirement \subseteq Install

PC == {"start", "register", "install", "lookup", "solve", "deploy", "deploying",
       "ok", "error", "missing", "unsolvable"}

VARIABLES
  listed,    \* bundles of the manifest
  apps,      \* app.Spec.Requires of each bundle's application
  requires,  \* Requires of each bundle in the manifest
  pc,
  todo,      \* installs that Install has still to create
  created,   \* Install resources in the cluster
  placed,    \* installs the solver has put into a layer
  layers,    \* its layers, those that are deployed removed
  current,   \* install being deployed
  done       \* installs this command has deployed

input == <<listed, apps, requires>>
vars == <<listed, apps, requires, pc, todo, created, placed, layers, current, done>>

-----------------------------------------------------------------------------
\* An order exists unless some nodes always wait for each other, or for a node
\* that is missing.
Stuck(S, deps) ==
  S # {} /\ \A n \in S : \E d \in deps[n] : d \in S \/ d \notin DOMAIN deps
Solvable(deps) == \A S \in SUBSET DOMAIN deps : ~Stuck(S, deps)

\* RegisterAll: nothing requires itself, every requirement is known, and the
\* solver finds an order for the names.  Its entries are the listed bundles.
RequiredNames(b) == {r[1] : r \in apps[b]}
Registrable == /\ \A b \in listed : b \notin RequiredNames(b)
               /\ Solvable([b \in listed |-> RequiredNames(b)])

\* Suffixes with which application a requires bundle b.
SuffixesFor(a, b) == {s \in Suffix : <<b, s>> \in apps[a]}
Uses == {u \in listed \X listed : SuffixesFor(u[1], u[2]) # {}}

\* The installs of one bundle that Install creates: one for each application that
\* requires it, with the last suffix that one gives; without suffix if none does.
InstallsNamed(b, last) == {b}
InstallsOf(b, last) ==
  LET users == {a \in listed : SuffixesFor(a, b) # {}} IN
  IF users = {} THEN {<<b, NoSuffix>>} ELSE {<<b, last[<<a, b>>]>> : a \in users}

\* The installs that deploy looks for: the suffixes come from the manifest.
SuffixesInManifest(b) == {s \in Suffix : \E a \in listed : <<b, s>> \in requires[a]}
WantedOf(b) == {b} \X (IF SuffixesInManifest(b) = {} THEN {NoSuffix} ELSE SuffixesInManifest(b))
Wanted == UNION {WantedOf(b) : b \in listed}

\* The dependencies that deploy gives the solver for an install: what its
\* application requires, and what the manifest says those bundles require.
ManifestDeps(i) ==
  UNION {requires[r[1]] : r \in {q \in apps[i[1]] : q[1] \in listed}}
Deps(i) == apps[i[1]] \cup ManifestDeps(i)

\* What deploy gives the solver.
Entries == [i \in Wanted |-> Deps(i)]

\* The solver's next layer.
NextLayer == {i \in Wanted \ placed : Deps(i) \subseteq placed}

\* Where deploy goes when the solver returns nil.
NilIgnored == "deploy"
NilLayers == "unsolvable"

\* The installs of the layer that are not deployed yet.
OneOfLayer == IF Head(layers) \cap done = {} THEN Head(layers) ELSE {}
Pending == Head(layers) \ done

-----------------------------------------------------------------------------
Begin ==
  /\ pc = "start"
  /\ pc' = "register"
  /\ UNCHANGED <<input, todo, created, placed, layers, current, done>>

Register ==
  /\ pc = "register"
  /\ \/ /\ ~Registrable /\ pc' = "error" /\ UNCHANGED todo
     \/ /\ Registrable /\ pc' = "install"
        /\ \E last \in [Uses -> Suffix] :
             /\ \A u \in Uses : last[u] \in SuffixesFor(u[1], u[2])
             /\ todo' = UNION {InstallsOf(b, last) : b \in listed}
  /\ UNCHANGED <<input, created, placed, layers, current, done>>

CreateInstall(i) ==
  /\ pc = "install" /\ i \in todo
  /\ todo' = todo \ {i} /\ created' = created \cup {i}
  /\ UNCHANGED <<input, pc, placed, layers, current, done>>

EndInstall ==
  /\ pc = "install" /\ todo = {}
  /\ pc' = "lookup"
  /\ UNCHANGED <<input, todo, created, placed, layers, current, done>>

\* Every install that is to be deployed is fetched first.
Lookup ==
  /\ pc = "lookup"
  /\ pc' = IF Wanted \subseteq created THEN "solve" ELSE "missing"
  /\ UNCHANGED <<input, todo, created, placed, layers, current, done>>

\* LayeredTopologicalSort, layer by layer.
Solve ==
  /\ pc = "solve"
  /\ \/ /\ placed = Wanted
        /\ pc' = "deploy" /\ UNCHANGED <<placed, layers>>
     \/ /\ placed # Wanted /\ NextLayer = {}
        /\ pc' = NilLayers /\ UNCHANGED <<placed, layers>>
     \/ /\ NextLayer # {}
        /\ placed' = placed \cup NextLayer
        /\ layers' = Append(layers, NextLayer)
        /\ UNCHANGED pc
  /\ UNCHANGED <<input, todo, created, current, done>>

Deploy(i) ==
  /\ pc = "deploy" /\ layers # <<>> /\ i \in Pending
  /\ pc' = "deploying" /\ current' = i
  /\ UNCHANGED <<input, todo, created, placed, layers, done>>

\* Deploy returns; its error ends the command.
Deployed ==
  /\ pc = "deploying"
  /\ \/ pc' = "deploy" /\ done' = done \cup {current} /\ current' = NoInstall
     \/ pc' = "error" /\ UNCHANGED <<done, current>>
  /\ UNCHANGED <<input, todo, created, placed, layers>>

EndLayer ==
  /\ pc = "deploy"
  /\ IF layers = <<>>
     THEN pc' = "ok" /\ UNCHANGED layers
     ELSE Pending = {} /\ layers' = Tail(layers) /\ UNCHANGED pc
  /\ UNCHANGED <<input, todo, created, placed, current, done>>

\* An API call fails, or the process is interrupted.
Abort ==
  /\ pc \notin {"start", "ok", "error", "missing", "unsolvable"}
  /\ pc' = "error"
  /\ UNCHANGED <<input, todo, created, placed, layers, current, done>>

\* The command is run again.
Rerun ==
  /\ pc = "error"
  /\ pc' = "start" /\ todo' = {} /\ placed' = {} /\ layers' = <<>>
  /\ current' = NoInstall /\ done' = {}
  /\ UNCHANGED <<input, created>>

Init ==
  /\ listed \in SUBSET Bundle \ {{}}
  /\ apps \in [Bundle -> SUBSET AppRequirement]
  /\ requires \in [Bundle -> SUBSET ManifestRequirement]
  \* What is not in the manifest is never read.
  /\ \A b \in Bundle \ listed : apps[b] = {} /\ requires[b] = {}
  /\ pc = "start" /\ todo = {} /\ created = {}
  /\ placed = {} /\ layers = <<>> /\ current = NoInstall /\ done = {}

Next ==
  \/ Begin \/ Register \/ EndInstall \/ Lookup \/ Solve \/ Deployed \/ EndLayer
  \/ Abort \/ Rerun
  \/ \E i \in Install : CreateInstall(i) \/ Deploy(i)

Spec == Init /\ [][Next]_vars

-----------------------------------------------------------------------------
(* Properties *)

TypeOK ==
  /\ listed \subseteq Bundle
  /\ apps \in [Bundle -> SUBSET Install] /\ requires \in [Bundle -> SUBSET Install]
  /\ pc \in PC
  /\ todo \subseteq Install /\ created \subseteq Install
  /\ placed \subseteq Install /\ done \subseteq Install
  /\ layers \in Seq(SUBSET Install)
  /\ current \in Install \cup (IF pc = "deploying" THEN {} ELSE {NoInstall})

\* An install is deployed only when everything its application requires was
\* deployed by the same command, whatever came between the layers.
DepsFirst == pc = "deploying" => apps[current[1]] \subseteq done

\* A manifest is refused as unsolvable exactly when no order exists: when some
\* installs wait for each other or for one that is not deployed.
SolverRight ==
  /\ pc = "unsolvable" => ~Solvable(Entries)
  /\ pc \in {"deploy", "deploying", "ok"} => Solvable(Entries)

\* A command that ends well has deployed every install of the manifest, and has
\* deployed nothing else.
Complete == pc = "ok" => done = Wanted

=============================================================================
