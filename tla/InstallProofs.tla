--------------------------- MODULE InstallProofs ---------------------------
(***************************************************************************)
(* What is proved of the two modules about a manifest's installs: the      *)
(* order in which they are deployed (ManifestDeploy), for any manifest and *)
(* any applications; and what their lists of parameters hold               *)
(* (InstallConfig), for any names, values and lists.  That lists hold      *)
(* defined parameters only is so whatever processes run at once; that      *)
(* installs preserve and edits keep to their key is a matter of one        *)
(* process running at a time (OneProcess), which may be interrupted.       *)
(***************************************************************************)
EXTENDS ManifestDeploy, InstallConfig, Integers, TLAPS

Early == {"start", "register", "install", "lookup"}
Ordered == {"deploy", "deploying", "ok"}

\* The installs in the first n of some layers.
First(ls, n) == {i \in Install : \E k \in 1..Len(ls) : k <= n /\ i \in ls[k]}

\* A layer only depends on what is deployed and on the layers before it.
LayersOK ==
  \A n \in 1..Len(layers) : \A i \in layers[n] : Deps(i) \subseteq done \cup First(layers, n - 1)

\* No stuck set gets an install placed: this is what makes an unsolvable manifest
\* one without any order, and a solved one free of stuck sets.
NoneStuck == \A S \in SUBSET Wanted : Stuck(S, Entries) => S \cap placed = {}

IInv ==
  /\ placed \subseteq Wanted
  /\ pc \in Early => placed = {} /\ layers = <<>> /\ done = {}
  /\ pc = "solve" => done = {}
  /\ pc = "unsolvable" => placed # Wanted /\ NextLayer = {}
  /\ pc \in Ordered => placed = Wanted
  /\ pc \in Ordered \cup {"solve"} => done \cup First(layers, Len(layers)) = placed
  /\ pc = "ok" => layers = <<>>
  /\ pc \in Ordered \cup {"solve"} => LayersOK
  /\ NoneStuck
  /\ pc = "deploying" => layers # <<>> /\ current \in Pending

-----------------------------------------------------------------------------
(* The order of the installs: type correctness *)

LEMMA WantedType == ASSUME TypeOK PROVE Wanted \subseteq Install
  <1>1. ASSUME NEW b \in listed
        PROVE  WantedOf(b) \subseteq Install
    BY SuffixAssumption DEF WantedOf, SuffixesInManifest, TypeOK, Install
  <1>2. QED
    BY <1>1 DEF Wanted

LEMMA InstallsType ==
  ASSUME TypeOK, NEW last \in [Uses -> Suffix], NEW b \in listed
  PROVE  InstallsOf(b, last) \subseteq Install
  <1> DEFINE users == {a \in listed : SuffixesFor(a, b) # {}}
  <1>1. <<b, NoSuffix>> \in Install
    BY SuffixAssumption DEF Install, TypeOK
  <1>2. ASSUME NEW a \in users
        PROVE  <<b, last[<<a, b>>]>> \in Install
    <2>1. <<a, b>> \in Uses
      BY DEF Uses
    <2>2. last[<<a, b>>] \in Suffix
      BY <2>1
    <2>3. QED
      BY <2>2 DEF Install, TypeOK
  <1>3. QED
    BY <1>1, <1>2 DEF InstallsOf

LEMMA TypeInit == Init => TypeOK
  BY RequirementAssumption DEF Init, TypeOK, PC

LEMMA TypeStep == TypeOK /\ [Next]_vars => TypeOK'
  <1> SUFFICES ASSUME TypeOK, [Next]_vars
               PROVE  TypeOK'
    OBVIOUS
  <1> USE DEF TypeOK, PC, input
  <1>1. CASE Begin \/ EndInstall \/ Lookup \/ Abort
    BY <1>1 DEF Begin, EndInstall, Lookup, Abort
  <1>2. CASE Register
    <2>1. CASE ~Registrable /\ pc' = "error" /\ UNCHANGED todo
      BY <1>2, <2>1 DEF Register
    <2>2. ASSUME NEW last \in [Uses -> Suffix], pc' = "install",
                 todo' = UNION {InstallsOf(b, last) : b \in listed}
          PROVE  TypeOK'
      <3>1. todo' \subseteq Install
        BY <2>2, InstallsType
      <3>2. QED
        BY <1>2, <2>2, <3>1 DEF Register
    <2>3. QED
      BY <1>2, <2>1, <2>2 DEF Register
  <1>3. CASE Solve
    <2>1. NextLayer \subseteq Install
      BY WantedType DEF NextLayer
    <2>2. placed' \subseteq Install
      BY <1>3, <2>1 DEF Solve
    <2>3. layers' \in Seq(SUBSET Install)
      BY <1>3, <2>1 DEF Solve
    <2>4. QED
      BY <1>3, <2>2, <2>3 DEF Solve, NilLayers
  <1>4. CASE Deployed
    BY <1>4 DEF Deployed, Install
  <1>5. CASE EndLayer
    <2>1. layers' \in Seq(SUBSET Install)
      BY <1>5 DEF EndLayer
    <2>2. pc = "deploy" /\ pc' \in {"deploy", "ok"}
          /\ UNCHANGED <<listed, apps, requires, todo, created, placed, current, done>>
      BY <1>5 DEF EndLayer
    <2>3. QED
      BY <2>1, <2>2
  <1>6. CASE Rerun
    BY <1>6 DEF Rerun
  <1>7. ASSUME NEW i \in Install, CreateInstall(i) \/ Deploy(i)
        PROVE  TypeOK'
    BY <1>7 DEF CreateInstall, Deploy
  <1>8. CASE UNCHANGED vars
    BY <1>8 DEF vars
  <1>9. QED
    BY <1>1, <1>2, <1>3, <1>4, <1>5, <1>6, <1>7, <1>8 DEF Next

\* Every variable of ManifestDeploy keeps its type, in every behaviour.
THEOREM TypeCorrect == Spec => []TypeOK
  BY TypeInit, TypeStep, PTL DEF Spec

-----------------------------------------------------------------------------
(* The order of the installs: the invariant *)

LEMMA InputFrame ==
  ASSUME UNCHANGED input
  PROVE  /\ Wanted' = Wanted /\ Entries' = Entries
         /\ \A i : Deps(i)' = Deps(i)
  <1>1. Wanted' = Wanted
    BY DEF input, Wanted, WantedOf, SuffixesInManifest
  <1>2. \A i : Deps(i)' = Deps(i)
    BY DEF input, Deps, ManifestDeps
  <1>3. QED
    BY <1>1, <1>2 DEF Entries

LEMMA EntriesFact == DOMAIN Entries = Wanted /\ \A i \in Wanted : Entries[i] = Deps(i)
  BY DEF Entries

\* Steps that leave the order and the progress alone.
LEMMA QuietInv ==
  ASSUME TypeOK, IInv, UNCHANGED <<input, placed, layers, done>>,
         \/ pc \in Early /\ pc' \in Early
         \/ pc = "lookup" /\ pc' = "solve"
         \/ pc = "solve" /\ pc' = "deploy" /\ placed = Wanted
         \/ pc = "solve" /\ pc' = "unsolvable" /\ placed # Wanted /\ NextLayer = {}
         \/ pc = "deploy" /\ pc' = "ok" /\ layers = <<>>
         \/ pc' \in {"error", "missing"}
         \/ pc' = pc /\ UNCHANGED current
  PROVE  IInv'
  <1> USE DEF Early, Ordered
  <1>1. /\ Wanted' = Wanted /\ Entries' = Entries /\ \A i : Deps(i)' = Deps(i)
    BY InputFrame
  <1>2. NextLayer' = NextLayer /\ Pending' = Pending
    BY <1>1 DEF NextLayer, Pending
  <1>3. NoneStuck'
    BY <1>1 DEF IInv, NoneStuck
  <1>4. \A n : First(layers', n) = First(layers, n)
    BY DEF First
  <1>5. LayersOK => LayersOK'
    BY <1>1, <1>4 DEF LayersOK
  <1>6. CASE pc = "lookup" /\ pc' = "solve"
    <2>1. layers = <<>> /\ placed = {} /\ done = {}
      BY <1>6 DEF IInv
    <2>2. LayersOK' /\ First(layers', Len(layers')) = {}
      BY <2>1 DEF LayersOK, First
    <2>3. QED
      BY <1>1, <1>3, <1>6, <2>1, <2>2 DEF IInv
  <1>7. CASE ~(pc = "lookup" /\ pc' = "solve")
    <2>1. First(layers', Len(layers')) = First(layers, Len(layers))
      BY <1>4
    <2>2. QED
      BY <1>1, <1>2, <1>3, <1>5, <1>7, <2>1 DEF IInv
  <1>8. QED
    BY <1>6, <1>7

\* The solver places a layer.
LEMMA PlaceInv ==
  ASSUME TypeOK, IInv, pc = "solve", UNCHANGED <<input, pc, done>>,
         placed' = placed \cup NextLayer, layers' = Append(layers, NextLayer)
  PROVE  IInv'
  <1> USE DEF Early, Ordered
  <1>1. /\ Wanted' = Wanted /\ Entries' = Entries /\ \A i : Deps(i)' = Deps(i)
    BY InputFrame
  <1>2. NextLayer \subseteq Wanted /\ Wanted \subseteq Install
    BY WantedType DEF NextLayer
  <1>3. /\ layers \in Seq(SUBSET Install) /\ Len(layers) \in Nat
        /\ Len(layers') = Len(layers) + 1
        /\ \A k \in 1..Len(layers) : layers'[k] = layers[k]
        /\ layers'[Len(layers) + 1] = NextLayer
    BY <1>2 DEF TypeOK
  <1>4. \A n \in 0..Len(layers) : First(layers', n) = First(layers, n)
    BY <1>3 DEF First
  <1>5. First(layers', Len(layers)) = placed /\ done = {}
    <2>1. Len(layers) \in 0..Len(layers)
      BY <1>3
    <2>2. First(layers', Len(layers)) = First(layers, Len(layers))
      BY <1>4, <2>1
    <2>3. done \cup First(layers, Len(layers)) = placed /\ done = {}
      BY DEF IInv
    <2>4. QED
      BY <2>2, <2>3
  <1>6. First(layers', Len(layers')) = placed \cup NextLayer
    BY <1>2, <1>3, <1>4, <1>5 DEF First
  <1>7. LayersOK'
    <2> SUFFICES ASSUME NEW n \in 1..Len(layers'), NEW i \in layers'[n]
                 PROVE  Deps(i) \subseteq First(layers', n - 1)
      BY <1>1, <1>5 DEF LayersOK
    <2>1. CASE n = Len(layers) + 1
      <3>1. i \in NextLayer
        BY <1>3, <2>1
      <3>2. Deps(i) \subseteq placed
        BY <3>1 DEF NextLayer
      <3>3. n - 1 = Len(layers)
        BY <1>3, <2>1
      <3>4. First(layers', n - 1) = placed
        BY <1>3, <1>4, <1>5, <3>3
      <3>5. QED
        BY <3>2, <3>4
    <2>2. CASE n \in 1..Len(layers)
      <3>1. i \in layers[n] /\ n - 1 \in 0..Len(layers)
        BY <1>3, <2>2
      <3>2. Deps(i) \subseteq done \cup First(layers, n - 1)
        BY <2>2, <3>1 DEF IInv, LayersOK
      <3>3. First(layers', n - 1) = First(layers, n - 1)
        BY <1>4, <3>1
      <3>4. QED
        BY <1>5, <3>2, <3>3
    <2>3. QED
      BY <1>3, <2>1, <2>2
  <1>8. NoneStuck'
    <2> SUFFICES ASSUME NEW S \in SUBSET Wanted, Stuck(S, Entries), NEW i \in S \cap NextLayer
                 PROVE  FALSE
      BY <1>1 DEF IInv, NoneStuck
    <2>1. PICK d \in Deps(i) : d \in S \/ d \notin Wanted
      BY EntriesFact DEF Stuck
    <2>2. d \in placed /\ placed \subseteq Wanted
      BY DEF NextLayer, IInv
    <2>3. QED
      BY <2>1, <2>2 DEF IInv, NoneStuck
  <1>9. QED
    BY <1>1, <1>2, <1>5, <1>6, <1>7, <1>8 DEF IInv

\* The layer that is being deployed.
LEMMA HeadFact ==
  ASSUME TypeOK, layers # <<>>
  PROVE  /\ Len(layers) \in Nat \ {0} /\ Head(layers) = layers[1]
         /\ Len(Tail(layers)) = Len(layers) - 1
         /\ \A k \in 1..(Len(layers) - 1) : Tail(layers)[k] = layers[k + 1]
  BY DEF TypeOK

LEMMA DeployInv ==
  ASSUME TypeOK, IInv, NEW i \in Install, Deploy(i)
  PROVE  IInv'
  <1> USE DEF Early, Ordered
  <1>1. /\ Wanted' = Wanted /\ Entries' = Entries /\ \A j : Deps(j)' = Deps(j)
    BY InputFrame DEF Deploy
  <1>2. UNCHANGED <<placed, layers, done>> /\ Pending' = Pending /\ current' \in Pending
    BY DEF Deploy, Pending
  <1>3. \A n : First(layers', n) = First(layers, n)
    BY <1>2 DEF First
  <1>4. First(layers', Len(layers')) = First(layers, Len(layers))
    BY <1>2, <1>3
  <1>5. LayersOK' /\ NoneStuck'
    BY <1>1, <1>2, <1>3 DEF IInv, LayersOK, NoneStuck, Deploy
  <1>6. QED
    BY <1>1, <1>2, <1>4, <1>5 DEF IInv, Deploy

LEMMA DeployedInv ==
  ASSUME TypeOK, IInv, pc = "deploying", pc' = "deploy", done' = done \cup {current},
         UNCHANGED <<input, placed, layers>>
  PROVE  IInv'
  <1> USE DEF Early, Ordered
  <1>1. /\ Wanted' = Wanted /\ Entries' = Entries /\ \A j : Deps(j)' = Deps(j)
    BY InputFrame
  <1>2. \A n : First(layers', n) = First(layers, n)
    BY DEF First
  <1>3. layers # <<>> /\ current \in Head(layers) /\ current \in Install
    BY DEF IInv, Pending, TypeOK
  <1>4. current \in First(layers, Len(layers))
    BY <1>3, HeadFact DEF First
  <1>5. done' \cup First(layers', Len(layers')) = done \cup First(layers, Len(layers))
    BY <1>2, <1>4
  <1>6. LayersOK' /\ NoneStuck'
    BY <1>1, <1>2 DEF IInv, LayersOK, NoneStuck
  <1>7. QED
    BY <1>1, <1>5, <1>6 DEF IInv

\* A layer is deployed: the next becomes the first.
LEMMA TailInv ==
  ASSUME TypeOK, IInv, pc = "deploy", layers # <<>>, Pending = {},
         layers' = Tail(layers), UNCHANGED <<input, pc, placed, done>>
  PROVE  IInv'
  <1> USE DEF Early, Ordered
  <1>1. /\ Wanted' = Wanted /\ Entries' = Entries /\ \A j : Deps(j)' = Deps(j)
    BY InputFrame
  <1>2. layers[1] \subseteq done
    BY HeadFact DEF Pending
  <1>3. /\ Len(layers) \in Nat \ {0} /\ Len(layers') = Len(layers) - 1
        /\ \A k \in 1..(Len(layers) - 1) : layers'[k] = layers[k + 1]
    BY HeadFact
  <1>4. ASSUME NEW n \in 0..(Len(layers) - 1)
        PROVE  done \cup First(layers', n) = done \cup First(layers, n + 1)
    <2>1. ASSUME NEW i \in First(layers, n + 1)
          PROVE  i \in done \cup First(layers', n)
      <3>1. i \in Install
        BY DEF First
      <3>2. PICK k \in 1..Len(layers) : k <= n + 1 /\ i \in layers[k]
        BY DEF First
      <3>3. CASE k = 1
        BY <1>2, <3>2, <3>3
      <3>4. CASE k # 1
        <4>1. k - 1 \in 1..(Len(layers) - 1) /\ k - 1 <= n /\ (k - 1) + 1 = k
          BY <1>3, <3>2, <3>4
        <4>2. i \in layers'[k - 1]
          BY <1>3, <3>2, <4>1
        <4>3. QED
          BY <1>3, <3>1, <4>1, <4>2 DEF First
      <3>5. QED
        BY <3>3, <3>4
    <2>2. ASSUME NEW i \in First(layers', n)
          PROVE  i \in First(layers, n + 1)
      <3>1. PICK k \in 1..Len(layers') : k <= n /\ i \in layers'[k]
        BY DEF First
      <3>2. k + 1 \in 1..Len(layers) /\ k + 1 <= n + 1 /\ i \in layers[k + 1]
        BY <1>3, <3>1
      <3>3. QED
        BY <3>2 DEF First
    <2>3. QED
      BY <2>1, <2>2
  <1>5. done' \cup First(layers', Len(layers')) = done \cup First(layers, Len(layers))
    <2>1. Len(layers) - 1 \in 0..(Len(layers) - 1) /\ (Len(layers) - 1) + 1 = Len(layers)
      BY <1>3
    <2>2. done \cup First(layers', Len(layers) - 1) = done \cup First(layers, Len(layers))
      BY <1>4, <2>1
    <2>3. QED
      BY <1>3, <2>2 DEF First
  <1>6. LayersOK'
    <2> SUFFICES ASSUME NEW n \in 1..Len(layers'), NEW i \in layers'[n]
                 PROVE  Deps(i) \subseteq done \cup First(layers', n - 1)
      BY <1>1 DEF LayersOK
    <2>1. n + 1 \in 1..Len(layers) /\ i \in layers[n + 1] /\ (n + 1) - 1 = n
      BY <1>3
    <2>2. Deps(i) \subseteq done \cup First(layers, n)
      BY <2>1 DEF IInv, LayersOK
    <2>3. n - 1 \in 0..(Len(layers) - 1) /\ (n - 1) + 1 = n
      BY <1>3
    <2>4. QED
      BY <1>4, <2>2, <2>3
  <1>7. NoneStuck'
    BY <1>1 DEF IInv, NoneStuck
  <1>8. QED
    BY <1>1, <1>5, <1>6, <1>7 DEF IInv

LEMMA InvInit == Init => IInv
  BY DEF Init, IInv, Early, Ordered, NoneStuck

LEMMA InvStep == TypeOK /\ IInv /\ [Next]_vars => IInv'
  <1> SUFFICES ASSUME TypeOK, IInv, [Next]_vars
               PROVE  IInv'
    OBVIOUS
  <1>1. CASE Begin \/ Register \/ EndInstall \/ Lookup \/ Abort
    BY <1>1, QuietInv DEF Begin, Register, EndInstall, Lookup, Abort, Early
  <1>2. CASE Solve
    BY <1>2, QuietInv, PlaceInv DEF Solve, NilLayers
  <1>3. CASE Deployed
    BY <1>3, QuietInv, DeployedInv DEF Deployed
  <1>4. CASE EndLayer
    BY <1>4, QuietInv, TailInv DEF EndLayer
  <1>5. CASE Rerun
    BY <1>5 DEF Rerun, IInv, Early, Ordered, NoneStuck
  <1>6. ASSUME NEW i \in Install, CreateInstall(i)
        PROVE  IInv'
    BY <1>6, QuietInv DEF CreateInstall, Early
  <1>7. ASSUME NEW i \in Install, Deploy(i)
        PROVE  IInv'
    BY <1>7, DeployInv
  <1>8. CASE UNCHANGED vars
    BY <1>8, QuietInv DEF vars, input
  <1>9. QED
    BY <1>1, <1>2, <1>3, <1>4, <1>5, <1>6, <1>7, <1>8 DEF Next

LEMMA InvCorrect == Spec => []IInv
  BY InvInit, InvStep, TypeCorrect, PTL DEF Spec

\* Whatever the manifest, an install is deployed after everything its application
\* requires.
THEOREM DependenciesFirst == Spec => []DepsFirst
  <1>1. TypeOK /\ IInv => DepsFirst
    <2> SUFFICES ASSUME TypeOK, IInv, pc = "deploying"
                 PROVE  apps[current[1]] \subseteq done
      BY DEF DepsFirst
    <2>1. layers # <<>> /\ current \in layers[1] /\ 1 \in 1..Len(layers) /\ LayersOK
      BY HeadFact DEF IInv, Pending, Ordered
    <2>2. Deps(current) \subseteq done \cup First(layers, 1 - 1)
      BY <2>1 DEF LayersOK
    <2>3. First(layers, 1 - 1) = {}
      BY DEF First
    <2>4. QED
      BY <2>2, <2>3 DEF Deps
  <1>2. QED
    BY <1>1, TypeCorrect, InvCorrect, PTL

\* deploy refuses exactly the manifests that no order satisfies.
THEOREM SolverIsRight == Spec => []SolverRight
  <1>1. TypeOK /\ IInv => SolverRight
    <2> SUFFICES ASSUME TypeOK, IInv
                 PROVE  SolverRight
      OBVIOUS
    <2>1. ASSUME pc = "unsolvable"
          PROVE  ~Solvable(Entries)
      <3> DEFINE S == Wanted \ placed
      <3>1. S # {} /\ \A n \in S : ~(Deps(n) \subseteq placed)
        BY <2>1 DEF IInv, NextLayer
      <3>2. \A n \in S : \E d \in Deps(n) : d \in S \/ d \notin Wanted
        BY <3>1
      <3>3. Stuck(S, Entries)
        BY <3>1, <3>2, EntriesFact DEF Stuck
      <3>4. QED
        BY <3>3, EntriesFact DEF Solvable
    <2>2. ASSUME pc \in {"deploy", "deploying", "ok"}
          PROVE  Solvable(Entries)
      <3> SUFFICES ASSUME NEW S \in SUBSET Wanted, Stuck(S, Entries)
                   PROVE  FALSE
        BY EntriesFact DEF Solvable
      <3>1. S \cap Wanted = {}
        BY <2>2 DEF IInv, Ordered, NoneStuck
      <3>2. QED
        BY <3>1 DEF Stuck
    <2>3. QED
      BY <2>1, <2>2 DEF SolverRight
  <1>2. QED
    BY <1>1, TypeCorrect, InvCorrect, PTL

\* A manifest command that ends well has deployed all of its installs.
THEOREM DeployIsComplete == Spec => []Complete
  <1>1. TypeOK /\ IInv => Complete
    <2> SUFFICES ASSUME IInv, pc = "ok"
                 PROVE  done = Wanted
      BY DEF Complete
    <2>1. layers = <<>> /\ placed = Wanted /\ done \cup First(layers, Len(layers)) = placed
      BY DEF IInv, Ordered
    <2>2. First(layers, Len(layers)) = {}
      BY <2>1 DEF First
    <2>3. QED
      BY <2>1, <2>2
  <1>2. QED
    BY <1>1, TypeCorrect, InvCorrect, PTL

-----------------------------------------------------------------------------
(* The parameters of an install: the invariant for any number of processes *)

\* What the commands know of their key when they come to use it.
KeySound(r) ==
  /\ r.pc \in {"list", "apply"} => r.cmd = "install"
  /\ r.pc = "check" => r.cmd = "set" /\ r.key \in Name /\ r.value \in Value
  /\ r.pc = "secret" => r.cmd = "remove" /\ r.key \in Name
  /\ r.pc \in {"get", "patch"} =>
       /\ r.cmd \in {"set", "remove"} /\ r.key \in Name
       /\ r.cmd = "set" => r.key \in Known

\* The lists that a process holds name what is known, and only such keys are set.
ProcessKnown(r) ==
  /\ r \in Process /\ KeySound(r)
  /\ Listed(r.params) \subseteq Known /\ Listed(r.read) \subseteq Known

ConfigInv == ConfigTypeOK /\ \A p \in Proc : KeySound(kb[p])

LEMMA UnsetList == Unset \in Params /\ Listed(Unset) = {}
  BY DEF Unset, Params, Listed

LEMMA IdleProcess == NoProcess.pc = "idle" /\ ProcessKnown(NoProcess)
  BY UnsetList DEF NoProcess, Process, KeySound, ProcessKnown

LEMMA ConfigInvInit == ConfigInit => ConfigInv
  BY UnsetList, IdleProcess DEF ConfigInit, ConfigInv, ConfigTypeOK, ProcessKnown

LEMMA AllKnown == ASSUME ConfigInv, NEW p \in Proc PROVE ProcessKnown(kb[p])
  BY DEF ConfigInv, ConfigTypeOK, ProcessKnown

\* Steps of one process that write nothing.
LEMMA LocalInv ==
  ASSUME ConfigInv, NEW p \in Proc, NEW r, ProcessKnown(r), Local(p, r)
  PROVE  ConfigInv'
  BY DEF ConfigInv, ConfigTypeOK, Local, Become, ProcessKnown, KeySound, Known

\* Steps that write the list and end the command.
LEMMA EndInv ==
  ASSUME ConfigInv, NEW p \in Proc, Become(p, NoProcess), exists' \in BOOLEAN, params' \in Params,
         Listed(params') \subseteq Known, managers' \subseteq Manager, passed' = passed
  PROVE  ConfigInv'
  BY IdleProcess DEF ConfigInv, ConfigTypeOK, Become, ProcessKnown, KeySound, Known

LEMMA EditedTyped ==
  ASSUME NEW r, ProcessKnown(r), r.pc = "patch"
  PROVE  /\ Edited(r) \in Params /\ Listed(Edited(r)) \subseteq Known
         /\ \A k \in Name : k # r.key => Edited(r)[k] = r.read[k]
  <1>1. /\ r.read \in Params /\ r.key \in Name /\ r.value \in Value \cup {NoValue}
        /\ r.cmd \in {"set", "remove"} /\ Listed(r.read) \subseteq Known
    BY DEF Process, ProcessKnown, KeySound
  <1>2. CASE r.cmd = "remove" /\ r.read[r.key] = NoValue
    BY <1>1, <1>2 DEF Edited
  <1>3. CASE ~(r.cmd = "remove" /\ r.read[r.key] = NoValue)
    <2>1. r.key \in Known
      BY <1>1, <1>3 DEF ProcessKnown, KeySound, Listed
    <2>2. Edited(r) = [r.read EXCEPT ![r.key] = r.value]
      BY <1>3 DEF Edited
    <2>3. QED
      BY <1>1, <2>1, <2>2 DEF Params, Listed
  <1>4. QED
    BY <1>2, <1>3

LEMMA ConfigInvNext == ConfigInv /\ [ConfigNext]_configVars => ConfigInv'
  <1> SUFFICES ASSUME ConfigInv, [ConfigNext]_configVars PROVE ConfigInv'
    OBVIOUS
  <1>1. ASSUME NEW p \in Proc, NEW args \in Params, StartInstall(p, args) PROVE ConfigInv'
    <2> DEFINE r == [NoProcess EXCEPT !.pc = "list", !.cmd = "install", !.params = args]
    <2>1. /\ r \in Process /\ r.pc = "list" /\ r.cmd = "install"
          /\ r.params = args /\ Listed(r.read) = {}
      BY IdleProcess, UnsetList DEF NoProcess, Process, ProcessKnown
    <2>2. kb' = [kb EXCEPT ![p] = r] /\ UNCHANGED <<exists, params, managers, secret>>
      BY <1>1 DEF StartInstall, Become
    <2> HIDE DEF r
    <2>3. passed' = passed \cup (Listed(args) \ Param) /\ passed' \subseteq Name
      BY <1>1 DEF StartInstall, ConfigInv, ConfigTypeOK, Listed
    <2>4. Known \subseteq Known' /\ Listed(args) \subseteq Known'
      BY <2>3 DEF Known
    <2>5. \A q \in Proc : KeySound(kb[q])'
      BY <2>1, <2>2, <2>4 DEF ConfigInv, ConfigTypeOK, KeySound
    <2>6. QED
      BY <2>1, <2>2, <2>3, <2>4, <2>5 DEF ConfigInv, ConfigTypeOK
  <1>2. ASSUME NEW p \in Proc, ListInstalls(p) PROVE ConfigInv'
    <2> DEFINE w == WantedParams(kb[p].params)
               r == [kb[p] EXCEPT !.pc = "apply", !.params = w]
    <2>1. /\ ProcessKnown(kb[p]) /\ kb[p].pc = "list" /\ kb[p].cmd = "install"
          /\ w \in Params /\ Listed(w) \subseteq Known
      BY <1>2, AllKnown
         DEF ListInstalls, ConfigInv, ConfigTypeOK, ProcessKnown, KeySound, Process, WantedParams
    <2>2. Local(p, r)
      BY <1>2 DEF ListInstalls
    <2> HIDE DEF w
    <2>3. /\ r \in Process /\ r.pc = "apply" /\ r.cmd = "install" /\ r.params = w
          /\ r.read = kb[p].read
      BY <2>1 DEF Process, ProcessKnown
    <2> HIDE DEF r
    <2>4. QED
      BY <2>1, <2>2, <2>3, LocalInv DEF KeySound, ProcessKnown
  <1>3. ASSUME NEW p \in Proc, ApplyInstall(p) PROVE ConfigInv'
    <2>1. kb[p].params \in Params /\ Listed(kb[p].params) \subseteq Known
      BY AllKnown DEF ProcessKnown, Process
    <2>2. params' \in Params /\ Listed(params') \subseteq Known /\ managers' \subseteq Manager
      BY <1>3, <2>1, UnsetList DEF ApplyInstall, Apply, ConfigInv, ConfigTypeOK, Manager
    <2>3. QED
      BY <1>3, <2>2, EndInv DEF ApplyInstall
  <1>4. ASSUME NEW p \in Proc, NEW k \in Name, NEW v \in Value, StartSet(p, k, v) PROVE ConfigInv'
    <2> DEFINE r == [NoProcess EXCEPT !.pc = "check", !.cmd = "set", !.key = k, !.value = v]
    <2>1. /\ r \in Process /\ r.pc = "check" /\ r.cmd = "set" /\ r.key = k /\ r.value = v
          /\ Listed(r.params) = {} /\ Listed(r.read) = {}
      BY IdleProcess, UnsetList DEF NoProcess, Process, ProcessKnown
    <2>2. Local(p, r)
      BY <1>4 DEF StartSet
    <2> HIDE DEF r
    <2>3. QED
      BY <2>1, <2>2, LocalInv DEF KeySound, ProcessKnown
  <1>5. ASSUME NEW p \in Proc, CheckKey(p) PROVE ConfigInv'
    <2>1. ProcessKnown(kb[p]) /\ kb[p].pc = "check" /\ kb[p].cmd = "set" /\ kb[p].key \in Name
      BY <1>5, AllKnown DEF CheckKey, ProcessKnown, KeySound
    <2>2. CASE exists /\ KnownKey(kb[p].key)
      <3> DEFINE r == [kb[p] EXCEPT !.pc = "get"]
      <3>1. kb[p].key \in Known
        BY <2>2 DEF KnownKey, MergedKeys, Known, ConfigInv, ConfigTypeOK
      <3>2. /\ r \in Process /\ r.pc = "get" /\ r.cmd = "set" /\ r.key = kb[p].key
            /\ r.params = kb[p].params /\ r.read = kb[p].read
        BY <2>1 DEF Process, ProcessKnown
      <3>3. Local(p, r)
        BY <1>5, <2>2 DEF CheckKey
      <3> HIDE DEF r
      <3>4. QED
        BY <2>1, <3>1, <3>2, <3>3, LocalInv DEF KeySound, ProcessKnown
    <2>3. CASE ~(exists /\ KnownKey(kb[p].key))
      BY <1>5, <2>3, IdleProcess, LocalInv DEF CheckKey
    <2>4. QED
      BY <2>2, <2>3
  <1>6. ASSUME NEW p \in Proc, NEW k \in Name, StartRemove(p, k) PROVE ConfigInv'
    <2> DEFINE r == [NoProcess EXCEPT !.pc = "get", !.cmd = "remove", !.key = k]
    <2>1. /\ r \in Process /\ r.pc = "get" /\ r.cmd = "remove" /\ r.key = k
          /\ Listed(r.params) = {} /\ Listed(r.read) = {}
      BY IdleProcess, UnsetList DEF NoProcess, Process, ProcessKnown
    <2>2. Local(p, r)
      BY <1>6 DEF StartRemove
    <2> HIDE DEF r
    <2>3. QED
      BY <2>1, <2>2, LocalInv DEF KeySound, ProcessKnown
  <1>7. ASSUME NEW p \in Proc, GetInstall(p) PROVE ConfigInv'
    <2>1. /\ ProcessKnown(kb[p]) /\ kb[p].pc = "get"
          /\ params \in Params /\ Listed(params) \subseteq Known
      BY <1>7, AllKnown DEF GetInstall, ConfigInv, ConfigTypeOK
    <2>2. CASE exists
      <3> DEFINE to == IF kb[p].cmd = "remove" THEN "secret" ELSE "patch"
                 r == [kb[p] EXCEPT !.pc = to, !.read = params]
      <3>1. to \in {"secret", "patch"} /\ (to = "secret" => kb[p].cmd = "remove")
        OBVIOUS
      <3>2. Local(p, r)
        BY <1>7, <2>2 DEF GetInstall
      <3> HIDE DEF to
      <3>3. /\ r \in Process /\ r.pc = to /\ r.cmd = kb[p].cmd /\ r.key = kb[p].key
            /\ r.params = kb[p].params /\ r.read = params
        BY <2>1, <3>1 DEF Process, ProcessKnown
      <3> HIDE DEF r
      <3>4. QED
        BY <2>1, <3>1, <3>2, <3>3, LocalInv DEF KeySound, ProcessKnown
    <2>3. CASE ~exists
      BY <1>7, <2>3, IdleProcess, LocalInv DEF GetInstall
    <2>4. QED
      BY <2>2, <2>3
  <1>8. ASSUME NEW p \in Proc, GetSecret(p) PROVE ConfigInv'
    <2> DEFINE v == secret[kb[p].key]
               r == [kb[p] EXCEPT !.pc = "patch", !.value = v]
    <2>1. ProcessKnown(kb[p]) /\ kb[p].cmd = "remove" /\ kb[p].key \in Name
          /\ v \in Value \cup {NoValue}
      BY <1>8, AllKnown DEF GetSecret, ConfigInv, ConfigTypeOK, ProcessKnown, KeySound, Params
    <2>2. Local(p, r)
      BY <1>8 DEF GetSecret
    <2> HIDE DEF v
    <2>3. /\ r \in Process /\ r.pc = "patch" /\ r.cmd = "remove" /\ r.key = kb[p].key
          /\ r.params = kb[p].params /\ r.read = kb[p].read
      BY <2>1 DEF Process, ProcessKnown
    <2> HIDE DEF r
    <2>4. QED
      BY <2>1, <2>2, <2>3, LocalInv DEF KeySound, ProcessKnown
  <1>9. ASSUME NEW p \in Proc, PatchInstall(p) PROVE ConfigInv'
    <2>1. Edited(kb[p]) \in Params /\ Listed(Edited(kb[p])) \subseteq Known
      BY <1>9, AllKnown, EditedTyped DEF PatchInstall
    <2>2. CASE Local(p, NoProcess)
      BY <2>2, IdleProcess, LocalInv
    <2>3. CASE /\ Become(p, NoProcess) /\ UNCHANGED <<exists, passed>> /\ params' = Edited(kb[p])
               /\ managers' \in {managers, {}, {"update"}}
      BY <2>1, <2>3, EndInv DEF ConfigInv, ConfigTypeOK, Manager
    <2>4. QED
      BY <1>9, <2>2, <2>3 DEF PatchInstall
  <1>10. ASSUME NEW p \in Proc, DeleteInstall(p) PROVE ConfigInv'
    BY <1>10, UnsetList DEF DeleteInstall, ConfigInv, ConfigTypeOK, KeySound, Known
  <1>11. ASSUME NEW p \in Proc, CommandFails(p) PROVE ConfigInv'
    BY <1>11, IdleProcess, LocalInv DEF CommandFails
  <1>12. ASSUME NEW k \in Name, NEW v \in Value, Generate(k, v) PROVE ConfigInv'
    <2>1. k \in Known
      BY <1>12 DEF Generate, MergedKeys, Known, ConfigInv, ConfigTypeOK
    <2>2. secret' \in Params /\ Listed(secret') \subseteq Known
      BY <1>12, <2>1 DEF Generate, ConfigInv, ConfigTypeOK, Params, Listed
    <2>3. QED
      BY <1>12, <2>2 DEF Generate, ConfigInv, ConfigTypeOK, KeySound, Known
  <1>13. CASE UNCHANGED configVars
    BY <1>13 DEF configVars, ConfigInv, ConfigTypeOK, KeySound, Known
  <1>14. QED
    BY <1>1, <1>2, <1>3, <1>4, <1>5, <1>6, <1>7, <1>8, <1>9, <1>10, <1>11, <1>12, <1>13 DEF ConfigNext

LEMMA ConfigInvHolds == ConfigSpec => []ConfigInv
  BY ConfigInvInit, ConfigInvNext, PTL DEF ConfigSpec

-----------------------------------------------------------------------------
(* One process at a time *)

OneProcess == \A p, q \in Proc : p = q

\* What the process read is still so when it writes.
Current(r) ==
  /\ r.pc = "apply" /\ exists => r.params = params
  /\ r.pc \in {"secret", "patch"} => exists /\ r.read = params

Alone == \A p \in Proc : Current(kb[p])

LEMMA LocalAlone ==
  ASSUME ConfigInv, OneProcess, NEW p \in Proc, NEW r, Local(p, r), Current(r)
  PROVE  Alone'
  BY DEF ConfigInv, ConfigTypeOK, OneProcess, Local, Become, Alone, Current

LEMMA EndAlone ==
  ASSUME ConfigInv, OneProcess, NEW p \in Proc, kb' = [kb EXCEPT ![p] = NoProcess]
  PROVE  Alone'
  BY IdleProcess DEF ConfigInv, ConfigTypeOK, OneProcess, Alone, Current

LEMMA AloneNext == OneProcess /\ ConfigInv /\ Alone /\ [ConfigNext]_configVars => Alone'
  <1> SUFFICES ASSUME OneProcess, ConfigInv, Alone, [ConfigNext]_configVars PROVE Alone'
    OBVIOUS
  <1>1. ASSUME NEW p \in Proc PROVE kb[p] \in Process /\ Current(kb[p])
    BY DEF ConfigInv, ConfigTypeOK, Alone
  <1>2. ASSUME NEW p \in Proc, NEW args \in Params, StartInstall(p, args) PROVE Alone'
    BY <1>2 DEF StartInstall, Become, OneProcess, Alone, Current, NoProcess, ConfigInv, ConfigTypeOK
  <1>3. ASSUME NEW p \in Proc, ListInstalls(p) PROVE Alone'
    <2> DEFINE w == WantedParams(kb[p].params)
               r == [kb[p] EXCEPT !.pc = "apply", !.params = w]
    <2>1. r.pc = "apply" /\ r.params = w /\ (exists => w = params)
      BY <1>1 DEF Process, WantedParams
    <2>2. Local(p, r)
      BY <1>3 DEF ListInstalls
    <2> HIDE DEF r
    <2>3. QED
      BY <2>1, <2>2, LocalAlone DEF Current
  <1>4. ASSUME NEW p \in Proc, ApplyInstall(p) PROVE Alone'
    BY <1>4, EndAlone DEF ApplyInstall, Become
  <1>5. ASSUME NEW p \in Proc, NEW k \in Name, NEW v \in Value, StartSet(p, k, v) PROVE Alone'
    BY <1>5, LocalAlone DEF StartSet, NoProcess, Current
  <1>6. ASSUME NEW p \in Proc, CheckKey(p) PROVE Alone'
    BY <1>1, <1>6, IdleProcess, LocalAlone DEF CheckKey, Process, Current
  <1>7. ASSUME NEW p \in Proc, NEW k \in Name, StartRemove(p, k) PROVE Alone'
    BY <1>7, LocalAlone DEF StartRemove, NoProcess, Current
  <1>8. ASSUME NEW p \in Proc, GetInstall(p) PROVE Alone'
    <2>1. CASE exists
      <3> DEFINE to == IF kb[p].cmd = "remove" THEN "secret" ELSE "patch"
                 r == [kb[p] EXCEPT !.pc = to, !.read = params]
      <3>1. Local(p, r)
        BY <1>8, <2>1 DEF GetInstall
      <3>2. r.pc \in {"secret", "patch"} /\ r.read = params
        BY <1>1 DEF Process
      <3> HIDE DEF r
      <3>3. QED
        BY <2>1, <3>1, <3>2, LocalAlone DEF Current
    <2>2. CASE ~exists
      BY <1>8, <2>2, IdleProcess, EndAlone DEF GetInstall, Local, Become
    <2>3. QED
      BY <2>1, <2>2
  <1>9. ASSUME NEW p \in Proc, GetSecret(p) PROVE Alone'
    <2> DEFINE v == secret[kb[p].key]
               r == [kb[p] EXCEPT !.pc = "patch", !.value = v]
    <2>1. Local(p, r) /\ kb[p].pc = "secret"
      BY <1>9 DEF GetSecret
    <2>2. r.pc = "patch" /\ r.read = kb[p].read
      BY <1>1 DEF Process
    <2> HIDE DEF r
    <2>3. QED
      BY <1>1, <2>1, <2>2, LocalAlone DEF Current
  <1>10. ASSUME NEW p \in Proc, PatchInstall(p) PROVE Alone'
    BY <1>10, EndAlone DEF PatchInstall, Local, Become
  <1>11. ASSUME NEW p \in Proc, DeleteInstall(p) PROVE Alone'
    BY <1>11 DEF DeleteInstall, OneProcess, Alone, Current
  <1>12. ASSUME NEW p \in Proc, CommandFails(p) PROVE Alone'
    BY <1>12, EndAlone DEF CommandFails, Local, Become
  <1>13. ASSUME NEW k \in Name, NEW v \in Value, Generate(k, v) PROVE Alone'
    BY <1>13 DEF Generate, Alone, Current
  <1>14. CASE UNCHANGED configVars
    BY <1>14 DEF configVars, Alone, Current
  <1>15. QED
    BY <1>2, <1>3, <1>4, <1>5, <1>6, <1>7, <1>8, <1>9, <1>10, <1>11, <1>12, <1>13, <1>14 DEF ConfigNext

LEMMA AloneHolds == OneProcess => (ConfigSpec => []Alone)
  <1>1. ConfigInit => Alone
    BY IdleProcess DEF ConfigInit, Alone, Current
  <1>2. ASSUME OneProcess PROVE ConfigSpec => []Alone
    <2>1. ConfigInv /\ Alone /\ [ConfigNext]_configVars => Alone'
      BY <1>2, AloneNext
    <2>2. QED
      BY <1>1, <2>1, ConfigInvHolds, PTL DEF ConfigSpec
  <1>3. QED
    BY <1>2

\* An apply of what was found is no change: neither of the list nor by leaving out
\* an empty one.
LEMMA ApplyPreserves ==
  ASSUME NEW p \in Proc, Alone, kb[p].pc = "apply", exists, Apply(kb[p].params)
  PROVE  params' = params
  BY DEF Alone, Current, Apply

LEMMA StepPreserves ==
  OneProcess /\ ConfigInv /\ Alone /\ ConfigNext =>
    \A p \in Proc : kb[p].pc = "apply" /\ kb'[p] # kb[p] /\ exists => params' = params
  <1> SUFFICES ASSUME OneProcess, ConfigInv, Alone, ConfigNext,
                      NEW p \in Proc, kb[p].pc = "apply", kb'[p] # kb[p], exists
               PROVE  params' = params
    OBVIOUS
  <1>1. ASSUME NEW q \in Proc PROVE q = p
    BY DEF OneProcess
  <1>2. CASE ApplyInstall(p)
    BY <1>2, ApplyPreserves DEF ApplyInstall
  <1>3. CASE CommandFails(p)
    BY <1>3 DEF CommandFails, Local
  <1>4. QED
    BY <1>1, <1>2, <1>3 DEF ConfigNext, StartInstall, StartSet, StartRemove, ListInstalls, CheckKey,
       GetInstall, GetSecret, PatchInstall, DeleteInstall, Generate

LEMMA StepEdits ==
  OneProcess /\ ConfigInv /\ Alone /\ ConfigNext =>
    \A p \in Proc : kb[p].pc = "patch" /\ kb'[p] # kb[p] =>
      \A k \in Name : k # kb[p].key => params'[k] = params[k]
  <1> SUFFICES ASSUME OneProcess, ConfigInv, Alone, ConfigNext,
                      NEW p \in Proc, kb[p].pc = "patch", kb'[p] # kb[p],
                      NEW k \in Name, k # kb[p].key
               PROVE  params'[k] = params[k]
    OBVIOUS
  <1>1. ASSUME NEW q \in Proc PROVE q = p
    BY DEF OneProcess
  <1>2. CASE PatchInstall(p)
    <2>1. ProcessKnown(kb[p]) /\ kb[p].read = params
      BY AllKnown DEF Alone, Current
    <2>2. Edited(kb[p])[k] = params[k]
      BY <2>1, EditedTyped
    <2>3. QED
      BY <1>2, <2>2 DEF PatchInstall, Local
  <1>3. CASE CommandFails(p)
    BY <1>3 DEF CommandFails, Local
  <1>4. QED
    BY <1>1, <1>2, <1>3 DEF ConfigNext, StartInstall, StartSet, StartRemove, ListInstalls, CheckKey,
       GetInstall, GetSecret, ApplyInstall, DeleteInstall, Generate

-----------------------------------------------------------------------------
(* The theorems *)

\* However many processes install, set, remove and delete at once, what an install's
\* list and the secret name was defined by the application or given to an install:
\* ConfigManager.Set and Remove bring in no name of their own.
THEOREM ConfigTypeCorrect == ConfigSpec => []ConfigTypeOK
  <1>1. ConfigInv => ConfigTypeOK
    BY DEF ConfigInv
  <1>2. QED
    BY <1>1, ConfigInvHolds, PTL

\* When one process runs at a time, InstallManager.Install over an install that is
\* there keeps its parameters, whoever owns the field and whatever was interrupted.
THEOREM ExistingIsPreserved == OneProcess => (ConfigSpec => PreservesExisting)
  <1>1. ASSUME OneProcess PROVE ConfigSpec => PreservesExisting
    <2> DEFINE A == \A p \in Proc :
                      kb[p].pc = "apply" /\ kb'[p] # kb[p] /\ exists => params' = params
    <2>1. ConfigInv /\ Alone /\ [ConfigNext]_configVars => [A]_configVars
      BY <1>1, StepPreserves
    <2>2. ConfigSpec => []Alone
      BY <1>1, AloneHolds
    <2>3. QED
      BY <2>1, <2>2, ConfigInvHolds, PTL DEF ConfigSpec, PreservesExisting
  <1>2. QED
    BY <1>1

\* When one process runs at a time, a set or a remove changes no other key.
THEOREM EditsAreOwn == OneProcess => (ConfigSpec => EditsOwnKey)
  <1>1. ASSUME OneProcess PROVE ConfigSpec => EditsOwnKey
    <2> DEFINE A == \A p \in Proc :
                      kb[p].pc = "patch" /\ kb'[p] # kb[p] =>
                        \A k \in Name : k # kb[p].key => params'[k] = params[k]
    <2>1. ConfigInv /\ Alone /\ [ConfigNext]_configVars => [A]_configVars
      BY <1>1, StepEdits
    <2>2. ConfigSpec => []Alone
      BY <1>1, AloneHolds
    <2>3. QED
      BY <2>1, <2>2, ConfigInvHolds, PTL DEF ConfigSpec, EditsOwnKey
  <1>2. QED
    BY <1>1
=============================================================================
