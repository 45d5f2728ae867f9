-------------------------- MODULE WorkloadsProofs ---------------------------
(***************************************************************************)
(* WaitSound, proved for every list of resources and any number of         *)
(* waiters.  The inductive invariant says of each workload what its object *)
(* may claim: the status of a generation that the controllers have         *)
(* observed was a picture of the pods of that generation.                  *)
(***************************************************************************)
EXTENDS Workloads, TLAPS

Bounded(w, o, p, r) ==
  /\ o \in Object /\ p \in Pods /\ r \in Nat
  /\ o.observed <= o.gen /\ r <= o.gen /\ o.want \in {0, Replicas[w]}
  /\ p.oldReady <= p.old /\ p.newReady <= p.new
  /\ Kind[w] \in {"statefulset", "daemonset"} => p.old + p.new <= Replicas[w]

\* What the object says is done was rolled out.
Truthful(w, o, r) ==
  o.exists =>
    /\ Kind[w] = "deployment" /\ DeploymentDone(o) => r = o.gen
    /\ Kind[w] = "statefulset" /\ StatefulsetDone(o, Partition[w]) => r = o.gen
    /\ Kind[w] = "daemonset" /\ DaemonsetDone(o) => r = o.gen
    /\ Kind[w] = "job" /\ JobDone(o) => r = o.gen
    /\ Kind[w] = "cronjob" /\ CronjobDone(o) => r = o.gen

Sound(w, o, p, r) == Bounded(w, o, p, r) /\ Truthful(w, o, r)

AwaitedAt(i) == Kind[app[i]] # "kubegres" /\ \A h \in 1 .. i : Kind[app[h]] # "service"

\* The resources that a Wait has passed were rolled out.
Passed(p) ==
  /\ waiter[p].pc \in {"wait", "ok"} => \A w \in Workload : since[p][w] <= object[w].gen
  /\ waiter[p].pc = "wait" =>
       /\ waiter[p].next \in Nat \ {0}
       /\ \A i \in DOMAIN app : i < waiter[p].next /\ AwaitedAt(i) => rolled[app[i]] >= since[p][app[i]]
       /\ waiter[p].parts # {} => waiter[p].next \in DOMAIN app /\ Kind[app[waiter[p].next]] = "kubegres"
  /\ waiter[p].pc = "ok" =>
       \A i \in DOMAIN app : AwaitedAt(i) => rolled[app[i]] >= since[p][app[i]]

ObjectsSound == \A w \in Workload : Sound(w, object[w], pods[w], rolled[w])
WaitersSound == \A p \in Waiter : Passed(p)
IInv == TypeOK /\ ObjectsSound /\ WaitersSound

-----------------------------------------------------------------------------
(* Steps of the cluster *)

Functions == /\ object \in [Workload -> Object] /\ pods \in [Workload -> Pods]
             /\ rolled \in [Workload -> Nat]

\* From the record of a workload to the next.
Moves(w, o, p, r) == Sound(w, o, p, r) /\ o.gen >= object[w].gen /\ r >= rolled[w]

\* A step that keeps all workloads sound; generations only grow.
ClusterMoves ==
  /\ Functions'
  /\ \A w \in Workload : Moves(w, object'[w], pods'[w], rolled'[w])

LEMMA Stays ==
  ASSUME Functions, ObjectsSound, NEW w \in Workload
  PROVE  Moves(w, object[w], pods[w], rolled[w])
  BY DEF Functions, ObjectsSound, Moves, Sound, Bounded, Object

\* One workload moves.
LEMMA OneMoves ==
  ASSUME Functions, ObjectsSound, NEW w \in Workload, NEW o, NEW p, NEW r,
         object' = [object EXCEPT ![w] = o], pods' = [pods EXCEPT ![w] = p],
         rolled' = [rolled EXCEPT ![w] = r], Moves(w, o, p, r)
  PROVE  ClusterMoves
  <1>1. Functions'
    BY DEF Functions, Moves, Sound, Bounded
  <1>2. ASSUME NEW v \in Workload
        PROVE  Moves(v, object'[v], pods'[v], rolled'[v])
    <2>1. CASE v = w
      BY <2>1 DEF Functions
    <2>2. CASE v # w
      <3>1. object'[v] = object[v] /\ pods'[v] = pods[v] /\ rolled'[v] = rolled[v]
        BY <2>2 DEF Functions
      <3>2. QED
        BY <3>1, Stays
    <2>3. QED
      BY <2>1, <2>2
  <1>3. QED
    BY <1>1, <1>2 DEF ClusterMoves

\* What is not changed is written as a change to itself.
LEMMA Unchanged ==
  ASSUME Functions, NEW w \in Workload
  PROVE  /\ object = [object EXCEPT ![w] = object[w]]
         /\ pods = [pods EXCEPT ![w] = pods[w]]
         /\ rolled = [rolled EXCEPT ![w] = rolled[w]]
  BY DEF Functions

LEMMA SoundHere ==
  ASSUME ObjectsSound, NEW w \in Workload
  PROVE  Bounded(w, object[w], pods[w], rolled[w]) /\ Truthful(w, object[w], rolled[w])
  BY DEF ObjectsSound, Sound

\* A spec that the controllers have not observed makes no claim, unless it is that of
\* a cronjob; a job has no new generation.
LEMMA NewGenerationMoves ==
  ASSUME Functions, ObjectsSound, NEW w \in Workload, Kind[w] # "job", NEW p \in Pods,
         NEW n \in {0, Replicas[w]}, NEW r \in Nat,
         r \in {rolled[w], object[w].gen + 1},
         Kind[w] = "cronjob" /\ n > 0 => r = object[w].gen + 1,
         p.oldReady <= p.old, p.newReady <= p.new,
         p.old + p.new = pods[w].old + pods[w].new
  PROVE  Moves(w, [object[w] EXCEPT !.gen = object[w].gen + 1, !.want = n], p, r)
  <1> DEFINE o == [object[w] EXCEPT !.gen = object[w].gen + 1, !.want = n]
  <1>1. Bounded(w, object[w], pods[w], rolled[w])
    BY SoundHere
  <1>2. n \in Nat
    BY WorkloadAssumption
  <1>3. /\ object[w] \in Object /\ object[w].gen \in Nat /\ object[w].observed \in Nat
        /\ object[w].gen + 1 \in Nat
    BY <1>1 DEF Bounded, Object
  <1>4. o \in Object /\ o.gen = object[w].gen + 1 /\ o.want = n /\ o.observed = object[w].observed
    <2>1. PICK g \in Nat : g = object[w].gen + 1
      BY <1>3
    <2>2. LET q == [object[w] EXCEPT !.gen = g, !.want = n] IN
          q \in Object /\ q.gen = g /\ q.want = n /\ q.observed = object[w].observed
      BY <1>2, <1>3 DEF Object
    <2>3. QED
      BY <2>1, <2>2
  <1>5. Bounded(w, o, p, r) /\ r >= rolled[w]
    BY <1>1, <1>3, <1>4 DEF Bounded
  <1>6. ~Observed(o)
    BY <1>1, <1>3, <1>4 DEF Bounded, Observed
  <1>7. Truthful(w, o, r)
    BY <1>3, <1>6 DEF Truthful, DeploymentDone, StatefulsetDone, DaemonsetDone, CronjobDone
  <1>8. QED
    BY <1>3, <1>4, <1>5, <1>7 DEF Moves, Sound

LEMMA OutdatedPods ==
  ASSUME NEW p \in Pods, p.oldReady <= p.old, p.newReady <= p.new
  PROVE  /\ Outdated(p) \in Pods /\ Outdated(p).oldReady <= Outdated(p).old
         /\ Outdated(p).newReady <= Outdated(p).new
         /\ Outdated(p).old + Outdated(p).new = p.old + p.new
  <1>1. /\ p.old \in Nat /\ p.new \in Nat /\ p.oldReady \in Nat /\ p.newReady \in Nat
        /\ p.old + p.new \in Nat /\ p.oldReady + p.newReady \in Nat
    BY DEF Pods
  <1>2. NoPods \in Pods /\ NoPods.new = 0 /\ NoPods.newReady = 0
    BY DEF NoPods, Pods
  <1>3. PICK a \in Nat, b \in Nat : a = p.old + p.new /\ b = p.oldReady + p.newReady
    BY <1>1
  <1>4. LET q == [NoPods EXCEPT !.old = a, !.oldReady = b] IN
        q \in Pods /\ q.old = a /\ q.oldReady = b /\ q.new = 0 /\ q.newReady = 0
    BY <1>2 DEF Pods
  <1>5. Outdated(p) = [NoPods EXCEPT !.old = a, !.oldReady = b]
    BY <1>3 DEF Outdated
  <1>6. QED
    BY <1>1, <1>3, <1>4, <1>5

LEMMA NoPodsMove ==
  ASSUME Functions, ObjectsSound, NEW w \in Workload
  PROVE  Moves(w, object[w], NoPods, rolled[w])
  <1>1. Bounded(w, object[w], pods[w], rolled[w]) /\ Truthful(w, object[w], rolled[w])
    BY SoundHere
  <1>2. Bounded(w, object[w], NoPods, rolled[w])
    BY <1>1, WorkloadAssumption DEF Bounded, NoPods, Pods
  <1>3. QED
    BY <1>1, <1>2 DEF Moves, Sound, Bounded, Object

\* The new template of a restart.
LEMMA NewTemplateMoves ==
  ASSUME Functions, ObjectsSound, NEW w \in Workload, Kind[w] \in Templated
  PROVE  Moves(w, NewGeneration(w), Outdated(pods[w]), rolled[w])
  <1>1. Bounded(w, object[w], pods[w], rolled[w])
    BY SoundHere
  <1>2. NewGeneration(w) = [object[w] EXCEPT !.gen = object[w].gen + 1, !.want = object[w].want]
    BY <1>1 DEF NewGeneration, Bounded, Object
  <1>3. Moves(w, [object[w] EXCEPT !.gen = object[w].gen + 1, !.want = object[w].want],
              Outdated(pods[w]), rolled[w])
    <2>1. /\ Outdated(pods[w]) \in Pods /\ Outdated(pods[w]).oldReady <= Outdated(pods[w]).old
          /\ Outdated(pods[w]).newReady <= Outdated(pods[w]).new
          /\ Outdated(pods[w]).old + Outdated(pods[w]).new = pods[w].old + pods[w].new
      BY <1>1, OutdatedPods DEF Bounded
    <2>2. Kind[w] # "job" /\ Kind[w] # "cronjob"
      BY DEF Templated
    <2>3. object[w].want \in {0, Replicas[w]} /\ rolled[w] \in Nat
      BY <1>1 DEF Bounded
    <2>4. QED
      BY <2>1, <2>2, <2>3, NewGenerationMoves
  <1>4. QED
    BY <1>2, <1>3

LEMMA RestartMoves ==
  ASSUME Functions, ObjectsSound, NEW w \in Workload, Kind[w] \in Templated,
         NEW force \in BOOLEAN, RestartPods(w, force)
  PROVE  ClusterMoves
  <1>1. CASE force
    <2>1. object' = object /\ rolled' = rolled /\ pods' = [pods EXCEPT ![w] = NoPods]
      BY <1>1 DEF RestartPods, SetPods
    <2>2. QED
      BY <2>1, NoPodsMove, OneMoves, Unchanged
  <1>2. CASE ~force
    <2>1. /\ object' = [object EXCEPT ![w] = NewGeneration(w)] /\ rolled' = rolled
          /\ pods' = [pods EXCEPT ![w] = Outdated(pods[w])]
      BY <1>2 DEF RestartPods, SetPods, SetObject
    <2>2. QED
      BY <2>1, NewTemplateMoves, OneMoves, Unchanged
  <1>3. QED
    BY <1>1, <1>2

LEMMA RestartKubegresMoves ==
  ASSUME Functions, ObjectsSound, NEW w \in Workload, NEW force \in BOOLEAN,
         RestartKubegres(w, force)
  PROVE  ClusterMoves
  <1>1. PICK done \in SUBSET Statefulsets(w) :
          IF force
            THEN /\ pods' = [s \in Workload |-> IF s \in done THEN NoPods ELSE pods[s]]
                 /\ object' = object
            ELSE /\ object' = [s \in Workload |-> IF s \in done THEN NewGeneration(s) ELSE object[s]]
                 /\ pods' = [s \in Workload |-> IF s \in done THEN Outdated(pods[s]) ELSE pods[s]]
    BY DEF RestartKubegres
  <1>2. rolled' = rolled
    BY DEF RestartKubegres
  <1>3. \A s \in done : s \in Workload /\ Kind[s] \in Templated
    BY WorkloadAssumption DEF Statefulsets, Templated
  <1>4. ASSUME NEW s \in Workload
        PROVE  Moves(s, object'[s], pods'[s], rolled'[s])
    <2>1. CASE s \notin done
      <3>1. object'[s] = object[s] /\ pods'[s] = pods[s] /\ rolled'[s] = rolled[s]
        BY <1>1, <1>2, <2>1
      <3>2. QED
        BY <3>1, Stays
    <2>2. CASE s \in done /\ force
      <3>1. object'[s] = object[s] /\ pods'[s] = NoPods /\ rolled'[s] = rolled[s]
        BY <1>1, <1>2, <2>2
      <3>2. QED
        BY <3>1, NoPodsMove
    <2>3. CASE s \in done /\ ~force
      <3>1. /\ object'[s] = NewGeneration(s) /\ pods'[s] = Outdated(pods[s])
            /\ rolled'[s] = rolled[s]
        BY <1>1, <1>2, <2>3
      <3>2. QED
        BY <3>1, <2>3, <1>3, NewTemplateMoves
    <2>4. QED
      BY <2>1, <2>2, <2>3
  <1>5. Functions'
    <2>1. \A s \in Workload : object'[s] \in Object /\ pods'[s] \in Pods
      BY <1>4 DEF Moves, Sound, Bounded
    <2>2. object' = [s \in Workload |-> object'[s]] /\ pods' = [s \in Workload |-> pods'[s]]
      BY <1>1 DEF Functions
    <2>3. QED
      BY <1>2, <2>1, <2>2 DEF Functions
  <1>6. QED
    BY <1>4, <1>5 DEF ClusterMoves

LEMMA ScaleMoves ==
  ASSUME Functions, ObjectsSound, NEW w \in Workload, NEW n \in {0, Replicas[w]},
         \/ ScaleDeployment(w, n) \/ ScaleStatefulset(w, n) \/ ScaleDaemonset(w, n)
         \/ ScaleCronjob(w, n) \/ ScaleKubegres(w, n)
  PROVE  ClusterMoves
  <1> DEFINE o == [object[w] EXCEPT !.gen = object[w].gen + 1, !.want = n]
  <1>1. Bounded(w, object[w], pods[w], rolled[w])
    BY SoundHere
  <1>2. [NewGeneration(w) EXCEPT !.want = n] = o
    BY <1>1 DEF NewGeneration, Bounded, Object
  <1>3. object[w].gen + 1 \in Nat /\ rolled[w] \in Nat
    BY <1>1 DEF Bounded, Object
  <1>4. CASE ScaleDeployment(w, n) \/ ScaleStatefulset(w, n) \/ ScaleKubegres(w, n)
    <2>1. /\ object' = [object EXCEPT ![w] = o] /\ pods' = pods /\ rolled' = rolled
          /\ Kind[w] # "job" /\ Kind[w] # "cronjob"
      BY <1>2, <1>4 DEF ScaleDeployment, ScaleStatefulset, ScaleKubegres, Resize, OfKind, SetObject
    <2>2. Moves(w, o, pods[w], rolled[w])
      BY <1>1, <1>3, <2>1, NewGenerationMoves DEF Bounded
    <2> DEFINE p == pods[w]
               r == rolled[w]
    <2>3. pods' = [pods EXCEPT ![w] = p] /\ rolled' = [rolled EXCEPT ![w] = r]
      BY <2>1, Unchanged
    <2>4. object' = [object EXCEPT ![w] = o] /\ Moves(w, o, p, r)
      BY <2>1, <2>2
    <2> HIDE DEF o, p, r
    <2>5. QED
      BY <2>3, <2>4, OneMoves
  <1>5. CASE ScaleDaemonset(w, n)
    <2>1. /\ object' = [object EXCEPT ![w] = o] /\ pods' = [pods EXCEPT ![w] = Outdated(pods[w])]
          /\ rolled' = rolled /\ Kind[w] # "job" /\ Kind[w] # "cronjob"
      BY <1>2, <1>5 DEF ScaleDaemonset, OfKind, SetObject, SetPods
    <2>2. Moves(w, o, Outdated(pods[w]), rolled[w])
      BY <1>1, <1>3, <2>1, NewGenerationMoves, OutdatedPods DEF Bounded
    <2> HIDE DEF o
    <2>3. rolled' = [rolled EXCEPT ![w] = rolled[w]]
      BY <2>1, Unchanged
    <2>4. QED
      BY <2>1, <2>2, <2>3, OneMoves
  <1>6. CASE ScaleCronjob(w, n)
    <2> DEFINE r == IF n > 0 THEN object[w].gen + 1 ELSE rolled[w]
    <2>1. /\ object' = [object EXCEPT ![w] = o] /\ pods' = pods /\ Kind[w] = "cronjob"
          /\ rolled' = [rolled EXCEPT ![w] = r]
      BY <1>2, <1>6, Unchanged DEF ScaleCronjob, OfKind, SetObject
    <2>2. r \in Nat /\ r \in {rolled[w], object[w].gen + 1} /\ (n > 0 => r = object[w].gen + 1)
      BY <1>3
    <2>3. Moves(w, o, pods[w], r)
      BY <1>1, <2>1, <2>2, NewGenerationMoves DEF Bounded
    <2> HIDE DEF o, r
    <2>4. pods' = [pods EXCEPT ![w] = pods[w]]
      BY <2>1, Unchanged
    <2>5. QED
      BY <2>1, <2>3, <2>4, OneMoves
  <1>7. QED
    BY <1>4, <1>5, <1>6

LEMMA RemoveMoves ==
  ASSUME Functions, ObjectsSound, NEW w \in Workload, Remove(w)
  PROVE  ClusterMoves
  <1> DEFINE o == [Unborn EXCEPT !.gen = object[w].gen]
  <1>1. Bounded(w, object[w], pods[w], rolled[w])
    BY SoundHere
  <1>2. /\ object' = [object EXCEPT ![w] = o] /\ pods' = [pods EXCEPT ![w] = NoPods]
        /\ rolled' = rolled
    BY DEF Remove, SetObject, SetPods
  <1>3. object[w].gen \in Nat /\ rolled[w] \in Nat
    BY <1>1 DEF Bounded, Object
  <1>4. /\ o \in Object /\ o.gen = object[w].gen /\ o.observed = 0 /\ o.want = 0 /\ ~o.exists
    BY <1>3 DEF Unborn, Object
  <1>5. Bounded(w, o, NoPods, rolled[w])
    BY <1>1, <1>3, <1>4, WorkloadAssumption DEF Bounded, NoPods, Pods
  <1>6. Moves(w, o, NoPods, rolled[w])
    BY <1>3, <1>4, <1>5 DEF Moves, Sound, Truthful
  <1>7. QED
    BY <1>2, <1>6, OneMoves, Unchanged

LEMMA OperateMoves ==
  ASSUME Functions, ObjectsSound, NEW w \in Workload, Operate(w)
  PROVE  ClusterMoves
  <1>1. ASSUME NEW force \in BOOLEAN,
               \/ RestartDeployment(w, force) \/ RestartStatefulset(w, force)
               \/ RestartDaemonset(w, force)
        PROVE  ClusterMoves
    <2>1. Kind[w] \in Templated /\ RestartPods(w, force)
      BY <1>1 DEF RestartDeployment, RestartStatefulset, RestartDaemonset, OfKind, Templated
    <2>2. QED
      BY <2>1, RestartMoves
  <1>2. ASSUME \/ DeleteDeployment(w) \/ DeleteStatefulset(w) \/ DeleteDaemonset(w)
               \/ DeleteCronjob(w) \/ DeleteKubegres(w) \/ JobExpires(w)
        PROVE  ClusterMoves
    <2>1. Remove(w)
      BY <1>2 DEF DeleteDeployment, DeleteStatefulset, DeleteDaemonset, DeleteCronjob,
                  DeleteKubegres, JobExpires
    <2>2. QED
      BY <2>1, RemoveMoves
  <1>3. QED
    BY <1>1, <1>2, RestartKubegresMoves, ScaleMoves DEF Operate

LEMMA ApplyMoves ==
  ASSUME Functions, ObjectsSound, NEW w \in Workload, Apply(w)
  PROVE  ClusterMoves
  <1>1. Bounded(w, object[w], pods[w], rolled[w])
    BY SoundHere
  <1>2. CASE Exists(w)
    <2>1. /\ object' = [object EXCEPT ![w] = NewGeneration(w)] /\ rolled' = rolled
          /\ pods' = [pods EXCEPT ![w] = Outdated(pods[w])] /\ Kind[w] \in Templated
      BY <1>2 DEF Apply, SetObject, SetPods
    <2>2. QED
      BY <2>1, NewTemplateMoves, OneMoves, Unchanged
  <1>3. CASE ~Exists(w)
    <2> DEFINE o == [Unborn EXCEPT !.exists = TRUE, !.gen = object[w].gen + 1, !.want = Replicas[w]]
               r == IF Kind[w] = "cronjob" /\ Replicas[w] > 0 THEN object[w].gen + 1 ELSE rolled[w]
    <2>1. /\ object' = [object EXCEPT ![w] = o] /\ pods' = pods
          /\ rolled' = [rolled EXCEPT ![w] = r]
      BY <1>3, Unchanged DEF Apply, SetObject
    <2>2. object[w].gen \in Nat /\ rolled[w] \in Nat /\ Replicas[w] \in Nat
      BY <1>1, WorkloadAssumption DEF Bounded, Object
    <2>3. /\ o \in Object /\ o.gen = object[w].gen + 1 /\ o.observed = 0 /\ o.want = Replicas[w]
          /\ o.cond = "none"
      <3>1. PICK g \in Nat : g = object[w].gen + 1
        BY <2>2
      <3>2. LET q == [Unborn EXCEPT !.exists = TRUE, !.gen = g, !.want = Replicas[w]] IN
            q \in Object /\ q.gen = g /\ q.observed = 0 /\ q.want = Replicas[w] /\ q.cond = "none"
        BY <2>2 DEF Unborn, Object
      <3>3. QED
        BY <3>1, <3>2
    <2>4. r \in Nat /\ r <= o.gen /\ r >= rolled[w]
      BY <1>1, <2>2, <2>3 DEF Bounded
    <2>5. Bounded(w, o, pods[w], r)
      BY <1>1, <2>2, <2>3, <2>4 DEF Bounded
    <2>6. ~Observed(o)
      BY <2>2, <2>3 DEF Observed
    <2>7. Truthful(w, o, r)
      BY <2>3, <2>6 DEF Truthful, DeploymentDone, StatefulsetDone, DaemonsetDone, CronjobDone, JobDone
    <2>8. Moves(w, o, pods[w], r)
      BY <2>2, <2>3, <2>4, <2>5, <2>7 DEF Moves, Sound
    <2>9. QED
      BY <2>1, <2>8, OneMoves, Unchanged
  <1>4. QED
    BY <1>2, <1>3

LEMMA PodChangesMove ==
  ASSUME Functions, ObjectsSound, NEW w \in Workload, NEW p \in Pods, PodChanges(w, p),
         p.oldReady <= p.old, p.newReady <= p.new,
         Kind[w] # "deployment" =>
           p.old + p.new <= pods[w].old + pods[w].new \/ p.old + p.new <= object[w].want
  PROVE  ClusterMoves
  <1>1. Bounded(w, object[w], pods[w], rolled[w]) /\ Truthful(w, object[w], rolled[w])
    BY SoundHere
  <1>2. /\ Replicas[w] \in Nat /\ object[w].want \in Nat /\ object[w].gen \in Nat
        /\ rolled[w] \in Nat /\ object[w].want <= Replicas[w]
    BY <1>1, WorkloadAssumption DEF Bounded, Object
  <1>3. Bounded(w, object[w], p, rolled[w])
    BY <1>1, <1>2 DEF Bounded, Pods
  <1>4. Moves(w, object[w], p, rolled[w])
    BY <1>1, <1>2, <1>3 DEF Moves, Sound
  <1>5. object' = object /\ rolled' = rolled /\ pods' = [pods EXCEPT ![w] = p]
    BY DEF PodChanges, SetPods
  <1>6. QED
    BY <1>4, <1>5, OneMoves, Unchanged

LEMMA PodMoves ==
  ASSUME Functions, ObjectsSound, NEW w \in Workload,
         AddPod(w) \/ PodReady(w) \/ PodUnready(w) \/ RemovePod(w)
  PROVE  ClusterMoves
  <1> DEFINE p == pods[w]
  <1>1. /\ p \in Pods /\ p.oldReady <= p.old /\ p.newReady <= p.new
        /\ object[w].want \in Nat
    BY SoundHere DEF Bounded, Object
  <1>2. CASE AddPod(w)
    <2>1. /\ PodChanges(w, [p EXCEPT !.new = p.new + 1])
          /\ Kind[w] # "deployment" => p.old + p.new < object[w].want
      BY <1>1, <1>2 DEF AddPod, Surge
    <2>2. QED
      BY <1>1, <2>1, PodChangesMove DEF Pods
  <1>3. CASE PodReady(w)
    <2>1. CASE p.newReady < p.new /\ PodChanges(w, [p EXCEPT !.newReady = p.newReady + 1])
      BY <1>1, <2>1, PodChangesMove DEF Pods
    <2>2. CASE p.oldReady < p.old /\ PodChanges(w, [p EXCEPT !.oldReady = p.oldReady + 1])
      BY <1>1, <2>2, PodChangesMove DEF Pods
    <2>3. QED
      BY <1>3, <2>1, <2>2 DEF PodReady
  <1>4. CASE PodUnready(w)
    <2>1. CASE p.newReady > 0 /\ PodChanges(w, [p EXCEPT !.newReady = p.newReady - 1])
      BY <1>1, <2>1, PodChangesMove DEF Pods
    <2>2. CASE p.oldReady > 0 /\ PodChanges(w, [p EXCEPT !.oldReady = p.oldReady - 1])
      BY <1>1, <2>2, PodChangesMove DEF Pods
    <2>3. QED
      BY <1>4, <2>1, <2>2 DEF PodUnready
  <1>5. CASE RemovePod(w)
    <2>1. CASE p.oldReady < p.old /\ PodChanges(w, [p EXCEPT !.old = p.old - 1])
      BY <1>1, <2>1, PodChangesMove DEF Pods
    <2>2. CASE /\ p.oldReady > 0
               /\ PodChanges(w, [p EXCEPT !.old = p.old - 1, !.oldReady = p.oldReady - 1])
      <3> DEFINE q == [p EXCEPT !.old = p.old - 1, !.oldReady = p.oldReady - 1]
      <3>0. p.old - 1 \in Nat /\ p.oldReady - 1 \in Nat
        BY <1>1, <2>2 DEF Pods
      <3>1. PICK a \in Nat, b \in Nat : a = p.old - 1 /\ b = p.oldReady - 1
        BY <3>0
      <3>2. /\ q \in Pods /\ q.old = a /\ q.oldReady = b
            /\ q.new = p.new /\ q.newReady = p.newReady
        <4>1. LET u == [p EXCEPT !.old = a, !.oldReady = b] IN
              /\ u \in Pods /\ u.old = a /\ u.oldReady = b
              /\ u.new = p.new /\ u.newReady = p.newReady
          BY <1>1 DEF Pods
        <4>2. QED
          BY <3>1, <4>1
      <3>3. /\ q \in Pods /\ q.oldReady <= q.old /\ q.newReady <= q.new
            /\ q.old + q.new <= p.old + p.new
        BY <1>1, <3>1, <3>2 DEF Pods
      <3>4. QED
        BY <2>2, <3>3, PodChangesMove
    <2>3. CASE p.newReady < p.new /\ PodChanges(w, [p EXCEPT !.new = p.new - 1])
      BY <1>1, <2>3, PodChangesMove DEF Pods
    <2>4. CASE /\ p.newReady > 0
               /\ PodChanges(w, [p EXCEPT !.new = p.new - 1, !.newReady = p.newReady - 1])
      <3> DEFINE q == [p EXCEPT !.new = p.new - 1, !.newReady = p.newReady - 1]
      <3>0. p.new - 1 \in Nat /\ p.newReady - 1 \in Nat
        BY <1>1, <2>4 DEF Pods
      <3>1. PICK a \in Nat, b \in Nat : a = p.new - 1 /\ b = p.newReady - 1
        BY <3>0
      <3>2. /\ q \in Pods /\ q.new = a /\ q.newReady = b
            /\ q.old = p.old /\ q.oldReady = p.oldReady
        <4>1. LET u == [p EXCEPT !.new = a, !.newReady = b] IN
              /\ u \in Pods /\ u.new = a /\ u.newReady = b
              /\ u.old = p.old /\ u.oldReady = p.oldReady
          BY <1>1 DEF Pods
        <4>2. QED
          BY <3>1, <4>1
      <3>3. /\ q \in Pods /\ q.oldReady <= q.old /\ q.newReady <= q.new
            /\ q.old + q.new <= p.old + p.new
        BY <1>1, <3>1, <3>2 DEF Pods
      <3>4. QED
        BY <2>4, <3>3, PodChangesMove
    <2>5. QED
      BY <1>5, <2>1, <2>2, <2>3, <2>4 DEF RemovePod
  <1>6. QED
    BY <1>2, <1>3, <1>4, <1>5

\* The picture that a controller takes: if it says done, all replicas were ready.
LEMMA ReportMoves ==
  ASSUME Functions, ObjectsSound, NEW w \in Workload, Report(w)
  PROVE  ClusterMoves
  <1>1. Bounded(w, object[w], pods[w], rolled[w])
    BY SoundHere
  <1> DEFINE p == pods[w]
             o(c) == [object[w] EXCEPT !.observed = object[w].gen, !.desired = object[w].want,
                        !.total = p.old + p.new, !.updated = p.new, !.ready = p.oldReady + p.newReady,
                        !.cond = c]
             r == IF Complete(w) THEN object[w].gen ELSE rolled[w]
  <1>2. PICK c \in {"none", "deadline"} : object' = [object EXCEPT ![w] = o(c)]
    BY DEF Report, SetObject
  <1>3. pods' = pods /\ rolled' = [rolled EXCEPT ![w] = r] /\ Kind[w] \in Templated
    BY Unchanged DEF Report
  <1>4. /\ object[w].gen \in Nat /\ object[w].want \in Nat /\ rolled[w] \in Nat
        /\ p.old \in Nat /\ p.new \in Nat /\ p.oldReady \in Nat /\ p.newReady \in Nat
        /\ Partition[w] \in Nat /\ Replicas[w] \in Nat
    BY <1>1, WorkloadAssumption DEF Bounded, Object, Pods
  <1>5. PICK q : q = o(c)
    OBVIOUS
  <1>6. /\ q \in Object /\ q.gen = object[w].gen /\ q.want = object[w].want
        /\ q.observed = object[w].gen /\ q.desired = object[w].want
        /\ q.total = p.old + p.new /\ q.updated = p.new /\ q.ready = p.oldReady + p.newReady
    <2>1. object[w] \in Object
      BY <1>1 DEF Bounded
    <2>2. p.old + p.new \in Nat /\ p.oldReady + p.newReady \in Nat
      BY <1>4
    <2>3. QED
      BY <1>4, <1>5, <2>1, <2>2 DEF Object
  <1>7. object' = [object EXCEPT ![w] = q]
    BY <1>2, <1>5
  <1> HIDE DEF o
  <1>8. Bounded(w, q, p, r) /\ r >= rolled[w]
    BY <1>1, <1>4, <1>6 DEF Bounded
  <1>9. Truthful(w, q, r)
    <2>1. CASE Kind[w] = "deployment"
      <3>1. DeploymentDone(q) => Complete(w)
        BY <1>1, <1>4, <1>6, <2>1 DEF DeploymentDone, Complete, Bounded
      <3>2. QED
        BY <1>6, <2>1, <3>1 DEF Truthful
    <2>2. CASE Kind[w] = "daemonset"
      <3>1. DaemonsetDone(q) => Complete(w)
        BY <1>1, <1>4, <1>6, <2>2, WorkloadAssumption DEF DaemonsetDone, Complete, Bounded
      <3>2. QED
        BY <1>6, <2>2, <3>1 DEF Truthful
    <2>3. CASE Kind[w] = "statefulset"
      <3>1. StatefulsetDone(q, Partition[w]) => Complete(w)
        BY <1>1, <1>4, <1>6, <2>3 DEF StatefulsetDone, Complete, Bounded
      <3>2. QED
        BY <1>6, <2>3, <3>1 DEF Truthful
    <2>4. QED
      BY <1>3, <2>1, <2>2, <2>3 DEF Templated
  <1>10. Moves(w, q, p, r)
    BY <1>4, <1>6, <1>8, <1>9 DEF Moves, Sound
  <1>11. QED
    BY <1>3, <1>7, <1>10, OneMoves, Unchanged

LEMMA JobEndsMoves ==
  ASSUME Functions, ObjectsSound, NEW w \in Workload, JobEnds(w)
  PROVE  ClusterMoves
  <1>1. Bounded(w, object[w], pods[w], rolled[w]) /\ Truthful(w, object[w], rolled[w])
    BY SoundHere
  <1>2. PICK c \in {"failed", "complete"}, r \in {rolled[w], object[w].gen} :
          /\ object' = [object EXCEPT ![w] = [object[w] EXCEPT !.cond = c]]
          /\ rolled' = [rolled EXCEPT ![w] = r]
          /\ c = "complete" => r = object[w].gen
    BY Unchanged DEF JobEnds, SetObject
  <1> DEFINE o == [object[w] EXCEPT !.cond = c]
  <1>3. pods' = pods /\ Kind[w] = "job"
    BY DEF JobEnds, OfKind
  <1>4. /\ o \in Object /\ o.gen = object[w].gen /\ o.want = object[w].want
        /\ o.observed = object[w].observed /\ o.cond = c
        /\ object[w].gen \in Nat /\ rolled[w] \in Nat
    BY <1>1 DEF Bounded, Object
  <1>5. Bounded(w, o, pods[w], r) /\ r >= rolled[w]
    BY <1>1, <1>4 DEF Bounded
  <1>6. Truthful(w, o, r)
    BY <1>2, <1>3, <1>4 DEF Truthful, JobDone
  <1>7. Moves(w, o, pods[w], r)
    BY <1>4, <1>5, <1>6 DEF Moves, Sound
  <1>8. QED
    BY <1>2, <1>3, <1>7, OneMoves, Unchanged

-----------------------------------------------------------------------------
(* The invariant *)

LEMMA InvInit == Init => IInv
  <1> SUFFICES ASSUME Init
               PROVE  IInv
    OBVIOUS
  <1> DEFINE m == [pc |-> "list", next |-> 1, statuses |-> NoStatuses]
             v == [pc |-> "idle", next |-> 1, parts |-> {}]
  <1>1. Unborn \in Object /\ NoPods \in Pods
    BY DEF Unborn, Object, NoPods, Pods
  <1>2. NoStatuses \in [Workload -> StatusName]
    BY DEF NoStatuses, StatusName
  <1>3. m \in Monitor /\ v \in Wait
    BY <1>2 DEF Monitor, Wait
  <1>4. <<app, actors>> \in Setups
    <2>1. PICK s \in Setups : app = s[1] /\ actors = s[2]
      BY DEF Init
    <2>2. s = <<s[1], s[2]>>
      BY <2>1, WorkloadAssumption
    <2>3. QED
      BY <2>1, <2>2
  <1>5. TypeOK
    BY <1>1, <1>2, <1>3, <1>4 DEF Init, TypeOK
  <1>6. ObjectsSound
    <2>1. ASSUME NEW w \in Workload
          PROVE  Sound(w, Unborn, NoPods, 0)
      BY <1>1, WorkloadAssumption DEF Sound, Bounded, Truthful, Unborn, NoPods
    <2>2. QED
      BY <2>1 DEF Init, ObjectsSound
  <1>7. WaitersSound
    BY DEF Init, WaitersSound, Passed
  <1>8. QED
    BY <1>5, <1>6, <1>7 DEF IInv

LEMMA AppTyped ==
  ASSUME IInv
  PROVE  app \in Seq(Workload) /\ DOMAIN app = 1 .. Len(app) /\ DOMAIN app \subseteq Nat
  <1>1. <<app, actors>> \in Seq(Workload) \X SUBSET (Waiter \cup {"server"})
    BY WorkloadAssumption DEF IInv, TypeOK
  <1>2. app \in Seq(Workload)
    BY <1>1
  <1>3. QED
    BY <1>2

\* Waits do not lose what they have seen.
LEMMA ClusterInv ==
  ASSUME IInv, ClusterMoves, UNCHANGED <<app, actors, waiter, since, monitor, results, calm>>
  PROVE  IInv'
  <1>1. TypeOK'
    BY DEF IInv, TypeOK, ClusterMoves, Functions
  <1>2. ObjectsSound'
    BY DEF ClusterMoves, Moves, ObjectsSound
  <1>3. \A w \in Workload :
          /\ object[w].gen \in Nat /\ rolled[w] \in Nat
          /\ object'[w].gen \in Nat /\ rolled'[w] \in Nat
          /\ object'[w].gen >= object[w].gen /\ rolled'[w] >= rolled[w]
    BY <1>1 DEF IInv, TypeOK, Object, ClusterMoves, Moves
  <1>4. /\ \A i \in DOMAIN app : app[i] \in Workload
        /\ \A p \in Waiter, w \in Workload : since[p][w] \in Nat
    BY WorkloadAssumption DEF IInv, TypeOK
  <1>5. WaitersSound'
    <2>1. SUFFICES ASSUME NEW p \in Waiter
                   PROVE  Passed(p)'
      BY DEF WaitersSound
    <2>2. Passed(p)
      BY DEF IInv, WaitersSound
    <2>3. QED
      BY <1>3, <1>4, <2>2 DEF Passed, AwaitedAt
  <1>6. QED
    BY <1>1, <1>2, <1>5 DEF IInv

LEMMA CommandInv ==
  ASSUME IInv, NEW w \in Workload,
         \/ Operate(w) \/ Apply(w) \/ PodUnready(w) \/ Controllers(w) \/ Report(w)
  PROVE  IInv'
  <1>1. Functions /\ ObjectsSound
    BY DEF IInv, TypeOK, Functions
  <1>2. ClusterMoves
    BY <1>1, OperateMoves, ApplyMoves, PodMoves, ReportMoves, JobEndsMoves DEF Controllers
  <1>3. UNCHANGED <<app, actors, waiter, since, monitor, results, calm>>
    <2>1. CASE Operate(w)
      BY <2>1 DEF Operate, RestartDeployment, RestartStatefulset, RestartDaemonset, RestartKubegres,
                  RestartPods, ScaleDeployment, ScaleStatefulset, ScaleDaemonset, ScaleCronjob,
                  ScaleKubegres, Resize, DeleteDeployment, DeleteStatefulset, DeleteDaemonset,
                  DeleteCronjob, DeleteKubegres, JobExpires, Remove, Cluster
    <2>2. CASE Apply(w) \/ PodUnready(w) \/ Controllers(w) \/ Report(w)
      BY <2>2 DEF Apply, PodUnready, Controllers, AddPod, PodReady, RemovePod, PodChanges, JobEnds,
                  Report, Cluster
    <2>3. QED
      BY <2>1, <2>2
  <1>4. QED
    BY <1>2, <1>3, ClusterInv

\* A step of waiter p that leaves its other waiters alone.
LEMMA WaiterInv ==
  ASSUME IInv, NEW p \in Waiter, NEW v \in Wait, Become(p, v),
         since' \in [Waiter -> [Workload -> Nat]],
         \A q \in Waiter \ {p} : since'[q] = since[q],
         Passed(p)'
  PROVE  IInv'
  <1>1. /\ UNCHANGED <<app, actors, object, pods, rolled, monitor, results, calm>>
        /\ waiter' = [waiter EXCEPT ![p] = v]
    BY DEF Become
  <1>2. TypeOK' /\ ObjectsSound'
    BY <1>1 DEF IInv, TypeOK, ObjectsSound
  <1>3. ASSUME NEW q \in Waiter, q # p
        PROVE  Passed(q)'
    <2>1. waiter'[q] = waiter[q] /\ since'[q] = since[q] /\ Passed(q)
      BY <1>1, <1>3 DEF IInv, TypeOK, WaitersSound
    <2>2. QED
      BY <1>1, <2>1 DEF Passed, AwaitedAt
  <1>4. QED
    BY <1>2, <1>3 DEF IInv, WaitersSound

LEMMA FailInv ==
  ASSUME IInv, NEW p \in Waiter, Fail(p)
  PROVE  IInv'
  <1> DEFINE v == [waiter[p] EXCEPT !.pc = "error"]
  <1>1. v \in Wait /\ v.pc = "error" /\ Become(p, v) /\ since' = since
    BY DEF IInv, TypeOK, Wait, Fail
  <1>2. waiter'[p] = v
    BY <1>1 DEF Become, IInv, TypeOK
  <1>3. Passed(p)'
    BY <1>1, <1>2 DEF Passed
  <1>4. QED
    BY <1>1, <1>3, WaiterInv DEF IInv, TypeOK

\* The next resource: the one just waited for was rolled out, or need not be waited for.
LEMMA NextInv ==
  ASSUME IInv, NEW p \in Waiter, since' = since, waiter[p].pc = "wait",
         waiter[p].next \in DOMAIN app,
         Become(p, [waiter[p] EXCEPT !.parts = {}, !.next = @ + 1]),
         AwaitedAt(waiter[p].next) => rolled[app[waiter[p].next]] >= since[p][app[waiter[p].next]]
  PROVE  IInv'
  <1> DEFINE v == [waiter[p] EXCEPT !.parts = {}, !.next = @ + 1]
             n == waiter[p].next
  <1>1. waiter[p] \in Wait /\ n \in Nat /\ Passed(p)
    BY DEF IInv, TypeOK, Wait, WaitersSound
  <1>2. v \in Wait /\ v.pc = "wait" /\ v.next = n + 1 /\ v.parts = {}
    <2>1. n + 1 \in Nat
      BY <1>1
    <2>2. PICK m \in Nat : m = n + 1
      BY <2>1
    <2>3. LET u == [waiter[p] EXCEPT !.parts = {}, !.next = m] IN
          u \in Wait /\ u.pc = "wait" /\ u.next = m /\ u.parts = {}
      BY <1>1 DEF Wait
    <2>4. QED
      BY <2>2, <2>3
  <1>3. v \in Wait
    BY <1>2
  <1>4. waiter'[p] = v /\ UNCHANGED <<app, object, rolled>>
    BY DEF Become, IInv, TypeOK
  <1>5. DOMAIN app \subseteq Nat
    BY AppTyped
  <1>6. \A i \in DOMAIN app : i < n + 1 => i < n \/ i = n
    BY <1>1, <1>5
  <1>7. Passed(p)'
    BY <1>1, <1>2, <1>4, <1>6 DEF Passed, AwaitedAt
  <1>8. QED
    BY <1>3, <1>7, WaiterInv DEF IInv, TypeOK

\* The workload that Wait is at, not one of a kubegres.
LEMMA AdvanceInv ==
  ASSUME IInv, NEW p \in Waiter, NEW k \in Kinds \ {"kubegres"}, At(p, k),
         Advance(p, app[waiter[p].next]), since' = since,
         rolled[app[waiter[p].next]] = object[app[waiter[p].next]].gen
  PROVE  IInv'
  <1> DEFINE w == app[waiter[p].next]
  <1>1. waiter[p] \in Wait /\ waiter[p].pc = "wait" /\ waiter[p].parts = {} /\ Passed(p)
    BY DEF IInv, TypeOK, WaitersSound, At, AtList
  <1>2. waiter[p].next \in DOMAIN app
    BY <1>1, WorkloadAssumption DEF At, Passed, IInv, TypeOK
  <1>3. w \in Workload
    BY <1>2, AppTyped
  <1>4. Become(p, [waiter[p] EXCEPT !.next = @ + 1])
    BY <1>1 DEF Advance
  <1>5. [waiter[p] EXCEPT !.next = @ + 1] = [waiter[p] EXCEPT !.parts = {}, !.next = @ + 1]
    BY <1>1 DEF Wait
  <1>6. rolled[w] >= since[p][w]
    BY <1>1, <1>3 DEF Passed
  <1>7. QED
    BY <1>1, <1>2, <1>4, <1>5, <1>6, NextInv

LEMMA StartInv ==
  ASSUME IInv, NEW p \in Waiter, StartWait(p)
  PROVE  IInv'
  <1> DEFINE v == [pc |-> "wait", next |-> 1, parts |-> {}]
             g == [w \in Workload |-> object[w].gen]
  <1>1. Become(p, v) /\ since' = [since EXCEPT ![p] = g] /\ v \in Wait
    BY DEF StartWait, Wait
  <1>2. \A w \in Workload : object[w].gen \in Nat
    BY DEF IInv, TypeOK, Object
  <1>3. g \in [Workload -> Nat]
    BY <1>2
  <1>4. waiter'[p] = v /\ since'[p] = g /\ UNCHANGED <<app, object, rolled>>
    BY <1>1 DEF Become, IInv, TypeOK
  <1>5. since' \in [Waiter -> [Workload -> Nat]] /\ \A q \in Waiter \ {p} : since'[q] = since[q]
    BY <1>1, <1>3 DEF IInv, TypeOK
  <1>6. \A w \in Workload : since'[p][w] <= object'[w].gen
    BY <1>2, <1>4
  <1>7. \A i \in DOMAIN app' : i >= 1
    BY <1>4, AppTyped
  <1>8. waiter'[p].pc = "wait" /\ waiter'[p].next = 1 /\ waiter'[p].parts = {}
    BY <1>4
  <1>9. \A i \in DOMAIN app' : ~(i < 1)
    BY <1>7, <1>4, AppTyped
  <1>10. Passed(p)'
    BY <1>6, <1>8, <1>9 DEF Passed, AwaitedAt
  <1>11. QED
    BY <1>1, <1>5, <1>10, WaiterInv

LEMMA PartInv ==
  ASSUME IInv, NEW p \in Waiter, NEW w \in waiter[p].parts, waiter[p].pc = "wait",
         Advance(p, w), since' = since
  PROVE  IInv'
  <1> DEFINE n == waiter[p].next
             v == [waiter[p] EXCEPT !.parts = @ \ {w}]
  <1>1. waiter[p] \in Wait /\ Passed(p)
    BY DEF IInv, TypeOK, WaitersSound
  <1>2. n \in DOMAIN app /\ Kind[app[n]] = "kubegres"
    BY <1>1 DEF Passed
  <1>3. CASE waiter[p].parts = {w}
    <2>1. Become(p, [waiter[p] EXCEPT !.parts = {}, !.next = @ + 1])
      BY <1>3 DEF Advance
    <2>2. QED
      BY <1>2, <2>1, NextInv DEF AwaitedAt
  <1>4. CASE waiter[p].parts # {w}
    <2>1. Become(p, [waiter[p] EXCEPT !.parts = @ \ {w}, !.next = waiter[p].next])
      BY <1>4 DEF Advance
    <2>2. [waiter[p] EXCEPT !.parts = @ \ {w}, !.next = waiter[p].next] = v
      BY <1>1 DEF Wait
    <2>3. v \in Wait /\ v.pc = "wait" /\ v.next = n
      BY <1>1 DEF Wait
    <2>4. Become(p, v)
      BY <2>1, <2>2
    <2>5. waiter'[p] = v /\ UNCHANGED <<app, object, rolled>>
      BY <2>4 DEF Become, IInv, TypeOK
    <2>6. Passed(p)'
      BY <1>1, <1>2, <2>3, <2>5 DEF Passed, AwaitedAt
    <2>7. QED
      BY <2>3, <2>4, <2>6, WaiterInv DEF IInv, TypeOK
  <1>5. QED
    BY <1>3, <1>4

LEMMA PollInv ==
  ASSUME IInv, NEW p \in Waiter,
         \/ PollDeployment(p) \/ PollStatefulset(p) \/ PollDaemonset(p)
         \/ PollJob(p) \/ PollCronjob(p)
  PROVE  IInv'
  <1> DEFINE here == app[waiter[p].next]
  <1>1. \A k \in Kinds : At(p, k) => here \in Workload /\ Kind[here] = k
    <2>1. waiter[p] \in Wait /\ Passed(p)
      BY DEF IInv, TypeOK, WaitersSound
    <2>2. QED
      BY <2>1, AppTyped DEF At, AtList, Passed, Wait
  <1>2. \A w \in Workload : Exists(w) => Truthful(w, object[w], rolled[w]) /\ object[w].exists
    BY SoundHere DEF IInv, Exists
  <1>3. CASE PollDeployment(p)
    <2>1. CASE Fail(p)
      BY <2>1, FailInv
    <2>2. CASE Exists(here) /\ DeploymentDone(object[here]) /\ Advance(p, here) /\ UNCHANGED since
      BY <1>1, <1>2, <1>3, <2>2, AdvanceInv DEF PollDeployment, Truthful, Kinds
    <2>3. QED
      BY <1>3, <2>1, <2>2 DEF PollDeployment
  <1>4. CASE PollStatefulset(p)
    <2>1. PICK w \in Workload :
            /\ waiter[p].pc = "wait"
            /\ (At(p, "statefulset") /\ w = here) \/ w \in waiter[p].parts
            /\ PollRolling(p, w, StatefulsetDone(object[w], Partition[w]))
      BY <1>4 DEF PollStatefulset
    <2>2. CASE Fail(p)
      BY <2>2, FailInv
    <2>3. CASE /\ Exists(w) /\ StatefulsetDone(object[w], Partition[w]) /\ Advance(p, w)
               /\ UNCHANGED since
      <3>1. CASE At(p, "statefulset") /\ w = here
        BY <1>1, <1>2, <2>3, <3>1, AdvanceInv DEF Truthful, Kinds
      <3>2. CASE w \in waiter[p].parts /\ waiter[p].pc = "wait"
        BY <2>3, <3>2, PartInv
      <3>3. QED
        BY <2>1, <3>1, <3>2
    <2>4. QED
      BY <2>1, <2>2, <2>3 DEF PollRolling
  <1>5. CASE PollDaemonset(p)
    <2>1. CASE Fail(p)
      BY <2>1, FailInv
    <2>2. CASE Exists(here) /\ DaemonsetDone(object[here]) /\ Advance(p, here) /\ UNCHANGED since
      BY <1>1, <1>2, <1>5, <2>2, AdvanceInv DEF PollDaemonset, Truthful, Kinds
    <2>3. QED
      BY <1>5, <2>1, <2>2 DEF PollDaemonset, PollRolling
  <1>6. CASE PollJob(p)
    BY <1>1, <1>2, <1>6, AdvanceInv DEF PollJob, Truthful, Kinds
  <1>7. CASE PollCronjob(p)
    BY <1>1, <1>2, <1>7, AdvanceInv DEF PollCronjob, Truthful, Kinds
  <1>8. QED
    BY <1>3, <1>4, <1>5, <1>6, <1>7

LEMMA KubegresInv ==
  ASSUME IInv, NEW p \in Waiter, WaitKubegres(p)
  PROVE  IInv'
  <1> DEFINE w == app[waiter[p].next]
             v == [waiter[p] EXCEPT !.parts = Statefulsets(w)]
  <1>1. /\ waiter[p] \in Wait /\ waiter[p].pc = "wait" /\ waiter[p].parts = {} /\ Passed(p)
        /\ since' = since
    BY DEF IInv, TypeOK, WaitersSound, WaitKubegres, At, AtList
  <1>2. waiter[p].next \in DOMAIN app /\ Kind[w] = "kubegres"
    BY <1>1, AppTyped DEF WaitKubegres, At, Passed, Wait
  <1>3. CASE Statefulsets(w) = {}
    <2>1. Become(p, [waiter[p] EXCEPT !.next = @ + 1])
      BY <1>1, <1>3 DEF WaitKubegres, Advance
    <2>2. [waiter[p] EXCEPT !.next = @ + 1] = [waiter[p] EXCEPT !.parts = {}, !.next = @ + 1]
      BY <1>1 DEF Wait
    <2>3. QED
      BY <1>1, <1>2, <2>1, <2>2, NextInv DEF AwaitedAt
  <1>4. CASE Statefulsets(w) # {}
    <2>1. Become(p, v)
      BY <1>4 DEF WaitKubegres
    <2>2. Statefulsets(w) \in SUBSET Workload
      BY <1>2, AppTyped, WorkloadAssumption DEF Statefulsets
    <2>3. v \in Wait /\ v.pc = "wait" /\ v.next = waiter[p].next
      BY <1>1, <2>2 DEF Wait
    <2>4. waiter'[p] = v /\ UNCHANGED <<app, object, rolled>>
      BY <2>1 DEF Become, IInv, TypeOK
    <2>5. Passed(p)'
      BY <1>1, <1>2, <2>3, <2>4 DEF Passed, AwaitedAt
    <2>6. QED
      BY <1>1, <2>1, <2>3, <2>5, WaiterInv DEF IInv, TypeOK
  <1>5. QED
    BY <1>3, <1>4

\* At the end of the list, or at a service, all that had to be waited for was.
LEMMA FinishInv ==
  ASSUME IInv, NEW p \in Waiter, Finish(p)
  PROVE  IInv'
  <1> DEFINE v == [waiter[p] EXCEPT !.pc = "ok"]
  <1>1. waiter[p] \in Wait /\ waiter[p].pc = "wait" /\ Passed(p) /\ waiter[p].next \in Nat \ {0}
    BY DEF IInv, TypeOK, WaitersSound, Finish, AtList, Passed
  <1>2. Become(p, v) /\ since' = since /\ v \in Wait /\ v.pc = "ok"
    BY <1>1 DEF Finish, Wait
  <1>3. waiter'[p] = v /\ UNCHANGED <<app, object, rolled>>
    BY <1>2 DEF Become, IInv, TypeOK
  <1>4. \A i \in DOMAIN app : AwaitedAt(i) => i < waiter[p].next
    BY <1>1, AppTyped DEF Finish, At, AwaitedAt
  <1>5. Passed(p)'
    BY <1>1, <1>2, <1>3, <1>4 DEF Passed, AwaitedAt
  <1>6. QED
    BY <1>2, <1>5, WaiterInv DEF IInv, TypeOK

\* The status server only reads.
LEMMA ServerInv ==
  ASSUME IInv, UpdateResourceList \/ CalmDown
  PROVE  IInv'
  <1>1. UNCHANGED <<app, actors, cluster, waiter, since>>
    BY DEF UpdateResourceList, ListInstalls, FetchStatus, Publish, Watch, CalmDown
  <1>2. calm' \in BOOLEAN /\ monitor' \in Monitor /\ results' \in [Workload -> StatusName]
    <2>1. monitor \in Monitor /\ results \in [Workload -> StatusName] /\ calm \in BOOLEAN
      BY DEF IInv, TypeOK
    <2>2. NoStatuses \in [Workload -> StatusName]
      BY DEF NoStatuses, StatusName
    <2>3. CASE CalmDown
      BY <2>1, <2>3 DEF CalmDown
    <2>4. CASE ListInstalls
      BY <2>1, <2>2, <2>4 DEF ListInstalls, Watch, Monitor
    <2>5. CASE Publish
      BY <2>1, <2>2, <2>5 DEF Publish, Watch, Monitor
    <2>6. CASE FetchStatus
      <3>1. PICK s \in StatusName :
              monitor' = [monitor EXCEPT !.next = @ + 1, !.statuses[app[monitor.next]] = s]
        BY <2>6 DEF FetchStatus, Watch, CalculateStatus, StatusName
      <3>2. [monitor.statuses EXCEPT ![app[monitor.next]] = s] \in [Workload -> StatusName]
        BY <2>1 DEF Monitor
      <3>3. monitor.next + 1 \in Nat
        BY <2>1 DEF Monitor
      <3>4. QED
        BY <2>1, <2>6, <3>1, <3>2, <3>3 DEF FetchStatus, Watch, Monitor
    <2>7. QED
      BY <2>3, <2>4, <2>5, <2>6 DEF UpdateResourceList
  <1>3. TypeOK'
    BY <1>1, <1>2 DEF IInv, TypeOK, cluster
  <1>4. ObjectsSound' /\ WaitersSound'
    BY <1>1 DEF IInv, cluster, ObjectsSound, WaitersSound, Passed, AwaitedAt
  <1>5. QED
    BY <1>3, <1>4 DEF IInv

LEMMA InvNext == IInv /\ [Next]_vars => IInv'
  <1> SUFFICES ASSUME IInv, [Next]_vars
               PROVE  IInv'
    OBVIOUS
  <1>1. CASE \E w \in Workload :
               \/ ~calm /\ (Operate(w) \/ Apply(w) \/ PodUnready(w))
               \/ Controllers(w) \/ Report(w)
    BY <1>1, CommandInv
  <1>2. ASSUME NEW p \in Waiter, RolloutWait(p)
        PROVE  IInv'
    <2>1. CASE StartWait(p)
      BY <2>1, StartInv
    <2>2. CASE \/ PollDeployment(p) \/ PollStatefulset(p) \/ PollDaemonset(p)
               \/ PollJob(p) \/ PollCronjob(p)
      BY <2>2, PollInv
    <2>3. CASE WaitKubegres(p)
      BY <2>3, KubegresInv
    <2>4. CASE Finish(p)
      BY <2>4, FinishInv
    <2>5. CASE WaitFails(p)
      BY <2>5, FailInv DEF WaitFails
    <2>6. QED
      BY <1>2, <2>1, <2>2, <2>3, <2>4, <2>5 DEF RolloutWait
  <1>3. CASE UpdateResourceList \/ CalmDown
    BY <1>3, ServerInv
  <1>4. CASE UNCHANGED vars
    <2>1. UNCHANGED <<app, actors, object, pods, rolled, waiter, since, monitor, results, calm>>
      BY <1>4 DEF vars
    <2>2. QED
      BY <2>1 DEF IInv, TypeOK, ObjectsSound, WaitersSound, Passed, AwaitedAt
  <1>5. QED
    BY <1>1, <1>2, <1>3, <1>4 DEF Next

LEMMA InvHolds == Spec => []IInv
  BY InvInit, InvNext, PTL DEF Spec

\* The variables keep their types.
THEOREM TypeCorrect == Spec => []TypeOK
  <1>1. IInv => TypeOK
    BY DEF IInv
  <1>2. QED
    BY <1>1, InvHolds, PTL

\* A rollout wait that succeeds did see every workload it had to wait for rolled
\* out, in a generation that is not older than the wait, whatever reports lagged
\* behind and whatever was restarted, scaled, deleted or applied meanwhile.
THEOREM WaitIsSound == Spec => []WaitSound
  <1>1. IInv => WaitSound
    BY AppTyped DEF IInv, WaitersSound, Passed, WaitSound, Awaited, AwaitedAt
  <1>2. QED
    BY <1>1, InvHolds, PTL

=============================================================================
