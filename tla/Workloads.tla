----------------------------- MODULE Workloads ------------------------------
(***************************************************************************)
(* The workloads of an install: the package resources, which fetches,      *)
(* restarts, scales, deletes and waits for Deployments, StatefulSets and   *)
(* so on; RolloutStatusManager.Wait (managers/rollout.go), which waits for *)
(* the resources that an application lists; and the goroutine of the       *)
(* status server that publishes their status (managers/status_resource.go). *)
(* Kubernetes' controllers make the pods and report them, later, in the    *)
(* status of the object.  One version of the application is registered.    *)
(***************************************************************************)
EXTENDS Integers, Sequences, FiniteSets

CONSTANTS Workload,
          Kind,        \* the kind of each
          Replicas,    \* and how many replicas, nodes or statefulsets it has when started
          Partition,   \* of a statefulset's rolling update
          OnDelete,    \* the statefulsets and daemonsets without rolling updates
          Parts,       \* the statefulsets labelled with the name of a kubegres
          Completions, Parallelism,  \* in the spec of the jobs
          Waiter,      \* processes in RolloutStatusManager.Wait
          Setups,      \* what an Application may list as its resources, with which of
                       \* the waiters, and of "server", are there
          Room,        \* bound: how many pods of each workload the nodes have room for
          MaxGen       \* bound: generations of a workload

Kinds == {"deployment", "statefulset", "daemonset", "job", "cronjob", "kubegres",
          "service", "unknown"}

ASSUME WorkloadAssumption ==
  /\ Kind \in [Workload -> Kinds]
  /\ Replicas \in [Workload -> Nat] /\ Partition \in [Workload -> Nat]
  /\ Room \in [Workload -> Nat]
  /\ \A w \in Workload : Kind[w] # "statefulset" => Partition[w] = 0
  /\ Parts \in [Workload -> SUBSET {w \in Workload : Kind[w] = "statefulset"}]
  /\ Completions \in Nat /\ Parallelism \in Nat
  /\ Setups \subseteq Seq(Workload) \X SUBSET (Waiter \cup {"server"})
  /\ "server" \notin Waiter /\ MaxGen \in Nat

VARIABLES
  app,      \* the resources of the application, in order
  actors,   \* the waiters and the server that there are
  object,   \* the API object of each workload
  pods,     \* and its pods: old and new ones, and how many of each are ready
  rolled,   \* history: the last generation seen with all of its replicas ready
  waiter,   \* Wait
  since,    \* history: the generations when Wait was called
  monitor,  \* updateResourceList
  results,  \* resourceStatusResults
  calm      \* nothing fails or is changed any more

cluster == <<object, pods, rolled>>
vars == <<app, actors, object, pods, rolled, waiter, since, monitor, results, calm>>

Object == [exists: BOOLEAN, gen: Nat, want: Nat,
           observed: Nat,  \* status.observedGeneration
           desired: Nat, total: Nat, updated: Nat, ready: Nat,  \* status
           cond: {"none", "complete", "failed", "deadline"}]
Pods == [old: Nat, oldReady: Nat, new: Nat, newReady: Nat]
StatusName == {"none", "stopped", "down", "up", "degraded", "impacted"}
Wait == [pc: {"idle", "wait", "ok", "error"}, next: Nat, parts: SUBSET Workload]
Monitor == [pc: {"list", "fetch"}, next: Nat, statuses: [Workload -> StatusName]]

NoPods == [old |-> 0, oldReady |-> 0, new |-> 0, newReady |-> 0]
Unborn == [exists |-> FALSE, gen |-> 0, want |-> 0, observed |-> 0, desired |-> 0,
           total |-> 0, updated |-> 0, ready |-> 0, cond |-> "none"]
NoStatuses == [w \in Workload |-> "none"]

Exists(w) == object[w].exists
OfKind(w, k) == Kind[w] = k /\ Exists(w)
Templated == {"deployment", "statefulset", "daemonset"}  \* they keep replicas of a pod

-----------------------------------------------------------------------------
(* What is read of an object: Fetch *)

Count(a, t) == [available |-> a, total |-> t]
FetchUpdated(w) == Count(object[w].updated, object[w].want)
FetchDeployment(w) == Count(object[w].ready, object[w].want)
FetchStatefulset(w) == Count(object[w].ready, object[w].want)
FetchDaemonset(w) == Count(object[w].ready, object[w].desired)
FetchJob(w) == Count(Completions, Parallelism)
FetchCronjob(w) == IF object[w].want > 0 THEN Count(1, 1) ELSE Count(0, 0)

\* getKubegresStatefulSets.
Statefulsets(w) == {s \in Parts[w] : Exists(s)}
FetchKubegres(w) == Count(Cardinality(Statefulsets(w)), object[w].want)

Fetched(w) ==
  CASE Kind[w] = "deployment" -> FetchDeployment(w)
    [] Kind[w] = "statefulset" -> FetchStatefulset(w)
    [] Kind[w] = "daemonset" -> FetchDaemonset(w)
    [] Kind[w] = "job" -> FetchJob(w)
    [] Kind[w] = "cronjob" -> FetchCronjob(w)
    [] OTHER -> FetchKubegres(w)

NeedsQuorum(w) == Kind[w] = "statefulset"

\* A name that statusMap does not have.
StatusUnnamed(c, quorum) == IF c.total = 0 THEN "unknown" ELSE "up"
CalculateStatus(c, quorum) ==
  CASE c.total = 0 -> "stopped"
    [] c.total # 0 /\ c.available = 0 -> "down"
    [] c.total # 0 /\ c.available = c.total -> "up"
    [] OTHER -> IF quorum /\ c.available < c.total \div 2 THEN "impacted" ELSE "degraded"

-----------------------------------------------------------------------------
(* Is it rolled out?  The viewers of helpers/rolloutstatus, and the loops of *)
(* jobs and cronjobs.                                                        *)

Observed(o) == o.gen <= o.observed

DeploymentFailed(o) == Observed(o) /\ o.cond = "deadline"
DeploymentDone(o) ==
  /\ Observed(o) /\ o.cond # "deadline"
  /\ o.updated >= o.want /\ o.total <= o.updated /\ o.ready >= o.updated

DaemonsetDone(o) == Observed(o) /\ o.updated >= o.desired /\ o.ready >= o.desired

StatefulsetReady(o, partition) == o.observed # 0 /\ Observed(o) /\ o.ready >= o.want
StatefulsetDone(o, partition) ==
  /\ o.observed # 0 /\ Observed(o)
  /\ o.ready >= o.want /\ o.updated >= o.want - partition

JobDone(o) == o.cond = "complete"
CronjobDone(o) == o.want > 0

-----------------------------------------------------------------------------
(* The operations on a workload *)

Cluster == UNCHANGED <<app, actors, waiter, since, monitor, results, calm>>

SetObject(w, o) == object' = [object EXCEPT ![w] = o]
SetPods(w, p) == pods' = [pods EXCEPT ![w] = p]
NewGeneration(w) == [object[w] EXCEPT !.gen = @ + 1]

\* The pods are now those of an earlier template.
Outdated(p) == [NoPods EXCEPT !.old = p.old + p.new, !.oldReady = p.oldReady + p.newReady]

\* Deletes the pods of a workload at once, or patches an annotation of its template.
RestartPods(w, force) ==
  /\ Cluster /\ UNCHANGED rolled
  /\ IF force
       THEN SetPods(w, NoPods) /\ UNCHANGED object
       ELSE /\ object[w].gen < MaxGen
            /\ SetObject(w, NewGeneration(w)) /\ SetPods(w, Outdated(pods[w]))
RestartDeployment(w, force) == OfKind(w, "deployment") /\ RestartPods(w, force)
RestartStatefulset(w, force) == OfKind(w, "statefulset") /\ RestartPods(w, force)
RestartDaemonset(w, force) == OfKind(w, "daemonset") /\ RestartPods(w, force)

\* All its statefulsets are restarted, those excepted whose restart fails.
RestartKubegres(w, force) ==
  /\ OfKind(w, "kubegres") /\ Cluster /\ UNCHANGED rolled
  /\ \E done \in SUBSET Statefulsets(w) :
       IF force
         THEN /\ pods' = [s \in Workload |-> IF s \in done THEN NoPods ELSE pods[s]]
              /\ UNCHANGED object
         ELSE /\ \A s \in done : object[s].gen < MaxGen
              /\ object' = [s \in Workload |-> IF s \in done THEN NewGeneration(s) ELSE object[s]]
              /\ pods' = [s \in Workload |-> IF s \in done THEN Outdated(pods[s]) ELSE pods[s]]

Resize(w, n) ==
  /\ object[w].gen < MaxGen
  /\ SetObject(w, [NewGeneration(w) EXCEPT !.want = n])
  /\ UNCHANGED <<pods, rolled>> /\ Cluster
ScaleDeployment(w, n) == OfKind(w, "deployment") /\ n # object[w].want /\ Resize(w, n)
ScaleStatefulset(w, n) == OfKind(w, "statefulset") /\ n # object[w].want /\ Resize(w, n)
ScaleKubegres(w, n) == OfKind(w, "kubegres") /\ n # object[w].want /\ Resize(w, n)

\* A node selector that no node has is set, which makes another template, or
\* removed, which fails if it is not there.
ScaleDaemonset(w, n) ==
  /\ OfKind(w, "daemonset") /\ (n = 0 <=> object[w].want # 0)
  /\ object[w].gen < MaxGen
  /\ SetObject(w, [NewGeneration(w) EXCEPT !.want = n]) /\ SetPods(w, Outdated(pods[w]))
  /\ UNCHANGED rolled /\ Cluster

\* Suspends or unsuspends.
ScaleCronjob(w, n) ==
  /\ OfKind(w, "cronjob") /\ (n = 0 <=> object[w].want # 0) /\ object[w].gen < MaxGen
  /\ SetObject(w, [NewGeneration(w) EXCEPT !.want = n])
  /\ rolled' = IF n > 0 THEN [rolled EXCEPT ![w] = object[w].gen + 1] ELSE rolled
  /\ UNCHANGED pods /\ Cluster

Remove(w) ==
  /\ SetObject(w, [Unborn EXCEPT !.gen = object[w].gen]) /\ SetPods(w, NoPods)
  /\ UNCHANGED rolled /\ Cluster
DeleteDeployment(w) == OfKind(w, "deployment") /\ Remove(w)
DeleteStatefulset(w) == OfKind(w, "statefulset") /\ Remove(w)
DeleteDaemonset(w) == OfKind(w, "daemonset") /\ Remove(w)
DeleteCronjob(w) == OfKind(w, "cronjob") /\ Remove(w)
DeleteKubegres(w) == OfKind(w, "kubegres") /\ Remove(w)
\* Not by JobResource, whose Delete does nothing.
JobExpires(w) == OfKind(w, "job") /\ Remove(w)

Operate(w) ==
  \/ \E force \in BOOLEAN : \/ RestartDeployment(w, force) \/ RestartStatefulset(w, force)
                            \/ RestartDaemonset(w, force) \/ RestartKubegres(w, force)
  \/ \E n \in {0, Replicas[w]} :
       \/ ScaleDeployment(w, n) \/ ScaleStatefulset(w, n) \/ ScaleDaemonset(w, n)
       \/ ScaleCronjob(w, n) \/ ScaleKubegres(w, n)
  \/ DeleteDeployment(w) \/ DeleteStatefulset(w) \/ DeleteDaemonset(w)
  \/ DeleteCronjob(w) \/ DeleteKubegres(w) \/ JobExpires(w)

-----------------------------------------------------------------------------
(* The deploy job and the controllers of the cluster *)

Needed(w) == \E i \in DOMAIN app : app[i] = w \/ w \in Parts[app[i]]

\* An apply, or for a statefulset of a kubegres its operator, makes the object or
\* changes its template.
Apply(w) ==
  /\ Needed(w) /\ Kind[w] \notin {"service", "unknown"} /\ object[w].gen < MaxGen
  /\ Cluster
  /\ IF Exists(w)
       THEN /\ Kind[w] \in Templated /\ UNCHANGED rolled
            /\ SetObject(w, NewGeneration(w)) /\ SetPods(w, Outdated(pods[w]))
       ELSE /\ SetObject(w, [Unborn EXCEPT !.exists = TRUE, !.gen = object[w].gen + 1,
                                           !.want = Replicas[w]])
            /\ rolled' = IF Kind[w] = "cronjob" /\ Replicas[w] > 0
                           THEN [rolled EXCEPT ![w] = object[w].gen + 1] ELSE rolled
            /\ UNCHANGED pods

\* A deployment makes a new pod before it removes an old one.
Surge(w) == IF Kind[w] = "deployment" THEN 1 ELSE 0

PodChanges(w, p) ==
  /\ Exists(w) /\ Kind[w] \in Templated
  /\ SetPods(w, p) /\ UNCHANGED <<object, rolled>> /\ Cluster

AddPod(w) ==
  LET p == pods[w] IN
  /\ p.new < object[w].want /\ p.old + p.new < object[w].want + Surge(w)
  /\ p.old + p.new < Room[w]
  /\ PodChanges(w, [p EXCEPT !.new = @ + 1])
PodReady(w) ==
  LET p == pods[w] IN
  \/ p.newReady < p.new /\ PodChanges(w, [p EXCEPT !.newReady = @ + 1])
  \/ p.oldReady < p.old /\ PodChanges(w, [p EXCEPT !.oldReady = @ + 1])
PodUnready(w) ==
  LET p == pods[w] IN
  \/ p.newReady > 0 /\ PodChanges(w, [p EXCEPT !.newReady = @ - 1])
  \/ p.oldReady > 0 /\ PodChanges(w, [p EXCEPT !.oldReady = @ - 1])
\* Of an earlier template, or more than wanted.
RemovePod(w) ==
  LET p == pods[w] IN
  \/ p.oldReady < p.old /\ PodChanges(w, [p EXCEPT !.old = @ - 1])
  \/ p.oldReady > 0 /\ PodChanges(w, [p EXCEPT !.old = @ - 1, !.oldReady = @ - 1])
  \/ /\ p.new > object[w].want /\ p.newReady < p.new /\ PodChanges(w, [p EXCEPT !.new = @ - 1])
  \/ /\ p.new > object[w].want /\ p.newReady > 0
     /\ PodChanges(w, [p EXCEPT !.new = @ - 1, !.newReady = @ - 1])

\* All the replicas that the spec wants are ready, and of its template but for the
\* partition of a statefulset.
Complete(w) ==
  \/ object[w].want = 0
  \/ /\ pods[w].oldReady + pods[w].newReady >= object[w].want
     /\ pods[w].old <= Partition[w]

\* The status of the object is brought up to date; for a deployment, the progress
\* deadline may have passed.
Report(w) ==
  LET p == pods[w]
      o(c) == [object[w] EXCEPT !.observed = object[w].gen, !.desired = object[w].want,
                 !.total = p.old + p.new, !.updated = p.new, !.ready = p.oldReady + p.newReady,
                 !.cond = c]
  IN
  /\ Exists(w) /\ Kind[w] \in Templated
  /\ \/ SetObject(w, o("none"))
     \/ Kind[w] = "deployment" /\ p.newReady < object[w].want /\ SetObject(w, o("deadline"))
  /\ rolled' = IF Complete(w) THEN [rolled EXCEPT ![w] = object[w].gen] ELSE rolled
  /\ UNCHANGED pods /\ Cluster

JobEnds(w) ==
  /\ OfKind(w, "job") /\ object[w].cond = "none"
  /\ \/ SetObject(w, [object[w] EXCEPT !.cond = "failed"]) /\ UNCHANGED rolled
     \/ /\ SetObject(w, [object[w] EXCEPT !.cond = "complete"])
        /\ rolled' = [rolled EXCEPT ![w] = object[w].gen]
  /\ UNCHANGED pods /\ Cluster

-----------------------------------------------------------------------------
(* RolloutStatusManager.Wait *)

Become(p, v) ==
  /\ waiter' = [waiter EXCEPT ![p] = v]
  /\ UNCHANGED <<app, actors, object, pods, rolled, monitor, results, calm>>

Fail(p) == Become(p, [waiter[p] EXCEPT !.pc = "error"]) /\ UNCHANGED since

StartWait(p) ==
  /\ waiter[p].pc \in {"idle", "ok", "error"}
  /\ since' = [since EXCEPT ![p] = [w \in Workload |-> object[w].gen]]
  /\ Become(p, [pc |-> "wait", next |-> 1, parts |-> {}])

AtList(p) == waiter[p].pc = "wait" /\ waiter[p].parts = {}
At(p, k) == AtList(p) /\ waiter[p].next <= Len(app) /\ Kind[app[waiter[p].next]] = k

\* The wait for resource w ended well.
Advance(p, w) ==
  IF w \in waiter[p].parts
    THEN Become(p, [waiter[p] EXCEPT !.parts = @ \ {w},
                       !.next = IF waiter[p].parts = {w} THEN @ + 1 ELSE @])
    ELSE Become(p, [waiter[p] EXCEPT !.next = @ + 1])

\* One round of the loop in Wait: it returns, or the loop goes on after a sleep.
PollDeployment(p) ==
  /\ At(p, "deployment")
  /\ LET w == app[waiter[p].next] IN
     \/ ~Exists(w) /\ Fail(p)
     \/ Exists(w) /\ DeploymentFailed(object[w]) /\ Fail(p)
     \/ Exists(w) /\ DeploymentDone(object[w]) /\ Advance(p, w) /\ UNCHANGED since

PollRolling(p, w, done) ==
  \/ ~Exists(w) /\ Fail(p)
  \/ Exists(w) /\ w \in OnDelete /\ Fail(p)
  \/ Exists(w) /\ w \notin OnDelete /\ done /\ Advance(p, w) /\ UNCHANGED since
\* In Wait of a statefulset, or of one that belongs to a kubegres, in any order.
PollStatefulset(p) ==
  \E w \in Workload :
    /\ waiter[p].pc = "wait"
    /\ (At(p, "statefulset") /\ w = app[waiter[p].next]) \/ w \in waiter[p].parts
    /\ PollRolling(p, w, StatefulsetDone(object[w], Partition[w]))
PollDaemonset(p) ==
  /\ At(p, "daemonset")
  /\ LET w == app[waiter[p].next] IN PollRolling(p, w, DaemonsetDone(object[w]))

\* An object that is missing is waited for.
PollJob(p) ==
  /\ At(p, "job")
  /\ LET w == app[waiter[p].next] IN
       Exists(w) /\ JobDone(object[w]) /\ Advance(p, w) /\ UNCHANGED since
PollCronjob(p) ==
  /\ At(p, "cronjob")
  /\ LET w == app[waiter[p].next] IN
       Exists(w) /\ CronjobDone(object[w]) /\ Advance(p, w) /\ UNCHANGED since

\* The statefulsets that there are now are waited for; nothing asks for the kubegres.
WaitKubegres(p) ==
  /\ At(p, "kubegres") /\ UNCHANGED since
  /\ LET w == app[waiter[p].next] IN
     IF Statefulsets(w) = {} THEN Advance(p, w)
     ELSE Become(p, [waiter[p] EXCEPT !.parts = Statefulsets(w)])

\* A Service ends the wait.
Finish(p) ==
  /\ AtList(p) /\ (waiter[p].next > Len(app) \/ At(p, "service"))
  /\ Become(p, [waiter[p] EXCEPT !.pc = "ok"]) /\ UNCHANGED since

\* A type that is not known, a Get or List that fails, or the end of the timeout.
WaitFails(p) == waiter[p].pc = "wait" /\ Fail(p)

RolloutWait(p) ==
  \/ StartWait(p) \/ PollDeployment(p) \/ PollStatefulset(p) \/ PollDaemonset(p)
  \/ PollJob(p) \/ PollCronjob(p) \/ WaitKubegres(p) \/ Finish(p) \/ WaitFails(p)

-----------------------------------------------------------------------------
(* updateResourceList *)

Watch(m) == monitor' = m /\ UNCHANGED <<app, actors, cluster, waiter, since, calm>>

\* A List that fails is tried again.
ListInstalls ==
  /\ monitor.pc = "list"
  /\ Watch([pc |-> "fetch", next |-> 1, statuses |-> NoStatuses])
  /\ UNCHANGED results

\* Fetch gives no replicas when it fails.  A resource without a namespace, or of a
\* type that has no replicas, is skipped.
FetchStatus ==
  /\ monitor.pc = "fetch" /\ monitor.next <= Len(app)
  /\ UNCHANGED results
  /\ LET w == app[monitor.next]
         Collect(s) == Watch([monitor EXCEPT !.next = @ + 1, !.statuses[w] = s])
     IN \/ (~calm \/ Kind[w] \in {"service", "unknown"}) /\ Collect("none")
        \/ /\ Kind[w] \notin {"service", "unknown"}
           /\ \/ (~calm \/ ~Exists(w)) /\ Collect(CalculateStatus(Count(0, 0), NeedsQuorum(w)))
              \/ Exists(w) /\ Collect(CalculateStatus(Fetched(w), NeedsQuorum(w)))

Publish ==
  /\ monitor.pc = "fetch" /\ monitor.next > Len(app)
  /\ results' = monitor.statuses
  /\ Watch([monitor EXCEPT !.pc = "list", !.statuses = NoStatuses])

UpdateResourceList == "server" \in actors /\ (ListInstalls \/ FetchStatus \/ Publish)

-----------------------------------------------------------------------------

CalmDown == ~calm /\ calm' = TRUE /\ UNCHANGED <<app, actors, cluster, waiter, since, monitor, results>>

Init ==
  /\ \E s \in Setups : app = s[1] /\ actors = s[2]
  /\ calm = FALSE
  /\ object = [w \in Workload |-> Unborn] /\ pods = [w \in Workload |-> NoPods]
  /\ rolled = [w \in Workload |-> 0]
  /\ waiter = [p \in Waiter |-> [pc |-> "idle", next |-> 1, parts |-> {}]]
  /\ since = [p \in Waiter |-> [w \in Workload |-> 0]]
  /\ monitor = [pc |-> "list", next |-> 1, statuses |-> NoStatuses]
  /\ results = NoStatuses

Controllers(w) == AddPod(w) \/ PodReady(w) \/ RemovePod(w) \/ JobEnds(w)

Next ==
  \/ \E w \in Workload :
       \/ ~calm /\ (Operate(w) \/ Apply(w) \/ PodUnready(w))
       \/ Controllers(w) \/ Report(w)
  \/ \E p \in Waiter \cap actors : RolloutWait(p)
  \/ UpdateResourceList \/ CalmDown

Spec == Init /\ [][Next]_vars

\* The goroutine is scheduled, its requests succeed in the end, and the controllers
\* bring the status of each object up to date.
FairSpec == Spec /\ WF_vars(UpdateResourceList) /\ \A w \in Workload : WF_vars(Report(w))

-----------------------------------------------------------------------------
(* Properties *)

TypeOK ==
  /\ <<app, actors>> \in Setups /\ calm \in BOOLEAN
  /\ object \in [Workload -> Object] /\ pods \in [Workload -> Pods]
  /\ rolled \in [Workload -> Nat]
  /\ waiter \in [Waiter -> Wait] /\ since \in [Waiter -> [Workload -> Nat]]
  /\ monitor \in Monitor /\ results \in [Workload -> StatusName]

\* What Wait has to wait for: the resources before the first service, but not
\* what a kubegres consists of.
Awaited ==
  {app[i] : i \in {j \in DOMAIN app : Kind[app[j]] # "kubegres" /\
                                      \A h \in 1 .. j : Kind[app[h]] # "service"}}

\* A Wait that succeeds is right whatever the controllers had reported when: of each
\* workload it had to wait for, a generation as young as the call (or younger) was
\* seen with all its replicas ready, jobs completed and cronjobs not suspended.
WaitSound ==
  \A p \in Waiter : waiter[p].pc = "ok" => \A w \in Awaited : rolled[w] >= since[p][w]

Ready(w) == pods[w].oldReady + pods[w].newReady

\* The status fits the pods: replicas that are ready, against those that are wanted.  A
\* service that needs a quorum is impacted without a majority, (n/2)+1 of its replicas.
Describes(s, w) ==
  LET want == object[w].want  majority == want \div 2 + 1 IN
  /\ s # "none"
  /\ s = "stopped" <=> want = 0
  /\ s = "down" <=> want > 0 /\ Ready(w) = 0
  /\ s = "up" <=> want > 0 /\ Ready(w) = want
  /\ s = "impacted" <=> Kind[w] = "statefulset" /\ Ready(w) \in 1 .. majority - 1

\* Half of a statefulset's replicas, rounded down, are ready: no majority.
HalfReady(w) ==
  Kind[w] = "statefulset" /\ Ready(w) > 0 /\ Ready(w) = object[w].want \div 2

\* The workloads that keep replicas of a pod, of those of the application.
Watched == {w \in Workload : Kind[w] \in Templated /\ \E i \in DOMAIN app : app[i] = w}
Settled == <>calm /\ []("server" \in actors)

\* Once nothing fails or is changed any more, the published status of each resource
\* is the one its pods deserve, and stays it.  Excepted is which of degraded and impacted a
\* statefulset is with half of its replicas: no majority, as calculateStatus ("Check for a
\* majority of available replicas") and NeedsQuorum ("whether (n/2)+1 replicas are necessary")
\* say, but not fewer than n/2, which is what the code compares with.
StatusConverges ==
  Settled => <>[](\A w \in Watched :
    Describes(results[w], w) \/ (HalfReady(w) /\ results[w] \in {"degraded", "impacted"}))
=============================================================================
