----------------------------- MODULE DeployJob -----------------------------
(***************************************************************************)
(* kb commands that deploy one install through Kubernetes jobs:            *)
(* DeployManager.Deploy and DeployManager.Delete (managers/deploy.go), the *)
(* commands built on them (deploy bundle, smoketest bundle, diff bundle,   *)
(* uninstall), and the part of the cluster they depend on.                 *)
(*                                                                         *)
(* Every kb process is a sequence of API calls, one action per call, and   *)
(* nothing serialises two processes.  An install's jobs are named after    *)
(* it: every action shares one name ("base"), only smoketest has its own.  *)
(***************************************************************************)
EXTENDS Naturals

CONSTANTS Proc,       \* kb processes
          InstallSpec,\* contents an Install's spec can have
          ValidSpec,  \* those that give every required parameter a value
          NoSpec,     \* no install, no configmap, nothing deployed
          Commands,   \* commands the processes may run
          ShowLogs,   \* the --show-logs flag, for the commands that have it
          MaxRuns,    \* bound: commands run by one process
          MaxConfigs  \* bound: changes to the install made by other commands

Command == {"deploy", "smoketest", "diff", "uninstall", "uninstall --force"}

ASSUME SpecAssumption == ValidSpec \subseteq InstallSpec /\ NoSpec \notin InstallSpec
ASSUME CommandAssumption == Commands \subseteq Command
ASSUME FlagAssumption == ShowLogs \in BOOLEAN
ASSUME BoundAssumption == MaxRuns \in Nat /\ MaxConfigs \in Nat

Action == {"apply", "smoketest", "diff", "delete"}
JobName == {"base", "smoketest"}
PodPhase == {"none", "pending", "running", "acted", "succeeded", "failed"}
Condition == {"none", "complete", "failed"}
Verdict == {"none", "ok", "error"}

\* What a process prints logs for: pollJob's first printLogs, the one after the
\* poll has failed, and the diff of diff bundle.
Prints == {"first", "failed", "diff"}
PC == {"idle", "preflight", "delete", "deletewait", "cmget", "cmwrite", "createjob",
       "logsget", "logslist", "logsstream", "pollget", "rollout",
       "cleanup", "cleanupwait", "dropinstall"}

AnySpec == InstallSpec \cup {NoSpec}
NoUid == 0

Job == [uid: Nat, action: Action \cup {"none"}, cfg: AnySpec,
        pod: PodPhase, cond: Condition, terminating: BOOLEAN]

\* The value of a name that no job bears.
NoJob == [uid |-> NoUid, action |-> "none", cfg |-> NoSpec, pod |-> "none",
          cond |-> "none", terminating |-> FALSE]

Process ==
  [pc: PC, cmd: Command \cup {"none"}, action: Action \cup {"none"}, target: JobName,
   spec: AnySpec,       \* install.Spec as it was read
   base: AnySpec,       \* configmap as it was read, for the merge patch
   logUid: Nat,         \* job whose pod's logs are followed
   printing: Prints,     \* the print that is running, or ran last
   expired: BOOLEAN,    \* pollJob's timeout has passed
   since: Nat,          \* uid of the newest job when this Deploy started
   seenUid: Nat,        \* the job whose Complete condition this Deploy saw
   verdict: Verdict]

NoProcess ==
  [pc |-> "idle", cmd |-> "none", action |-> "none", target |-> "base", spec |-> NoSpec,
   base |-> NoSpec, logUid |-> NoUid, printing |-> "first", expired |-> FALSE,
   since |-> NoUid, seenUid |-> NoUid, verdict |-> "none"]

VARIABLES
  install,    \* spec of the Install resource
  configmap,  \* spec written to the install's configmap
  job,        \* the Job of each name, with its only pod
  deployed,   \* spec the workloads in the cluster were last made from
  lastUid,    \* uid of the newest job
  configs,    \* changes other commands made to the install
  kb,         \* the kb processes
  runs        \* commands each of them has started

vars == <<install, configmap, job, deployed, lastUid, configs, kb, runs>>

-----------------------------------------------------------------------------
(* Helpers *)

Exists(n) == job[n].uid # NoUid

\* getNameWithAction: only smoketest is told apart by the job's name.
NameWithAction(a) == IF a = "smoketest" THEN "smoketest" ELSE "base"

\* pollJob reads the job named after the install, whatever the action.
PolledName(a) == "base"

FirstActionNamed(c) == c
FirstAction(c) == CASE c = "deploy" -> "apply"
                    [] c = "smoketest" -> "smoketest"
                    [] c = "diff" -> "diff"
                    [] OTHER -> "delete"

\* Poll of ResourceManager.Delete: IgnoreNotFound(err) is nil when the object
\* is gone and when the Get succeeded, so every answer ends the loop.
PollConditionMet(found) == found \in BOOLEAN

\* validateRequiredParameters
ValidateNever(s) == TRUE
Validate(s) == s \in ValidSpec

\* CreateOrPatch: the merge patch holds the difference between what was read
\* and what is wanted, and is not sent when that is empty.
CreateOnly(now, read, wanted) == IF now = NoSpec THEN wanted ELSE now
MergePatch(now, read, wanted) == IF read = wanted THEN now ELSE wanted

\* Does the command go on to Delete after Deploy returned an error?
ContinuesAlways(c) == c \in {"uninstall", "uninstall --force"}
Continues(c) == c = "uninstall --force"

\* What becomes of process q when ...
\* ... the command returns to the shell with verdict v: nothing else is left;
Exit(v) == [NoProcess EXCEPT !.verdict = v]

\* ... DeployManager.Delete is called;
StartCleanup(q) == [q EXCEPT !.pc = "cleanup", !.target = "base"]

\* ... Deploy returns an error: only uninstall --force goes on;
Fail(q) == IF Continues(q.cmd) THEN StartCleanup(q) ELSE Exit("error")

\* ... Deploy is called for action a;
StartDeploy(c, a) == [NoProcess EXCEPT !.pc = "preflight", !.cmd = c, !.action = a,
                                       !.since = lastUid]

\* ... diff bundle goes on from its Deploy, which is over, to the logs;
PrintDiff(q) == [q EXCEPT !.pc = "logsget", !.printing = "diff", !.seenUid = NoUid]

\* ... Deploy returns nil: DeploySmoketest goes on to the smoketest, uninstall to
\* Delete and diff bundle to a second GetLogs.
Succeed(q) == CASE q.action = "apply" -> StartDeploy(q.cmd, "smoketest")
                [] q.action = "delete" -> StartCleanup(q)
                [] q.action = "diff" -> PrintDiff(q)
                [] OTHER -> Exit("ok")

\* ... the Create of the job is answered AlreadyExists: an error like any other;
ConflictIgnored(q) == [q EXCEPT !.pc = "logsget"]
Conflict(q) == Fail(q)

\* ... a print ends with result v: whatever it is, the first one is followed by
\* the poll and the one of a failed poll by the error it was printed for; diff
\* bundle returns it;
LogsDone(q, v) ==
  CASE q.printing = "first" -> [q EXCEPT !.pc = "pollget", !.logUid = NoUid]
    [] q.printing = "failed" -> Fail(q)
    [] q.printing = "diff" -> Exit(v)

\* Only these commands have the flag; the others pass showLogs' default.
LogsShown(c) == ShowLogs /\ c \in {"deploy", "smoketest"}

\* ... the poll ends without a Complete condition.
PollFailed(q) == IF LogsShown(q.cmd) THEN Fail(q)
                 ELSE [q EXCEPT !.printing = "failed", !.pc = "logsget"]

\* The pod of the job with uid u, "none" when job or pod is gone.
PodOf(u) == IF \E n \in JobName : Exists(n) /\ job[n].uid = u
            THEN job[CHOOSE n \in JobName : job[n].uid = u].pod
            ELSE "none"

\* Only the first print has timeoutCtx; the others run without deadline.
ContextNever(q) == FALSE
ContextDone(q) == q.expired /\ q.printing = "first"

Become(p, q) == kb' = [kb EXCEPT ![p] = q]

\* A step of process p that leaves the cluster alone.
Local(p, q) ==
  /\ Become(p, q)
  /\ UNCHANGED <<install, configmap, job, deployed, lastUid, configs, runs>>

-----------------------------------------------------------------------------
(* The kb process *)

Start(p, c) ==
  /\ kb[p].pc = "idle" /\ runs[p] < MaxRuns
  /\ c \in Commands
  /\ Become(p, StartDeploy(c, FirstAction(c)))
  /\ runs' = [runs EXCEPT ![p] = @ + 1]
  /\ UNCHANGED <<install, configmap, job, deployed, lastUid, configs>>

\* Install, Flavor, Application, required parameters.
Preflight(p) ==
  /\ kb[p].pc = "preflight"
  /\ \/ /\ install = NoSpec \/ ~Validate(install)
        /\ Local(p, Fail(kb[p]))
     \/ /\ install # NoSpec /\ Validate(install)
        /\ Local(p, [kb[p] EXCEPT !.pc = "delete", !.spec = install,
                                  !.target = NameWithAction(kb[p].action)])

\* DeleteAllOf with foreground propagation: the object stays, terminating,
\* until the garbage collector has removed its pod.
DeleteJob(p) ==
  LET n == kb[p].target IN
  /\ kb[p].pc \in {"delete", "cleanup"}
  /\ job' = IF Exists(n) THEN [job EXCEPT ![n].terminating = TRUE] ELSE job
  /\ Become(p, [kb[p] EXCEPT !.pc = IF @ = "delete" THEN "deletewait" ELSE "cleanupwait"])
  /\ UNCHANGED <<install, configmap, deployed, lastUid, configs, runs>>

\* The poll that ends Delete.  DeployManager.Delete goes on from the job named
\* after the install to the smoketest job and then to the install.
DeleteWait(p) ==
  /\ kb[p].pc \in {"deletewait", "cleanupwait"}
  /\ PollConditionMet(Exists(kb[p].target))
  /\ \/ kb[p].pc = "deletewait" /\ Local(p, [kb[p] EXCEPT !.pc = "cmget"])
     \/ kb[p].pc = "cleanupwait" /\ kb[p].target = "base"
        /\ Local(p, [kb[p] EXCEPT !.pc = "cleanup", !.target = "smoketest"])
     \/ kb[p].pc = "cleanupwait" /\ kb[p].target = "smoketest"
        /\ Local(p, [kb[p] EXCEPT !.pc = "dropinstall"])

\* createOrPatchConfigmap, first half: the Get that the patch is computed from.
ConfigmapGet(p) ==
  /\ kb[p].pc = "cmget"
  /\ Local(p, [kb[p] EXCEPT !.pc = "cmwrite", !.base = configmap])

\* Second half: Create when it was absent (an error if another process was
\* faster), else Patch.
ConfigmapWrite(p) ==
  /\ kb[p].pc = "cmwrite"
  /\ \/ /\ kb[p].base = NoSpec /\ configmap # NoSpec
        /\ Local(p, Fail(kb[p]))
     \/ /\ kb[p].base = NoSpec => configmap = NoSpec
        /\ configmap' = MergePatch(configmap, kb[p].base, kb[p].spec)
        /\ Become(p, [kb[p] EXCEPT !.pc = "createjob", !.base = NoSpec])
        /\ UNCHANGED <<install, job, deployed, lastUid, configs, runs>>

\* A Create on a name in use, terminating or not, is an AlreadyExists error.
CreateJob(p) ==
  LET n == NameWithAction(kb[p].action) IN
  /\ kb[p].pc = "createjob"
  /\ \/ Exists(n) /\ Local(p, Conflict(kb[p]))
     \/ /\ ~Exists(n)
        /\ job' = [job EXCEPT ![n] = [NoJob EXCEPT !.uid = lastUid + 1,
                                                   !.action = kb[p].action]]
        /\ lastUid' = lastUid + 1
        /\ Become(p, [kb[p] EXCEPT !.pc = "logsget"])
        /\ UNCHANGED <<install, configmap, deployed, configs, runs>>

\* GetLogs: the job is always looked up by the install's name.
LogsGet(p) ==
  /\ kb[p].pc = "logsget"
  /\ Local(p, IF Exists("base")
              THEN [kb[p] EXCEPT !.pc = "logslist", !.logUid = job["base"].uid]
              ELSE LogsDone(kb[p], "error"))

\* Lists pods every second until one has left Pending or the context expires.
LogsList(p) ==
  LET waiting == PodOf(kb[p].logUid) \in {"none", "pending"} IN
  /\ kb[p].pc = "logslist"
  /\ \/ ~waiting /\ Local(p, [kb[p] EXCEPT !.pc = "logsstream"])
     \/ waiting /\ ContextDone(kb[p]) /\ Local(p, LogsDone(kb[p], "error"))

\* Follows the container's output to its end.
LogsStream(p) ==
  /\ kb[p].pc = "logsstream"
  /\ PodOf(kb[p].logUid) \notin {"running", "acted"} \/ ContextDone(kb[p])
  /\ Local(p, LogsDone(kb[p], "ok"))

\* A failed log request ends the printing.
LogsError(p) ==
  /\ kb[p].pc \in {"logsget", "logslist", "logsstream"}
  /\ Local(p, LogsDone(kb[p], "error"))

\* pollJob's timeout passes.
Expire(p) ==
  /\ kb[p].pc \in {"logsget", "logslist", "logsstream", "pollget"}
  /\ kb[p].printing = "first" /\ ~kb[p].expired
  /\ Local(p, [kb[p] EXCEPT !.expired = TRUE])

\* The iteration of pollJob's loop that ends it.
PollJob(p) ==
  LET j == job[PolledName(kb[p].action)]
      q == [kb[p] EXCEPT !.seenUid = j.uid] IN
  /\ kb[p].pc = "pollget"
  /\ \/ j.uid = NoUid /\ Local(p, Fail(kb[p]))
     \/ /\ j.cond = "complete"
        /\ Local(p, IF q.action = "delete" THEN Succeed(q) ELSE [q EXCEPT !.pc = "rollout"])
     \/ j.cond = "failed" /\ Local(p, PollFailed(kb[p]))
     \/ /\ j.uid # NoUid /\ j.cond = "none" /\ kb[p].expired
        /\ Local(p, PollFailed(kb[p]))

\* RolloutStatusManager.Wait reads the install again, then waits for the
\* workloads, which become ready or do not.
RolloutWait(p) ==
  /\ kb[p].pc = "rollout"
  /\ \/ Local(p, Fail(kb[p]))
     \/ install # NoSpec /\ Local(p, Succeed(kb[p]))

\* The last call of DeployManager.Delete; an Install has no finalizer.
DropInstall(p) ==
  /\ kb[p].pc = "dropinstall"
  /\ install' = NoSpec
  /\ Become(p, Exit("ok"))
  /\ UNCHANGED <<configmap, job, deployed, lastUid, configs, runs>>

\* An API call returns an error.
ApiError(p) ==
  \/ /\ kb[p].pc \in {"preflight", "delete", "deletewait", "cmget", "cmwrite",
                      "createjob", "pollget"}
     /\ Local(p, Fail(kb[p]))
  \/ /\ kb[p].pc \in {"cleanup", "cleanupwait", "dropinstall"}
     /\ Local(p, Exit("error"))

\* Interrupted, or the machine it runs on goes away.
Crash(p) ==
  /\ kb[p].pc # "idle"
  /\ Local(p, NoProcess)

Step(p) ==
  \/ Preflight(p) \/ DeleteJob(p) \/ DeleteWait(p)
  \/ ConfigmapGet(p) \/ ConfigmapWrite(p) \/ CreateJob(p)
  \/ LogsGet(p) \/ LogsList(p) \/ LogsStream(p) \/ PollJob(p)
  \/ RolloutWait(p) \/ DropInstall(p)

-----------------------------------------------------------------------------
(* The cluster, and the commands that edit the install *)

SetJob(n, j) ==
  /\ job' = [job EXCEPT ![n] = j]
  /\ UNCHANGED <<install, configmap, lastUid, configs, kb, runs>>

\* The job controller makes the pod; a job already being deleted gets none.
PodCreate(n) ==
  /\ Exists(n) /\ ~job[n].terminating /\ job[n].pod = "none" /\ job[n].cond = "none"
  /\ SetJob(n, [job[n] EXCEPT !.pod = "pending"])
  /\ UNCHANGED deployed

\* The container starts with the configmap as it is now.
PodRun(n) ==
  /\ job[n].pod = "pending" /\ configmap # NoSpec
  /\ SetJob(n, [job[n] EXCEPT !.pod = "running", !.cfg = configmap])
  /\ UNCHANGED deployed

\* apply.sh and delete.sh change the workloads; smoketest and diff do not.
PodAct(n) ==
  /\ job[n].pod = "running" /\ job[n].action \in {"apply", "delete"}
  /\ SetJob(n, [job[n] EXCEPT !.pod = "acted"])
  /\ deployed' = IF job[n].action = "apply" THEN job[n].cfg ELSE NoSpec

PodExit(n) ==
  /\ \/ job[n].pod = "acted"
     \/ job[n].pod = "running" /\ job[n].action \notin {"apply", "delete"}
  /\ SetJob(n, [job[n] EXCEPT !.pod = "succeeded"])
  /\ UNCHANGED deployed

PodFail(n) ==
  /\ job[n].pod \in {"running", "acted"}
  /\ SetJob(n, [job[n] EXCEPT !.pod = "failed"])
  /\ UNCHANGED deployed

\* With backoffLimit 0 the pod's end decides the job's condition.
JobFinish(n) ==
  /\ job[n].cond = "none" /\ job[n].pod \in {"succeeded", "failed"}
  /\ SetJob(n, [job[n] EXCEPT !.cond = IF job[n].pod = "succeeded" THEN "complete"
                                                                   ELSE "failed"])
  /\ UNCHANGED deployed

\* activeDeadlineSeconds: the pod is removed and the job fails.
JobDeadline(n) ==
  /\ Exists(n) /\ job[n].cond = "none" /\ job[n].pod \notin {"succeeded", "failed"}
  /\ SetJob(n, [job[n] EXCEPT !.cond = "failed", !.pod = "none"])
  /\ UNCHANGED deployed

\* The garbage collector ends a foreground deletion.
CollectJob(n) ==
  /\ job[n].terminating
  /\ SetJob(n, NoJob)
  /\ UNCHANGED deployed

\* kb config set, or kb install after an uninstall.
Configure(s) ==
  /\ configs < MaxConfigs /\ s # install
  /\ install' = s
  /\ configs' = configs + 1
  /\ UNCHANGED <<configmap, job, deployed, lastUid, kb, runs>>

ClusterStep(n) ==
  \/ PodCreate(n) \/ PodRun(n) \/ PodAct(n) \/ PodExit(n) \/ PodFail(n)
  \/ JobFinish(n) \/ JobDeadline(n) \/ CollectJob(n)

-----------------------------------------------------------------------------
Init ==
  /\ install \in AnySpec
  /\ configmap = NoSpec
  /\ job = [n \in JobName |-> NoJob]
  /\ deployed = NoSpec
  /\ lastUid = NoUid /\ configs = 0
  /\ kb = [p \in Proc |-> NoProcess]
  /\ runs = [p \in Proc |-> 0]

Next ==
  \/ \E p \in Proc : \/ \E c \in Command : Start(p, c)
                     \/ Step(p) \/ Expire(p) \/ ApiError(p) \/ LogsError(p) \/ Crash(p)
  \/ \E n \in JobName : ClusterStep(n)
  \/ \E s \in InstallSpec : Configure(s)

Spec == Init /\ [][Next]_vars

\* A running process takes its next step and its timer runs; nothing is
\* assumed of the cluster.
FairSpec == Spec /\ \A p \in Proc : WF_vars(Step(p)) /\ WF_vars(Expire(p))

-----------------------------------------------------------------------------
(* Properties *)

TypeOK ==
  /\ install \in AnySpec
  /\ configmap \in AnySpec
  /\ job \in [JobName -> Job]
  /\ deployed \in AnySpec
  /\ lastUid \in Nat /\ configs \in Nat
  /\ kb \in [Proc -> Process]
  /\ runs \in [Proc -> Nat]

Seen(p) == kb[p].seenUid # NoUid

\* A Deploy of apply, diff or delete never takes its success from a job that
\* was there before it started, however many other processes delete and create
\* jobs of the same name in the meantime.
FreshVerdict ==
  \A p \in Proc : Seen(p) /\ kb[p].action # "smoketest" => kb[p].seenUid > kb[p].since

\* uninstall without --force reaches the removal of the jobs and of the install
\* only after a job younger than the command completed.
UninstallEarned ==
  \A p \in Proc :
    kb[p].pc \in {"cleanup", "cleanupwait", "dropinstall"} /\ kb[p].cmd = "uninstall" =>
      kb[p].seenUid > kb[p].since

\* No workload is ever made from a spec that misses a required parameter, even
\* when the install is edited while processes race between the validation, the
\* configmap and the start of the pod.
OnlyValidDeployed == deployed \in ValidSpec \cup {NoSpec}

\* When the apply of a Deploy has succeeded, the workloads are those of the spec
\* it read.  Holds when one process runs at a time, crashes included.
DeployedAsRequested ==
  \A p \in Proc : Seen(p) /\ kb[p].action = "apply" => deployed = kb[p].spec

\* When uninstall (without --force) removes an install, no workload of it is
\* left behind.  Holds when one process runs at a time, crashes included.
NoOrphans ==
  \A p \in Proc : kb[p].pc = "dropinstall" /\ kb[p].cmd = "uninstall" =>
                    deployed = NoSpec

\* A print that nothing bounds, of a command that cannot show logs anyway.
Unbounded(q) ==
  /\ q.pc \in {"logsget", "logslist", "logsstream"}
  /\ q.printing # "first" /\ ~LogsShown(q.cmd)

\* Whatever the cluster does, every command returns or ends up in a print without
\* a deadline: after the success of diff bundle, or after a failed poll without
\* --show-logs.  With the flag, deploy and smoketest always return.
Terminates ==
  \A p \in Proc : kb[p].pc # "idle" ~> (kb[p].pc = "idle" \/ Unbounded(kb[p]))

\* managers/resource.go: "poll the object to ensure it has been deleted".
DeleteEnsured ==
  [][\A p \in Proc : kb[p].pc = "deletewait" /\ kb'[p].pc = "cmget" =>
                       ~Exists(kb[p].target)]_vars

=============================================================================
