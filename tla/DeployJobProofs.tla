--------------------------- MODULE DeployJobProofs ---------------------------
(***************************************************************************)
(* Type correctness and the safety properties of DeployJob, for any set of *)
(* processes, any specs and any bounds.                                    *)
(***************************************************************************)
EXTENDS DeployJob, TLAPS

AfterCreate == {"logsget", "logslist", "logsstream", "pollget"}
Cleaning == {"cleanup", "cleanupwait", "dropinstall"}

\* Uids only grow, and a free name carries no trace of its last job.
JobsOK ==
  /\ \A n \in JobName : job[n].uid <= lastUid
  /\ \A n \in JobName : job[n].uid = NoUid => job[n] = NoJob

\* What holds of a process q.  The second conjunct makes the others inductive:
\* from its own Create on, whatever job bears the install's name is younger than
\* the Deploy that polls it, whoever created it.
ProcessOK(q) ==
  /\ q.since <= lastUid
  /\ q.pc \in AfterCreate \cup {"rollout"} /\ q.action # "smoketest" =>
       job["base"].uid = NoUid \/ job["base"].uid > q.since
  /\ q.pc = "rollout" => q.seenUid # NoUid
  /\ q.seenUid # NoUid /\ q.action # "smoketest" => q.seenUid > q.since
  /\ q.pc \in Cleaning /\ q.cmd = "uninstall" => q.seenUid > q.since

IInv == JobsOK /\ \A p \in Proc : ProcessOK(kb[p])

-----------------------------------------------------------------------------
(* Types of the helpers *)

LEMMA StartDeployType ==
  ASSUME TypeOK, NEW c \in Command \cup {"none"}, NEW a \in Action
  PROVE  StartDeploy(c, a) \in Process
  BY DEF TypeOK, StartDeploy, NoProcess, Process, PC, Prints, AnySpec, JobName, Verdict, NoUid

LEMMA ExitType == ASSUME NEW v \in Verdict PROVE Exit(v) \in Process
  BY DEF Exit, NoProcess, Process, PC, Prints, AnySpec, JobName, Verdict, NoUid

LEMMA NoProcessType == NoProcess \in Process
  BY DEF NoProcess, Process, PC, Prints, AnySpec, JobName, Verdict, NoUid

LEMMA StartCleanupType == ASSUME NEW q \in Process PROVE StartCleanup(q) \in Process
  BY DEF StartCleanup, Process, PC, JobName

LEMMA FailType == ASSUME NEW q \in Process PROVE Fail(q) \in Process
  BY StartCleanupType, ExitType DEF Fail, Verdict

LEMMA SucceedType ==
  ASSUME TypeOK, NEW q \in Process
  PROVE  Succeed(q) \in Process
  <1>1. PrintDiff(q) \in Process
    BY DEF PrintDiff, Process, PC, Prints, NoUid
  <1>2. QED
    BY <1>1, StartDeployType, StartCleanupType, ExitType DEF Succeed, Verdict, Action, Process

LEMMA LogsDoneType ==
  ASSUME NEW q \in Process, NEW v \in Verdict
  PROVE  LogsDone(q, v) \in Process
  <1>1. q.printing \in Prints
    BY DEF Process
  <1>2. [q EXCEPT !.pc = "pollget", !.logUid = NoUid] \in Process
    BY DEF Process, PC, NoUid
  <1>3. QED
    BY <1>1, <1>2, FailType, ExitType DEF LogsDone, Prints

LEMMA PollFailedType == ASSUME NEW q \in Process PROVE PollFailed(q) \in Process
  BY FailType DEF PollFailed, Process, PC, Prints

LEMMA NoJobType == NoJob \in Job
  BY DEF NoJob, Job, PodPhase, Condition, AnySpec, NoUid
-----------------------------------------------------------------------------
(* Type correctness *)

LEMMA TypeInit == Init => TypeOK
  BY NoJobType, NoProcessType DEF Init, TypeOK, NoUid, AnySpec

\* A step of one process that leaves the cluster alone.
LEMMA LocalType ==
  ASSUME TypeOK, NEW p \in Proc, NEW q \in Process, Local(p, q)
  PROVE  TypeOK'
  BY DEF TypeOK, Local, Become

LEMMA StepType ==
  ASSUME TypeOK, NEW p \in Proc, Step(p)
  PROVE  TypeOK'
  <1> kb[p] \in Process
    BY DEF TypeOK
  <1>1. CASE Preflight(p)
    <2>1. install \in AnySpec /\ NameWithAction(kb[p].action) \in JobName
      BY DEF TypeOK, NameWithAction, JobName
    <2>2. [kb[p] EXCEPT !.pc = "delete", !.spec = install,
                        !.target = NameWithAction(kb[p].action)] \in Process
      BY <2>1 DEF Process, PC
    <2>3. QED
      BY <1>1, <2>2, LocalType, FailType DEF Preflight
  <1>2. CASE DeleteJob(p)
    <2>1. kb[p].target \in JobName
      BY DEF Process
    <2>2. job' \in [JobName -> Job]
      <3>1. \A j \in Job : [j EXCEPT !.terminating = TRUE] \in Job
        BY DEF Job
      <3>2. job \in [JobName -> Job]
        BY DEF TypeOK
      <3>3. QED
        BY <1>2, <2>1, <3>1, <3>2 DEF DeleteJob
    <2>3. kb' \in [Proc -> Process]
      <3>1. \A pc \in PC : [kb[p] EXCEPT !.pc = pc] \in Process
        BY DEF Process
      <3>2. kb' = [kb EXCEPT ![p] = [kb[p] EXCEPT !.pc =
                     IF kb[p].pc = "delete" THEN "deletewait" ELSE "cleanupwait"]]
        BY <1>2 DEF DeleteJob, Become
      <3>3. kb \in [Proc -> Process] /\ {"deletewait", "cleanupwait"} \subseteq PC
        BY DEF TypeOK, PC
      <3>4. QED
        BY <3>1, <3>2, <3>3
    <2>4. QED
      BY <1>2, <2>2, <2>3 DEF DeleteJob, TypeOK
  <1>3. CASE DeleteWait(p)
    <2>1. /\ [kb[p] EXCEPT !.pc = "cmget"] \in Process
          /\ [kb[p] EXCEPT !.pc = "cleanup", !.target = "smoketest"] \in Process
          /\ [kb[p] EXCEPT !.pc = "dropinstall"] \in Process
      BY DEF Process, PC, JobName
    <2>2. QED
      BY <1>3, <2>1, LocalType DEF DeleteWait
  <1>4. CASE ConfigmapGet(p)
    <2>1. [kb[p] EXCEPT !.pc = "cmwrite", !.base = configmap] \in Process
      BY DEF Process, PC, TypeOK
    <2>2. QED
      BY <1>4, <2>1, LocalType DEF ConfigmapGet
  <1>5. CASE ConfigmapWrite(p)
    <2>1. CASE Local(p, Fail(kb[p]))
      BY <2>1, LocalType, FailType
    <2>2. CASE /\ configmap' = MergePatch(configmap, kb[p].base, kb[p].spec)
               /\ Become(p, [kb[p] EXCEPT !.pc = "createjob", !.base = NoSpec])
               /\ UNCHANGED <<install, job, deployed, lastUid, configs, runs>>
      <3>1. configmap' \in AnySpec
        BY <2>2 DEF TypeOK, MergePatch, Process
      <3>2. kb' \in [Proc -> Process]
        BY <2>2 DEF TypeOK, Become, Process, PC, AnySpec
      <3>3. QED
        BY <2>2, <3>1, <3>2 DEF TypeOK
    <2>3. QED
      BY <1>5, <2>1, <2>2 DEF ConfigmapWrite
  <1>6. CASE CreateJob(p)
    <2>1. CASE Local(p, Fail(kb[p]))
      BY <2>1, LocalType, FailType
    <2>2. CASE /\ job' = [job EXCEPT ![NameWithAction(kb[p].action)] =
                             [NoJob EXCEPT !.uid = lastUid + 1, !.action = kb[p].action]]
               /\ lastUid' = lastUid + 1
               /\ Become(p, [kb[p] EXCEPT !.pc = "logsget"])
               /\ UNCHANGED <<install, configmap, deployed, configs, runs>>
      <3>1. [NoJob EXCEPT !.uid = lastUid + 1, !.action = kb[p].action] \in Job
        <4>1. lastUid + 1 \in Nat /\ kb[p].action \in Action \cup {"none"}
          BY DEF TypeOK, Process
        <4>2. QED
          BY <4>1, NoJobType DEF Job
      <3>2. job' \in [JobName -> Job]
        BY <2>2, <3>1 DEF TypeOK, NameWithAction, JobName
      <3>3. kb' \in [Proc -> Process]
        BY <2>2 DEF TypeOK, Become, Process, PC
      <3>4. QED
        BY <2>2, <3>2, <3>3 DEF TypeOK
    <2>3. QED
      BY <1>6, <2>1, <2>2 DEF CreateJob, Conflict
  <1>7. CASE LogsGet(p)
    <2>1. [kb[p] EXCEPT !.pc = "logslist", !.logUid = job["base"].uid] \in Process
      BY DEF Process, PC, TypeOK, Job, JobName
    <2>2. QED
      BY <1>7, <2>1, LocalType, LogsDoneType DEF LogsGet, Verdict
  <1>8. CASE LogsList(p)
    <2>1. [kb[p] EXCEPT !.pc = "logsstream"] \in Process
      BY DEF Process, PC
    <2>2. QED
      BY <1>8, <2>1, LocalType, LogsDoneType DEF LogsList, Verdict
  <1>9. CASE LogsStream(p)
    BY <1>9, LocalType, LogsDoneType DEF LogsStream, Verdict
  <1>10. CASE PollJob(p)
    <2> DEFINE j == job[PolledName(kb[p].action)]
               q == [kb[p] EXCEPT !.seenUid = j.uid]
    <2>1. q \in Process /\ [q EXCEPT !.pc = "rollout"] \in Process
      BY DEF Process, PC, TypeOK, Job, JobName, PolledName
    <2>2. QED
      BY <1>10, <2>1, LocalType, FailType, PollFailedType, SucceedType DEF PollJob
  <1>11. CASE RolloutWait(p)
    BY <1>11, LocalType, FailType, SucceedType DEF RolloutWait
  <1>12. CASE DropInstall(p)
    <2>1. kb' \in [Proc -> Process]
      BY <1>12, ExitType DEF DropInstall, TypeOK, Become, Verdict
    <2>2. QED
      BY <1>12, <2>1 DEF DropInstall, TypeOK, AnySpec
  <1>13. QED
    BY <1>1, <1>2, <1>3, <1>4, <1>5, <1>6, <1>7, <1>8, <1>9, <1>10, <1>11, <1>12 DEF Step

LEMMA ClusterType ==
  ASSUME TypeOK, NEW n \in JobName, ClusterStep(n)
  PROVE  TypeOK'
  <1> /\ job[n] \in Job /\ configmap \in AnySpec /\ deployed \in AnySpec
    BY DEF TypeOK
  <1>1. ASSUME NEW j \in Job, SetJob(n, j), deployed' \in AnySpec
        PROVE  TypeOK'
    BY <1>1 DEF TypeOK, SetJob
  <1>2. ASSUME NEW f \in PodPhase
        PROVE  [job[n] EXCEPT !.pod = f] \in Job
    BY DEF Job
  <1>3. CASE PodCreate(n) \/ PodExit(n) \/ PodFail(n)
    BY <1>1, <1>2, <1>3 DEF PodCreate, PodExit, PodFail, PodPhase
  <1>4. CASE PodRun(n)
    <2>1. [job[n] EXCEPT !.pod = "running", !.cfg = configmap] \in Job
      BY DEF Job, PodPhase
    <2>2. QED
      BY <1>1, <1>4, <2>1 DEF PodRun
  <1>5. CASE PodAct(n)
    <2>1. deployed' \in AnySpec
      BY <1>5 DEF PodAct, Job, AnySpec
    <2>2. QED
      BY <1>1, <1>2, <1>5, <2>1 DEF PodAct, PodPhase
  <1>6. CASE JobFinish(n)
    <2>1. [job[n] EXCEPT !.cond = IF job[n].pod = "succeeded" THEN "complete"
                                  ELSE "failed"] \in Job
      BY DEF Job, Condition
    <2>2. QED
      BY <1>1, <1>6, <2>1 DEF JobFinish
  <1>7. CASE JobDeadline(n)
    <2>1. [job[n] EXCEPT !.cond = "failed", !.pod = "none"] \in Job
      BY DEF Job, Condition, PodPhase
    <2>2. QED
      BY <1>1, <1>7, <2>1 DEF JobDeadline
  <1>8. CASE CollectJob(n)
    BY <1>1, <1>8, NoJobType DEF CollectJob
  <1>9. QED
    BY <1>3, <1>4, <1>5, <1>6, <1>7, <1>8 DEF ClusterStep

\* The steps of a process that Step leaves out.
LEMMA OtherStepType ==
  ASSUME TypeOK, NEW p \in Proc,
         \/ \E c \in Command : Start(p, c)
         \/ Expire(p) \/ ApiError(p) \/ LogsError(p) \/ Crash(p)
  PROVE  TypeOK'
  <1> kb[p] \in Process
    BY DEF TypeOK
  <1>1. ASSUME NEW c \in Command, Start(p, c)
        PROVE  TypeOK'
    <2>1. StartDeploy(c, FirstAction(c)) \in Process
      BY StartDeployType DEF FirstAction, Action, Command
    <2>2. QED
      BY <1>1, <2>1 DEF Start, Become, TypeOK
  <1>2. CASE Expire(p)
    <2>1. [kb[p] EXCEPT !.expired = TRUE] \in Process
      BY DEF Process
    <2>2. QED
      BY <1>2, <2>1, LocalType DEF Expire
  <1>3. CASE ApiError(p) \/ LogsError(p) \/ Crash(p)
    BY <1>3, LocalType, FailType, ExitType, LogsDoneType, NoProcessType
       DEF ApiError, LogsError, Crash, Verdict
  <1>4. QED
    BY <1>1, <1>2, <1>3

LEMMA TypeStep == TypeOK /\ [Next]_vars => TypeOK'
  <1> SUFFICES ASSUME TypeOK, [Next]_vars
               PROVE  TypeOK'
    OBVIOUS
  <1>1. ASSUME NEW s \in InstallSpec, Configure(s)
        PROVE  TypeOK'
    BY <1>1 DEF Configure, TypeOK, AnySpec
  <1>2. CASE UNCHANGED vars
    BY <1>2 DEF vars, TypeOK
  <1>3. QED
    BY <1>1, <1>2, StepType, OtherStepType, ClusterType DEF Next

\* Every variable of DeployJob keeps its type, in every behaviour.
THEOREM TypeCorrect == Spec => []TypeOK
  BY TypeInit, TypeStep, PTL DEF Spec

-----------------------------------------------------------------------------
(* The uid invariant *)

LEMMA ExitOK == ASSUME TypeOK, NEW v \in Verdict PROVE ProcessOK(Exit(v))
  BY DEF TypeOK, Exit, NoProcess, ProcessOK, AfterCreate, Cleaning, NoUid

LEMMA NoProcessOK == ASSUME TypeOK PROVE ProcessOK(NoProcess)
  BY DEF TypeOK, NoProcess, ProcessOK, AfterCreate, Cleaning, NoUid

LEMMA StartDeployOK ==
  ASSUME TypeOK, NEW c \in Command \cup {"none"}, NEW a \in Action
  PROVE  ProcessOK(StartDeploy(c, a))
  BY DEF TypeOK, StartDeploy, NoProcess, ProcessOK, AfterCreate, Cleaning, NoUid

LEMMA FailOK ==
  ASSUME TypeOK, NEW q \in Process, ProcessOK(q)
  PROVE  ProcessOK(Fail(q))
  <1>1. CASE Continues(q.cmd)
    BY <1>1 DEF Fail, StartCleanup, Continues, ProcessOK, Process, AfterCreate, Cleaning
  <1>2. CASE ~Continues(q.cmd)
    BY <1>2, ExitOK DEF Fail, Verdict
  <1>3. QED
    BY <1>1, <1>2

LEMMA SucceedOK ==
  ASSUME TypeOK, NEW q \in Process, ProcessOK(q), q.seenUid # NoUid,
         q.pc \in AfterCreate \cup {"rollout"}
  PROVE  ProcessOK(Succeed(q))
  <1>1. CASE q.action = "apply"
    BY <1>1, StartDeployOK DEF Succeed, Process, Action
  <1>2. CASE q.action = "delete"
    BY <1>2 DEF Succeed, StartCleanup, ProcessOK, Process, AfterCreate, Cleaning
  <1>3. CASE q.action = "diff"
    BY <1>3 DEF Succeed, PrintDiff, ProcessOK, Process, AfterCreate, Cleaning, NoUid
  <1>4. CASE q.action \notin {"apply", "delete", "diff"}
    BY <1>4, ExitOK DEF Succeed, Verdict
  <1>5. QED
    BY <1>1, <1>2, <1>3, <1>4

LEMMA LogsDoneOK ==
  ASSUME TypeOK, NEW q \in Process, NEW v \in Verdict, ProcessOK(q), q.pc \in AfterCreate
  PROVE  ProcessOK(LogsDone(q, v))
  <1>1. CASE q.printing = "failed"
    BY <1>1, FailOK DEF LogsDone
  <1>2. CASE q.printing = "first"
    BY <1>2 DEF LogsDone, ProcessOK, Process, AfterCreate, Cleaning
  <1>3. CASE q.printing = "diff"
    BY <1>3, ExitOK DEF LogsDone
  <1>4. QED
    BY <1>1, <1>2, <1>3 DEF Process, Prints

LEMMA PollFailedOK ==
  ASSUME TypeOK, NEW q \in Process, ProcessOK(q), q.pc \in AfterCreate
  PROVE  ProcessOK(PollFailed(q))
  <1>1. CASE LogsShown(q.cmd)
    BY <1>1, FailOK DEF PollFailed
  <1>2. CASE ~LogsShown(q.cmd)
    BY <1>2 DEF PollFailed, ProcessOK, Process, AfterCreate, Cleaning
  <1>3. QED
    BY <1>1, <1>2

\* The other processes do not notice a local step.
LEMMA LocalInv ==
  ASSUME TypeOK, IInv, NEW p \in Proc, NEW q \in Process, Local(p, q), ProcessOK(q)
  PROVE  IInv'
  <1>1. JobsOK'
    BY DEF Local, IInv, JobsOK
  <1>2. ASSUME NEW r \in Proc
        PROVE  ProcessOK(kb[r])'
    <2>1. kb'[r] = IF r = p THEN q ELSE kb[r]
      BY DEF Local, Become, TypeOK
    <2>2. QED
      BY <2>1 DEF Local, IInv, ProcessOK
  <1>3. QED
    BY <1>1, <1>2 DEF IInv

\* Nor a step on the jobs that creates none: the job of each name keeps its uid
\* or goes away.
LEMMA JobInv ==
  ASSUME TypeOK, IInv, NEW n \in JobName, NEW j \in Job,
         job' = [job EXCEPT ![n] = j], lastUid' = lastUid, kb' = kb,
         j = NoJob \/ (j.uid = job[n].uid /\ j.uid # NoUid)
  PROVE  IInv'
  <1>1. \A m \in JobName : job'[m] = IF m = n THEN j ELSE job[m]
    BY DEF TypeOK
  <1>2. NoJob.uid = NoUid /\ NoUid <= lastUid
    BY DEF NoJob, NoUid, TypeOK
  <1>3. JobsOK'
    BY <1>1, <1>2 DEF IInv, JobsOK
  <1>4. "base" \in JobName
    BY DEF JobName
  <1>5. ASSUME NEW r \in Proc
        PROVE  ProcessOK(kb[r])'
    BY <1>1, <1>2, <1>4 DEF IInv, ProcessOK
  <1>6. QED
    BY <1>3, <1>5 DEF IInv

LEMMA StepInv ==
  ASSUME TypeOK, IInv, NEW p \in Proc, Step(p)
  PROVE  IInv'
  <1> /\ kb[p] \in Process /\ ProcessOK(kb[p]) /\ TypeOK'
    BY StepType DEF TypeOK, IInv
  <1> USE DEF AfterCreate, Cleaning
  <1>1. CASE Preflight(p)
    <2> DEFINE q == [kb[p] EXCEPT !.pc = "delete", !.spec = install,
                                  !.target = NameWithAction(kb[p].action)]
    <2>1. q \in Process
      <3>1. install \in AnySpec
        BY DEF TypeOK
      <3>2. NameWithAction(kb[p].action) \in JobName
        BY DEF NameWithAction, JobName
      <3>3. QED
        BY <3>1, <3>2 DEF Process, PC
    <2>2. kb[p].pc = "preflight" => ProcessOK(q)
      BY DEF ProcessOK, Process
    <2>3. QED
      BY <1>1, <2>1, <2>2, LocalInv, FailOK, FailType DEF Preflight
  <1>2. CASE DeleteJob(p)
    <2> DEFINE n == kb[p].target
               q == [kb[p] EXCEPT !.pc = IF @ = "delete" THEN "deletewait" ELSE "cleanupwait"]
    <2>1. ProcessOK(q)
      BY <1>2 DEF DeleteJob, ProcessOK, Process
    <2>2. ASSUME NEW m \in JobName
          PROVE  job'[m].uid = job[m].uid /\ (job[m].uid = NoUid => job'[m] = job[m])
      <3>1. job[m] \in Job
        BY DEF TypeOK
      <3>2. job'[m] = IF Exists(n) /\ m = n THEN [job[m] EXCEPT !.terminating = TRUE]
                                             ELSE job[m]
        BY <1>2 DEF DeleteJob, TypeOK
      <3>3. QED
        BY <3>1, <3>2 DEF Job, Exists
    <2>3. JobsOK'
      BY <1>2, <2>2 DEF DeleteJob, IInv, JobsOK
    <2>4. ASSUME NEW r \in Proc
          PROVE  ProcessOK(kb[r])'
      <3>1. kb'[r] = IF r = p THEN q ELSE kb[r]
        BY <1>2 DEF DeleteJob, Become, TypeOK
      <3>2. job'["base"].uid = job["base"].uid /\ lastUid' = lastUid
        BY <1>2, <2>2 DEF DeleteJob, JobName
      <3>3. QED
        BY <2>1, <3>1, <3>2 DEF IInv, ProcessOK
    <2>5. QED
      BY <2>3, <2>4 DEF IInv
  <1>3. CASE DeleteWait(p)
    <2>1. ASSUME NEW q \in {[kb[p] EXCEPT !.pc = "cmget"],
                            [kb[p] EXCEPT !.pc = "cleanup", !.target = "smoketest"],
                            [kb[p] EXCEPT !.pc = "dropinstall"]}
          PROVE  q \in Process
      <3>1. \A pc \in PC : [kb[p] EXCEPT !.pc = pc] \in Process
        BY DEF Process
      <3>2. [kb[p] EXCEPT !.pc = "cleanup", !.target = "smoketest"] \in Process
        BY DEF Process, PC, JobName
      <3>3. "cmget" \in PC /\ "dropinstall" \in PC
        BY DEF PC
      <3>4. QED
        BY <2>1, <3>1, <3>2, <3>3
    <2>2. CASE kb[p].pc = "deletewait"
      <3>1. ProcessOK([kb[p] EXCEPT !.pc = "cmget"])
        BY <2>2 DEF ProcessOK, Process
      <3>2. QED
        BY <1>3, <2>1, <2>2, <3>1, LocalInv DEF DeleteWait
    <2>3. CASE kb[p].pc = "cleanupwait"
      <3>1. /\ ProcessOK([kb[p] EXCEPT !.pc = "cleanup", !.target = "smoketest"])
            /\ ProcessOK([kb[p] EXCEPT !.pc = "dropinstall"])
        BY <2>3 DEF ProcessOK, Process
      <3>2. QED
        BY <1>3, <2>1, <2>3, <3>1, LocalInv DEF DeleteWait
    <2>4. QED
      BY <1>3, <2>2, <2>3 DEF DeleteWait
  <1>4. CASE ConfigmapGet(p)
    <2> DEFINE q == [kb[p] EXCEPT !.pc = "cmwrite", !.base = configmap]
    <2>1. q \in Process
      BY DEF Process, PC, TypeOK
    <2>2. ProcessOK(q)
      BY DEF ProcessOK, Process
    <2>3. QED
      BY <1>4, <2>1, <2>2, LocalInv DEF ConfigmapGet
  <1>5. CASE ConfigmapWrite(p)
    <2> DEFINE q == [kb[p] EXCEPT !.pc = "createjob", !.base = NoSpec]
    <2>1. CASE Local(p, Fail(kb[p]))
      BY <2>1, LocalInv, FailOK, FailType
    <2>2. CASE Become(p, q) /\ UNCHANGED <<job, lastUid>>
      <3>1. ProcessOK(q)
        BY DEF ProcessOK, Process
      <3>2. JobsOK'
        BY <2>2 DEF IInv, JobsOK
      <3>3. ASSUME NEW r \in Proc
            PROVE  ProcessOK(kb[r])'
        <4>1. kb'[r] = IF r = p THEN q ELSE kb[r]
          BY <2>2 DEF Become, TypeOK
        <4>2. QED
          BY <2>2, <3>1, <4>1 DEF IInv, ProcessOK
      <3>4. QED
        BY <3>2, <3>3 DEF IInv
    <2>3. QED
      BY <1>5, <2>1, <2>2 DEF ConfigmapWrite
  <1>6. CASE CreateJob(p)
    <2> DEFINE n == NameWithAction(kb[p].action)
               j == [NoJob EXCEPT !.uid = lastUid + 1, !.action = kb[p].action]
               q == [kb[p] EXCEPT !.pc = "logsget"]
    <2>1. CASE Local(p, Fail(kb[p]))
      BY <2>1, LocalInv, FailOK, FailType
    <2>2. CASE /\ kb[p].pc = "createjob" /\ ~Exists(n)
               /\ job' = [job EXCEPT ![n] = j]
               /\ lastUid' = lastUid + 1
               /\ Become(p, q)
      <3>1. n \in JobName /\ j.uid = lastUid + 1 /\ lastUid \in Nat
        BY DEF NameWithAction, JobName, NoJob, TypeOK
      <3>2. \A m \in JobName : job'[m] = IF m = n THEN j ELSE job[m]
        BY <2>2 DEF TypeOK
      <3>3. JobsOK'
        BY <2>2, <3>1, <3>2 DEF IInv, JobsOK, TypeOK, Job, NoUid
      <3>4. ASSUME NEW r \in Proc
            PROVE  ProcessOK(kb[r])'
        <4>1. kb'[r] = IF r = p THEN q ELSE kb[r]
          BY <2>2 DEF Become, TypeOK
        <4>2. /\ kb[r].since \in Nat /\ kb[r].seenUid \in Nat /\ kb[r].since <= lastUid
              /\ ProcessOK(kb[r])
          BY DEF TypeOK, IInv, ProcessOK, Process
        <4>3. job'["base"] = IF "base" = n THEN j ELSE job["base"]
          BY <3>2 DEF JobName
        <4>4. CASE r # p
          <5>1. kb'[r] = kb[r] /\ lastUid' = lastUid + 1
            BY <2>2, <4>1, <4>4
          <5>2. job'["base"].uid = job["base"].uid \/ job'["base"].uid = lastUid + 1
            BY <3>1, <4>3
          <5>3. kb[r].since <= lastUid + 1 /\ lastUid + 1 > kb[r].since
            BY <3>1, <4>2
          <5>4. kb'[r].pc \in AfterCreate \cup {"rollout"} /\ kb'[r].action # "smoketest" =>
                  job'["base"].uid = NoUid \/ job'["base"].uid > kb'[r].since
            BY <4>2, <5>1, <5>2, <5>3 DEF ProcessOK
          <5>5. QED
            BY <4>2, <5>1, <5>3, <5>4 DEF ProcessOK
        <4>5. CASE r = p
          <5>1. kb[p].action # "smoketest" => n = "base"
            BY DEF NameWithAction
          <5>2. /\ kb'[r].pc = "logsget" /\ kb'[r].since = kb[r].since
                /\ kb'[r].action = kb[r].action /\ kb'[r].seenUid = kb[r].seenUid
            BY <4>1, <4>5 DEF Process
          <5>3. /\ kb[r].since <= lastUid + 1
                /\ kb[r].action # "smoketest" => job'["base"].uid > kb[r].since
            BY <3>1, <4>2, <4>3, <4>5, <5>1
          <5>4. lastUid' = lastUid + 1
            BY <2>2
          <5>5. QED
            BY <4>2, <5>2, <5>3, <5>4 DEF ProcessOK
        <4>6. QED
          BY <4>4, <4>5
      <3>5. QED
        BY <3>3, <3>4 DEF IInv
    <2>3. QED
      BY <1>6, <2>1, <2>2 DEF CreateJob, Conflict
  <1>7. CASE LogsGet(p)
    <2> DEFINE q == [kb[p] EXCEPT !.pc = "logslist", !.logUid = job["base"].uid]
    <2>1. q \in Process
      BY DEF Process, PC, TypeOK, Job, JobName
    <2>2. kb[p].pc = "logsget" => ProcessOK(q)
      BY DEF ProcessOK, Process
    <2>3. QED
      BY <1>7, <2>1, <2>2, LocalInv, LogsDoneType, LogsDoneOK DEF LogsGet, Verdict, AfterCreate
  <1>8. CASE LogsList(p)
    <2> DEFINE q == [kb[p] EXCEPT !.pc = "logsstream"]
    <2>1. q \in Process
      BY DEF Process, PC
    <2>2. kb[p].pc = "logslist" => ProcessOK(q)
      BY DEF ProcessOK, Process
    <2>3. QED
      BY <1>8, <2>1, <2>2, LocalInv, LogsDoneType, LogsDoneOK DEF LogsList, Verdict, AfterCreate
  <1>9. CASE LogsStream(p)
    BY <1>9, LocalInv, LogsDoneType, LogsDoneOK DEF LogsStream, Verdict, AfterCreate
  <1>10. CASE PollJob(p)
    <2> DEFINE j == job[PolledName(kb[p].action)]
               q == [kb[p] EXCEPT !.seenUid = j.uid]
    <2>1. /\ q \in Process /\ [q EXCEPT !.pc = "rollout"] \in Process
          /\ j = job["base"] /\ j \in Job
      BY DEF Process, PC, TypeOK, Job, JobName, PolledName
    <2>2. CASE j.uid = NoUid
      <3>1. j = NoJob
        BY <2>1, <2>2 DEF IInv, JobsOK, JobName
      <3>2. j.cond = "none"
        BY <3>1 DEF NoJob
      <3>3. Local(p, Fail(kb[p]))
        BY <1>10, <2>2, <3>2 DEF PollJob
      <3>4. QED
        BY <3>3, LocalInv, FailOK, FailType
    <2>3. CASE j.uid # NoUid /\ j.cond = "complete"
      <3>1. ProcessOK(q) /\ q.seenUid # NoUid
        BY <1>10, <2>1, <2>3 DEF PollJob, ProcessOK, Process
      <3>2. ProcessOK([q EXCEPT !.pc = "rollout"])
        BY <2>1, <3>1 DEF ProcessOK, Process
      <3>3. q.pc \in AfterCreate
        BY <1>10 DEF PollJob, Process, AfterCreate
      <3>4. QED
        BY <1>10, <2>1, <2>3, <3>1, <3>2, <3>3, LocalInv, SucceedOK, SucceedType DEF PollJob
    <2>4. CASE j.uid # NoUid /\ j.cond # "complete"
      BY <1>10, <2>1, <2>4, LocalInv, PollFailedType, PollFailedOK DEF PollJob
    <2>5. QED
      BY <2>2, <2>3, <2>4
  <1>11. CASE RolloutWait(p)
    <2>1. kb[p].seenUid # NoUid
      BY <1>11 DEF RolloutWait, ProcessOK
    <2>2. QED
      BY <1>11, <2>1, LocalInv, FailOK, FailType, SucceedOK, SucceedType DEF RolloutWait
  <1>12. CASE DropInstall(p)
    <2>1. JobsOK'
      BY <1>12 DEF DropInstall, IInv, JobsOK
    <2>2. ASSUME NEW r \in Proc
          PROVE  ProcessOK(kb[r])'
      <3>1. kb'[r] = IF r = p THEN Exit("ok") ELSE kb[r]
        BY <1>12 DEF DropInstall, Become, TypeOK
      <3>2. ProcessOK(Exit("ok"))
        BY ExitOK DEF Verdict
      <3>3. QED
        BY <1>12, <3>1, <3>2 DEF DropInstall, IInv, ProcessOK
    <2>3. QED
      BY <2>1, <2>2 DEF IInv
  <1>13. QED
    BY <1>1, <1>2, <1>3, <1>4, <1>5, <1>6, <1>7, <1>8, <1>9, <1>10, <1>11, <1>12 DEF Step

LEMMA ClusterInv ==
  ASSUME TypeOK, IInv, NEW n \in JobName, ClusterStep(n)
  PROVE  IInv'
  <1> /\ job[n] \in Job /\ configmap \in AnySpec
    BY DEF TypeOK
  <1>1. job[n].pod # "none" => job[n].uid # NoUid
    BY DEF IInv, JobsOK, NoJob
  <1>2. ASSUME NEW f \in PodPhase
        PROVE  [job[n] EXCEPT !.pod = f] \in Job /\ [job[n] EXCEPT !.pod = f].uid = job[n].uid
    BY DEF Job
  <1>3. CASE PodCreate(n) \/ PodAct(n) \/ PodExit(n) \/ PodFail(n)
    <2>1. PICK f \in PodPhase : SetJob(n, [job[n] EXCEPT !.pod = f])
      BY <1>3 DEF PodCreate, PodAct, PodExit, PodFail, PodPhase
    <2>2. job[n].uid # NoUid
      BY <1>1, <1>3 DEF PodCreate, PodAct, PodExit, PodFail, Exists
    <2>3. QED
      BY <1>2, <2>1, <2>2, JobInv DEF SetJob
  <1>4. CASE PodRun(n)
    <2> DEFINE j == [job[n] EXCEPT !.pod = "running", !.cfg = configmap]
    <2>1. j \in Job /\ j.uid = job[n].uid
      BY DEF Job, PodPhase
    <2>2. QED
      BY <1>1, <1>4, <2>1, JobInv DEF PodRun, SetJob
  <1>5. CASE JobFinish(n)
    <2> DEFINE j == [job[n] EXCEPT !.cond = IF job[n].pod = "succeeded" THEN "complete"
                                                                        ELSE "failed"]
    <2>1. j \in Job /\ j.uid = job[n].uid
      BY DEF Job, Condition
    <2>2. QED
      BY <1>1, <1>5, <2>1, JobInv DEF JobFinish, SetJob
  <1>6. CASE JobDeadline(n)
    <2> DEFINE j == [job[n] EXCEPT !.cond = "failed", !.pod = "none"]
    <2>1. j \in Job /\ j.uid = job[n].uid
      BY DEF Job, Condition, PodPhase
    <2>2. QED
      BY <1>6, <2>1, JobInv DEF JobDeadline, SetJob, Exists
  <1>7. CASE CollectJob(n)
    BY <1>7, NoJobType, JobInv DEF CollectJob, SetJob
  <1>8. QED
    BY <1>3, <1>4, <1>5, <1>6, <1>7 DEF ClusterStep

LEMMA OtherStepInv ==
  ASSUME TypeOK, IInv, NEW p \in Proc,
         \/ \E c \in Command : Start(p, c)
         \/ Expire(p) \/ ApiError(p) \/ LogsError(p) \/ Crash(p)
  PROVE  IInv'
  <1> kb[p] \in Process /\ ProcessOK(kb[p])
    BY DEF TypeOK, IInv
  <1>1. ASSUME NEW c \in Command, Start(p, c)
        PROVE  IInv'
    <2>1. ProcessOK(StartDeploy(c, FirstAction(c)))
      BY StartDeployOK DEF FirstAction, Action, Command
    <2>2. JobsOK'
      BY <1>1 DEF Start, IInv, JobsOK
    <2>3. ASSUME NEW r \in Proc
          PROVE  ProcessOK(kb[r])'
      <3>1. kb'[r] = IF r = p THEN StartDeploy(c, FirstAction(c)) ELSE kb[r]
        BY <1>1 DEF Start, Become, TypeOK
      <3>2. QED
        BY <1>1, <2>1, <3>1 DEF Start, IInv, ProcessOK
    <2>4. QED
      BY <2>2, <2>3 DEF IInv
  <1>2. CASE Expire(p)
    <2>1. [kb[p] EXCEPT !.expired = TRUE] \in Process
      BY DEF Process
    <2>2. ProcessOK([kb[p] EXCEPT !.expired = TRUE])
      BY DEF ProcessOK, Process
    <2>3. QED
      BY <1>2, <2>1, <2>2, LocalInv DEF Expire
  <1>3. CASE LogsError(p)
    BY <1>3, LocalInv, LogsDoneType, LogsDoneOK DEF LogsError, AfterCreate, Verdict
  <1>4. CASE ApiError(p) \/ Crash(p)
    BY <1>4, LocalInv, FailType, FailOK, ExitType, ExitOK, NoProcessType, NoProcessOK
       DEF ApiError, Crash, Verdict
  <1>5. QED
    BY <1>1, <1>2, <1>3, <1>4

LEMMA InvInit == Init => IInv
  BY NoProcessOK, TypeInit DEF Init, IInv, JobsOK, NoJob, NoUid

LEMMA InvStep == TypeOK /\ IInv /\ [Next]_vars => IInv'
  <1> SUFFICES ASSUME TypeOK, IInv, [Next]_vars
               PROVE  IInv'
    OBVIOUS
  <1>1. ASSUME NEW s \in InstallSpec, Configure(s)
        PROVE  IInv'
    BY <1>1 DEF Configure, IInv, JobsOK, ProcessOK
  <1>2. CASE UNCHANGED vars
    BY <1>2 DEF vars, IInv, JobsOK, ProcessOK
  <1>3. QED
    BY <1>1, <1>2, StepInv, OtherStepInv, ClusterInv DEF Next

LEMMA InvCorrect == Spec => []IInv
  BY InvInit, InvStep, TypeCorrect, PTL DEF Spec

\* However many processes race, a Deploy of apply, diff or delete never reports
\* the success of a job that was there before it started: DeleteJob, the
\* exclusive Create and the uid order together keep stale jobs out.
THEOREM VerdictIsFresh == Spec => []FreshVerdict
  <1>1. IInv => FreshVerdict
    BY DEF IInv, ProcessOK, FreshVerdict, Seen
  <1>2. QED
    BY <1>1, InvCorrect, PTL

\* Without --force, uninstall removes the jobs and the install only after a job
\* younger than the command completed.
THEOREM UninstallIsEarned == Spec => []UninstallEarned
  <1>1. IInv => UninstallEarned
    BY DEF IInv, ProcessOK, UninstallEarned, Cleaning
  <1>2. QED
    BY <1>1, InvCorrect, PTL

-----------------------------------------------------------------------------
(* Only validated specs get into the configmap, the pods and the workloads *)

Validated == {"delete", "deletewait", "cmget", "cmwrite"}
SpecOK(q) == q.pc \in Validated => q.spec \in ValidSpec
ValidOrNone == ValidSpec \cup {NoSpec}

ValidInv ==
  /\ configmap \in ValidOrNone
  /\ deployed \in ValidOrNone
  /\ \A n \in JobName : job[n].cfg \in ValidOrNone
  /\ \A p \in Proc : SpecOK(kb[p])

LEMMA HelpersSpecOK ==
  /\ SpecOK(NoProcess)
  /\ \A v \in Verdict : SpecOK(Exit(v))
  /\ \A c \in Command \cup {"none"}, a \in Action : SpecOK(StartDeploy(c, a))
  /\ \A q \in Process : SpecOK(Fail(q)) /\ SpecOK(Succeed(q)) /\ SpecOK(PollFailed(q))
  /\ \A q \in Process, v \in Verdict : SpecOK(LogsDone(q, v))
  <1> USE DEF SpecOK, Validated
  <1>1. SpecOK(NoProcess)
    BY DEF NoProcess
  <1>2. \A v : SpecOK(Exit(v))
    BY DEF Exit, NoProcess
  <1>3. \A c, a : SpecOK(StartDeploy(c, a))
    BY DEF StartDeploy, NoProcess
  <1>4. \A q \in Process : SpecOK(StartCleanup(q))
    BY DEF StartCleanup, Process
  <1>5. \A q \in Process : SpecOK(Fail(q))
    BY <1>2, <1>4 DEF Fail
  <1>6. \A q \in Process : SpecOK(Succeed(q))
    BY <1>2, <1>3, <1>4 DEF Succeed, PrintDiff, Process
  <1>7. \A q \in Process : \A v : SpecOK(LogsDone(q, v))
    BY <1>2, <1>5 DEF LogsDone, Process, Prints
  <1>8. \A q \in Process : SpecOK(PollFailed(q))
    BY <1>5 DEF PollFailed, Process
  <1>9. QED
    BY <1>1, <1>2, <1>3, <1>5, <1>6, <1>7, <1>8

\* A step whose only change to the processes is that p becomes q.
LEMMA BecomeValid ==
  ASSUME TypeOK, ValidInv, NEW p \in Proc, NEW q, Become(p, q), SpecOK(q)
  PROVE  \A r \in Proc : SpecOK(kb'[r])
  BY DEF TypeOK, ValidInv, Become

LEMMA LocalValid ==
  ASSUME TypeOK, ValidInv, NEW p \in Proc, NEW q, Local(p, q), SpecOK(q)
  PROVE  ValidInv'
  BY BecomeValid DEF Local, ValidInv, SpecOK

LEMMA StepValid ==
  ASSUME TypeOK, ValidInv, NEW p \in Proc, Step(p)
  PROVE  ValidInv'
  <1> kb[p] \in Process /\ SpecOK(kb[p])
    BY DEF TypeOK, ValidInv
  <1> USE HelpersSpecOK
  <1>1. CASE Preflight(p)
    <2>1. Validate(install) =>
            SpecOK([kb[p] EXCEPT !.pc = "delete", !.spec = install,
                                 !.target = NameWithAction(kb[p].action)])
      BY DEF Validate, SpecOK, Process
    <2>2. QED
      BY <1>1, <2>1, LocalValid DEF Preflight
  <1>2. CASE DeleteJob(p)
    <2> DEFINE q == [kb[p] EXCEPT !.pc = IF @ = "delete" THEN "deletewait" ELSE "cleanupwait"]
    <2>1. SpecOK(q) /\ Become(p, q)
      BY <1>2 DEF DeleteJob, SpecOK, Validated, Process
    <2>2. \A m \in JobName : job'[m].cfg = job[m].cfg
      BY <1>2 DEF DeleteJob, TypeOK, Job
    <2>3. QED
      BY <1>2, <2>1, <2>2, BecomeValid DEF DeleteJob, ValidInv, SpecOK
  <1>3. CASE DeleteWait(p)
    <2>1. /\ kb[p].pc = "deletewait" => SpecOK([kb[p] EXCEPT !.pc = "cmget"])
          /\ SpecOK([kb[p] EXCEPT !.pc = "cleanup", !.target = "smoketest"])
          /\ SpecOK([kb[p] EXCEPT !.pc = "dropinstall"])
      BY DEF SpecOK, Validated, Process
    <2>2. QED
      BY <1>3, <2>1, LocalValid DEF DeleteWait
  <1>4. CASE ConfigmapGet(p)
    <2>1. kb[p].pc = "cmget" => SpecOK([kb[p] EXCEPT !.pc = "cmwrite", !.base = configmap])
      BY DEF SpecOK, Validated, Process
    <2>2. QED
      BY <1>4, <2>1, LocalValid DEF ConfigmapGet
  <1>5. CASE ConfigmapWrite(p)
    <2> DEFINE q == [kb[p] EXCEPT !.pc = "createjob", !.base = NoSpec]
    <2>1. CASE Local(p, Fail(kb[p]))
      BY <2>1, LocalValid
    <2>2. CASE /\ kb[p].pc = "cmwrite"
               /\ configmap' = MergePatch(configmap, kb[p].base, kb[p].spec)
               /\ Become(p, q)
               /\ UNCHANGED <<install, job, deployed, lastUid, configs, runs>>
      <3>1. configmap' \in ValidOrNone
        BY <2>2 DEF MergePatch, ValidInv, SpecOK, Validated, ValidOrNone
      <3>2. SpecOK(q)
        BY DEF SpecOK, Validated, Process
      <3>3. QED
        BY <2>2, <3>1, <3>2, BecomeValid DEF ValidInv, SpecOK
    <2>3. QED
      BY <1>5, <2>1, <2>2 DEF ConfigmapWrite
  <1>6. CASE CreateJob(p)
    <2> DEFINE n == NameWithAction(kb[p].action)
               j == [NoJob EXCEPT !.uid = lastUid + 1, !.action = kb[p].action]
               q == [kb[p] EXCEPT !.pc = "logsget"]
    <2>1. CASE Local(p, Fail(kb[p]))
      BY <2>1, LocalValid
    <2>2. CASE /\ job' = [job EXCEPT ![n] = j]
               /\ Become(p, q)
               /\ UNCHANGED <<install, configmap, deployed, configs, runs>>
      <3>1. j.cfg = NoSpec
        BY DEF NoJob
      <3>2. \A m \in JobName : job'[m].cfg \in ValidOrNone
        BY <2>2, <3>1 DEF ValidInv, ValidOrNone, TypeOK
      <3>3. SpecOK(q)
        BY DEF SpecOK, Validated, Process
      <3>4. QED
        BY <2>2, <3>2, <3>3, BecomeValid DEF ValidInv, SpecOK
    <2>3. QED
      BY <1>6, <2>1, <2>2 DEF CreateJob, Conflict
  <1>7. CASE LogsGet(p) \/ LogsList(p) \/ LogsStream(p)
    <2>1. /\ SpecOK([kb[p] EXCEPT !.pc = "logslist", !.logUid = job["base"].uid])
          /\ SpecOK([kb[p] EXCEPT !.pc = "logsstream"])
      BY DEF SpecOK, Validated, Process
    <2>2. QED
      BY <1>7, <2>1, LocalValid DEF LogsGet, LogsList, LogsStream, Verdict
  <1>8. CASE PollJob(p)
    <2> DEFINE j == job[PolledName(kb[p].action)]
               q == [kb[p] EXCEPT !.seenUid = j.uid]
    <2>1. q \in Process /\ SpecOK([q EXCEPT !.pc = "rollout"])
      BY DEF Process, TypeOK, Job, JobName, PolledName, SpecOK, Validated
    <2>2. QED
      BY <1>8, <2>1, LocalValid DEF PollJob
  <1>9. CASE RolloutWait(p)
    BY <1>9, LocalValid DEF RolloutWait
  <1>10. CASE DropInstall(p)
    <2>1. SpecOK(Exit("ok"))
      BY DEF Verdict
    <2>2. QED
      BY <1>10, <2>1, BecomeValid DEF DropInstall, ValidInv, SpecOK
  <1>11. QED
    BY <1>1, <1>2, <1>3, <1>4, <1>5, <1>6, <1>7, <1>8, <1>9, <1>10 DEF Step

LEMMA OtherValid ==
  ASSUME TypeOK, ValidInv, NEW p \in Proc,
         \/ \E c \in Command : Start(p, c)
         \/ Expire(p) \/ ApiError(p) \/ LogsError(p) \/ Crash(p)
  PROVE  ValidInv'
  <1> kb[p] \in Process /\ SpecOK(kb[p])
    BY DEF TypeOK, ValidInv
  <1>1. ASSUME NEW c \in Command, Start(p, c)
        PROVE  ValidInv'
    <2>1. SpecOK(StartDeploy(c, FirstAction(c)))
      BY HelpersSpecOK DEF FirstAction, Action, Command
    <2>2. QED
      BY <1>1, <2>1, BecomeValid DEF Start, ValidInv, SpecOK
  <1>2. CASE Expire(p)
    <2>1. SpecOK([kb[p] EXCEPT !.expired = TRUE])
      BY DEF SpecOK, Process
    <2>2. QED
      BY <1>2, <2>1, LocalValid DEF Expire
  <1>3. CASE ApiError(p) \/ LogsError(p) \/ Crash(p)
    BY <1>3, HelpersSpecOK, LocalValid DEF ApiError, LogsError, Crash, Verdict
  <1>4. QED
    BY <1>1, <1>2, <1>3

LEMMA ClusterValid ==
  ASSUME TypeOK, ValidInv, NEW n \in JobName, ClusterStep(n)
  PROVE  ValidInv'
  <1> /\ job[n] \in Job /\ job[n].cfg \in ValidOrNone
    BY DEF TypeOK, ValidInv
  <1>1. ASSUME NEW j, SetJob(n, j), j.cfg \in ValidOrNone, deployed' \in ValidOrNone
        PROVE  ValidInv'
    BY <1>1 DEF SetJob, ValidInv, TypeOK, SpecOK
  <1>2. deployed' \in ValidOrNone
    BY DEF ClusterStep, PodCreate, PodRun, PodAct, PodExit, PodFail, JobFinish, JobDeadline,
           CollectJob, ValidInv, ValidOrNone
  <1>3. /\ \A f : [job[n] EXCEPT !.pod = f].cfg \in ValidOrNone
        /\ \A c : [job[n] EXCEPT !.cond = c].cfg \in ValidOrNone
        /\ [job[n] EXCEPT !.cond = "failed", !.pod = "none"].cfg \in ValidOrNone
        /\ [job[n] EXCEPT !.pod = "running", !.cfg = configmap].cfg \in ValidOrNone
        /\ NoJob.cfg \in ValidOrNone
    BY DEF Job, NoJob, ValidInv, ValidOrNone
  <1>4. QED
    BY <1>1, <1>2, <1>3 DEF ClusterStep, PodCreate, PodRun, PodAct, PodExit, PodFail,
                            JobFinish, JobDeadline, CollectJob

\* Whatever the interleaving of validation, configmap writes, edits of the install
\* and pod starts, workloads are only ever made from a spec that gives every
\* required parameter a value.
THEOREM WorkloadsAreValid == Spec => []OnlyValidDeployed
  <1>1. Init => ValidInv
    BY HelpersSpecOK DEF Init, ValidInv, ValidOrNone, NoJob
  <1>2. TypeOK /\ ValidInv /\ [Next]_vars => ValidInv'
    <2> SUFFICES ASSUME TypeOK, ValidInv, [Next]_vars
                 PROVE  ValidInv'
      OBVIOUS
    <2>1. ASSUME NEW s \in InstallSpec, Configure(s)
          PROVE  ValidInv'
      BY <2>1 DEF Configure, ValidInv, SpecOK
    <2>2. CASE UNCHANGED vars
      BY <2>2 DEF vars, ValidInv, SpecOK
    <2>3. QED
      BY <2>1, <2>2, StepValid, OtherValid, ClusterValid DEF Next
  <1>3. ValidInv => OnlyValidDeployed
    BY DEF ValidInv, OnlyValidDeployed, ValidOrNone
  <1>4. QED
    BY <1>1, <1>2, <1>3, TypeCorrect, PTL DEF Spec

-----------------------------------------------------------------------------
(* One process at a time *)

OneProcess == \A p, q \in Proc : p = q

\* What each job may do, and what its condition means.
JobShape ==
  \A n \in JobName :
    /\ job[n].cond = "complete" => job[n].pod = "succeeded"
    /\ job[n].action \in IF n = "base" THEN {"apply", "delete", "diff", "none"}
                         ELSE {"smoketest", "none"}

Acts(q) == q.action \in {"apply", "delete"}
Requested(q) == IF q.action = "apply" THEN q.spec ELSE NoSpec

\* The job of the install's name, if there is one, does what q asked for.
Mine(q) ==
  LET j == job["base"] IN
  /\ configmap = q.spec
  /\ j = NoJob \/ j.action = q.action
  /\ j.pod \in {"running", "acted"} => j.cfg = q.spec
  /\ j.pod \in {"acted", "succeeded"} => deployed = Requested(q)

UninstallDeletes(q) == q.cmd = "uninstall" => q.action = "delete"
DoneAsSeen(q) ==
  q.seenUid # NoUid /\ Acts(q) =>
    deployed = Requested(q) /\ (job["base"] = NoJob \/ job["base"].pod = "succeeded")

AloneOK(q) ==
  /\ UninstallDeletes(q) /\ DoneAsSeen(q)
  /\ q.pc \notin {"rollout"} \cup Cleaning => q.seenUid = NoUid
  /\ Acts(q) =>
       /\ q.pc = "cmwrite" => q.base = configmap
       /\ q.pc = "createjob" => configmap = q.spec
       /\ q.pc \in AfterCreate => Mine(q)

AInv == JobShape /\ \A p \in Proc : AloneOK(kb[p])

LEMMA ExitAlone == \A v : AloneOK(Exit(v)) /\ AloneOK(NoProcess)
  BY DEF Exit, NoProcess, AloneOK, UninstallDeletes, DoneAsSeen, Acts, Cleaning

LEMMA FailAlone ==
  ASSUME NEW q \in Process, UninstallDeletes(q), DoneAsSeen(q)
  PROVE  AloneOK(StartCleanup(q)) /\ AloneOK(Fail(q))
  <1> DEFINE r == StartCleanup(q)
  <1>1. /\ r.pc = "cleanup" /\ r.cmd = q.cmd /\ r.action = q.action /\ r.spec = q.spec
        /\ r.seenUid = q.seenUid
    BY DEF StartCleanup, Process
  <1> HIDE DEF r
  <1>2. AloneOK(r)
    BY <1>1 DEF AloneOK, UninstallDeletes, DoneAsSeen, Acts, Requested, Cleaning, AfterCreate
  <1>3. QED
    BY <1>2, ExitAlone DEF Fail, r

LEMMA StartDeployAlone ==
  ASSUME NEW c, NEW a \in Action, c = "uninstall" => a = "delete"
  PROVE  AloneOK(StartDeploy(c, a))
  BY DEF StartDeploy, NoProcess, AloneOK, UninstallDeletes, DoneAsSeen, Cleaning, AfterCreate

LEMMA SucceedAlone ==
  ASSUME NEW q \in Process, UninstallDeletes(q), DoneAsSeen(q)
  PROVE  AloneOK(Succeed(q))
  <1>1. CASE q.action = "diff"
    <2> DEFINE r == PrintDiff(q)
    <2>1. /\ r.pc = "logsget" /\ r.cmd = q.cmd /\ r.action = "diff" /\ r.seenUid = NoUid
      BY <1>1 DEF PrintDiff, Process
    <2> HIDE DEF r
    <2>2. AloneOK(r)
      BY <1>1, <2>1 DEF AloneOK, UninstallDeletes, DoneAsSeen, Acts
    <2>3. QED
      BY <1>1, <2>2 DEF Succeed, r
  <1>2. CASE q.action # "diff"
    BY <1>2, ExitAlone, FailAlone, StartDeployAlone DEF Succeed, UninstallDeletes, Action
  <1>3. QED
    BY <1>1, <1>2

LEMMA LogsDoneAlone ==
  ASSUME NEW q \in Process, NEW v, AloneOK(q), q.pc \in AfterCreate
  PROVE  AloneOK(LogsDone(q, v))
  <1>1. CASE q.printing = "failed"
    BY <1>1, FailAlone DEF LogsDone, AloneOK
  <1>2. CASE q.printing = "first"
    <2> DEFINE r == [q EXCEPT !.pc = "pollget", !.logUid = NoUid]
    <2>1. /\ r.pc = "pollget" /\ r.cmd = q.cmd /\ r.action = q.action /\ r.spec = q.spec
          /\ r.seenUid = q.seenUid
      BY DEF Process
    <2>2. LogsDone(q, v) = r
      BY <1>2 DEF LogsDone
    <2> HIDE DEF r
    <2>3. QED
      BY <2>1, <2>2 DEF AloneOK, UninstallDeletes, DoneAsSeen, Acts, Requested, Mine, Cleaning,
         AfterCreate
  <1>3. CASE q.printing = "diff"
    BY <1>3, ExitAlone DEF LogsDone
  <1>4. QED
    BY <1>1, <1>2, <1>3 DEF Process, Prints

LEMMA PollFailedAlone ==
  ASSUME NEW q \in Process, AloneOK(q), q.pc \in AfterCreate
  PROVE  AloneOK(PollFailed(q))
  <1>1. CASE LogsShown(q.cmd)
    BY <1>1, FailAlone DEF PollFailed, AloneOK
  <1>2. CASE ~LogsShown(q.cmd)
    <2> DEFINE r == [q EXCEPT !.printing = "failed", !.pc = "logsget"]
    <2>1. /\ r.pc = "logsget" /\ r.cmd = q.cmd /\ r.action = q.action /\ r.spec = q.spec
          /\ r.seenUid = q.seenUid
      BY DEF Process
    <2>2. PollFailed(q) = r
      BY <1>2 DEF PollFailed
    <2> HIDE DEF r
    <2>3. QED
      BY <2>1, <2>2 DEF AloneOK, UninstallDeletes, DoneAsSeen, Acts, Requested, Mine, Cleaning,
         AfterCreate
  <1>3. QED
    BY <1>1, <1>2

\* A step of the process that leaves the jobs alone, and one that leaves the
\* cluster alone.
LEMMA BecomeAlone ==
  ASSUME TypeOK, OneProcess, AInv, NEW p \in Proc, NEW q, Become(p, q), job' = job,
         AloneOK(q)'
  PROVE  AInv'
  BY DEF TypeOK, OneProcess, AInv, JobShape, Become

LEMMA LocalAlone ==
  ASSUME TypeOK, OneProcess, AInv, NEW p \in Proc, NEW q, Local(p, q), AloneOK(q)
  PROVE  AInv'
  <1>1. /\ Become(p, q) /\ job' = job /\ configmap' = configmap /\ deployed' = deployed
    BY DEF Local
  <1>2. AloneOK(q)'
    BY <1>1 DEF AloneOK, UninstallDeletes, DoneAsSeen, Acts, Requested, Mine
  <1>3. QED
    BY <1>1, <1>2, BecomeAlone

LEMMA StepAlone ==
  ASSUME TypeOK, OneProcess, AInv, NEW p \in Proc, Step(p)
  PROVE  AInv'
  <1>1. kb[p] \in Process /\ AloneOK(kb[p])
    BY DEF TypeOK, AInv
  <1>2. PICK r \in Process : r = kb[p]
    BY <1>1
  <1>3. AloneOK(r) /\ AloneOK(Fail(r)) /\ UninstallDeletes(r) /\ DoneAsSeen(r)
    BY <1>1, <1>2, FailAlone DEF AloneOK
  <1>4. CASE Preflight(p)
    <2> DEFINE q == [r EXCEPT !.pc = "delete", !.spec = install,
                              !.target = NameWithAction(r.action)]
    <2>1. q.pc = "delete" /\ q.cmd = r.cmd /\ q.action = r.action /\ q.seenUid = r.seenUid
      BY DEF Process
    <2>2. Local(p, Fail(r)) \/ Local(p, q)
      BY <1>2, <1>4 DEF Preflight
    <2>3. r.pc = "preflight"
      BY <1>2, <1>4 DEF Preflight
    <2> HIDE DEF q
    <2>4. AloneOK(q)
      BY <1>3, <2>1, <2>3 DEF AloneOK, UninstallDeletes, DoneAsSeen, AfterCreate, Cleaning
    <2>5. QED
      BY <1>3, <2>2, <2>4, LocalAlone
  <1>5. CASE DeleteJob(p)
    <2>1. PICK q \in Process :
            q = [r EXCEPT !.pc = IF @ = "delete" THEN "deletewait" ELSE "cleanupwait"]
      BY DEF Process, PC
    <2>2. /\ Become(p, q) /\ configmap' = configmap /\ deployed' = deployed
          /\ r.pc \in {"delete", "cleanup"}
      BY <1>2, <1>5, <2>1 DEF DeleteJob
    <2>3. /\ q.pc = IF r.pc = "delete" THEN "deletewait" ELSE "cleanupwait"
          /\ q.cmd = r.cmd /\ q.action = r.action /\ q.seenUid = r.seenUid /\ q.spec = r.spec
      BY <2>1 DEF Process
    <2>4. \A n \in JobName :
            /\ job'[n].pod = job[n].pod /\ job'[n].cond = job[n].cond
            /\ job'[n].action = job[n].action
            /\ job[n] = NoJob => job'[n] = NoJob
      <3>1. job \in [JobName -> Job]
        BY DEF TypeOK
      <3>2. NoJob.uid = NoUid
        BY DEF NoJob
      <3>3. QED
        BY <1>5, <3>1, <3>2 DEF DeleteJob, Job, Exists
    <2>5. AloneOK(q)'
      BY <1>3, <2>2, <2>3, <2>4 DEF AloneOK, UninstallDeletes, DoneAsSeen, Acts, Requested,
         AfterCreate, Cleaning, JobName
    <2>6. JobShape'
      BY <2>4 DEF AInv, JobShape
    <2>7. QED
      BY <2>2, <2>5, <2>6 DEF TypeOK, OneProcess, AInv, Become
  <1>6. CASE DeleteWait(p)
    <2>1. ASSUME NEW c \in {"cmget", "cleanup", "dropinstall"}, NEW n \in JobName,
                 c = "cmget" => r.pc = "deletewait"
          PROVE  AloneOK([r EXCEPT !.pc = c, !.target = n])
      <3> DEFINE q == [r EXCEPT !.pc = c, !.target = n]
      <3>1. q.pc = c /\ q.cmd = r.cmd /\ q.action = r.action /\ q.seenUid = r.seenUid
            /\ q.spec = r.spec
        BY DEF Process
      <3> HIDE DEF q
      <3>2. AloneOK(q)
        BY <1>3, <2>1, <3>1 DEF AloneOK, UninstallDeletes, DoneAsSeen, Acts, Requested,
           AfterCreate, Cleaning
      <3>3. QED
        BY <3>2 DEF q
    <2>2. \A c : [r EXCEPT !.pc = c] = [r EXCEPT !.pc = c, !.target = r.target]
      BY DEF Process
    <2>3. r.target \in JobName /\ "smoketest" \in JobName
      BY DEF Process, JobName
    <2>4. \/ r.pc = "deletewait" /\ Local(p, [r EXCEPT !.pc = "cmget"])
          \/ Local(p, [r EXCEPT !.pc = "cleanup", !.target = "smoketest"])
          \/ Local(p, [r EXCEPT !.pc = "dropinstall"])
      BY <1>2, <1>6 DEF DeleteWait
    <2>5. QED
      BY <2>1, <2>2, <2>3, <2>4, LocalAlone
  <1>7. CASE ConfigmapGet(p)
    <2> DEFINE q == [r EXCEPT !.pc = "cmwrite", !.base = configmap]
    <2>1. q.pc = "cmwrite" /\ q.base = configmap /\ q.cmd = r.cmd /\ q.action = r.action
          /\ q.seenUid = r.seenUid
      BY DEF Process
    <2>2. Local(p, q) /\ r.pc = "cmget"
      BY <1>2, <1>7 DEF ConfigmapGet
    <2> HIDE DEF q
    <2>3. AloneOK(q)
      BY <1>3, <2>1, <2>2 DEF AloneOK, UninstallDeletes, DoneAsSeen, AfterCreate, Cleaning
    <2>4. QED
      BY <2>2, <2>3, LocalAlone
  <1>8. CASE ConfigmapWrite(p)
    <2>1. CASE Local(p, Fail(r))
      BY <1>3, <2>1, LocalAlone
    <2>2. CASE /\ configmap' = MergePatch(configmap, r.base, r.spec)
               /\ Become(p, [r EXCEPT !.pc = "createjob", !.base = NoSpec])
               /\ job' = job /\ r.pc = "cmwrite"
      <3>1. PICK q \in Process : q = [r EXCEPT !.pc = "createjob", !.base = NoSpec]
        BY DEF Process, PC, AnySpec
      <3>2. q.pc = "createjob" /\ q.cmd = r.cmd /\ q.action = r.action /\ q.seenUid = r.seenUid
            /\ q.spec = r.spec
        BY <3>1 DEF Process
      <3>3. Acts(r) => configmap' = r.spec
        BY <1>3, <2>2 DEF AloneOK, MergePatch
      <3>4. AloneOK(q)'
        BY <1>3, <2>2, <3>2, <3>3 DEF AloneOK, UninstallDeletes, DoneAsSeen, Acts, AfterCreate,
           Cleaning
      <3>5. QED
        BY <2>2, <3>1, <3>4, BecomeAlone
    <2>3. QED
      BY <1>2, <1>8, <2>1, <2>2 DEF ConfigmapWrite
  <1>9. CASE CreateJob(p)
    <2> DEFINE n == NameWithAction(r.action)
    <2>1. CASE Local(p, Fail(r))
      BY <1>3, <2>1, LocalAlone
    <2>2. CASE /\ job' = [job EXCEPT ![n] = [NoJob EXCEPT !.uid = lastUid + 1, !.action = r.action]]
               /\ Become(p, [r EXCEPT !.pc = "logsget"]) /\ r.pc = "createjob"
               /\ configmap' = configmap /\ deployed' = deployed
      <3>1. PICK q \in Process : q = [r EXCEPT !.pc = "logsget"]
        BY DEF Process, PC
      <3>2. q.pc = "logsget" /\ q.cmd = r.cmd /\ q.action = r.action /\ q.seenUid = r.seenUid
            /\ q.spec = r.spec
        BY <3>1 DEF Process
      <3>3. n \in JobName /\ job'[n].pod = "none" /\ job'[n].cond = "none"
            /\ job'[n].action = r.action
            /\ \A m \in JobName \ {n} : job'[m] = job[m]
        BY <2>2 DEF TypeOK, NameWithAction, JobName, NoJob
      <3>4. JobShape'
        BY <3>3 DEF AInv, JobShape, NameWithAction, Process, Action
      <3>5. AloneOK(q)'
        BY <1>3, <2>2, <3>2, <3>3 DEF AloneOK, UninstallDeletes, DoneAsSeen, Acts, Mine, AfterCreate,
           Cleaning, NameWithAction
      <3>6. QED
        BY <2>2, <3>1, <3>4, <3>5 DEF TypeOK, OneProcess, AInv, Become
    <2>3. QED
      BY <1>2, <1>9, <2>1, <2>2 DEF CreateJob, Conflict
  <1>10. CASE LogsGet(p) \/ LogsList(p) \/ LogsStream(p)
    <2>1. r.pc \in AfterCreate
      BY <1>2, <1>10 DEF LogsGet, LogsList, LogsStream, AfterCreate
    <2>2. ASSUME NEW c \in AfterCreate, NEW u
          PROVE  AloneOK([r EXCEPT !.pc = c, !.logUid = u])
      <3> DEFINE q == [r EXCEPT !.pc = c, !.logUid = u]
      <3>1. q.pc = c /\ q.cmd = r.cmd /\ q.action = r.action /\ q.seenUid = r.seenUid
            /\ q.spec = r.spec
        BY DEF Process
      <3> HIDE DEF q
      <3>2. AloneOK(q)
        BY <1>3, <2>1, <3>1 DEF AloneOK, UninstallDeletes, DoneAsSeen, Acts, Requested, Mine,
           AfterCreate, Cleaning
      <3>3. QED
        BY <3>2 DEF q
    <2>3. \A c : [r EXCEPT !.pc = c] = [r EXCEPT !.pc = c, !.logUid = r.logUid]
      BY DEF Process
    <2>4. \/ \E v : Local(p, LogsDone(r, v))
          \/ Local(p, [r EXCEPT !.pc = "logslist", !.logUid = job["base"].uid])
          \/ Local(p, [r EXCEPT !.pc = "logsstream"])
      BY <1>2, <1>10 DEF LogsGet, LogsList, LogsStream
    <2>5. \A v : AloneOK(LogsDone(r, v))
      BY <1>3, <2>1, LogsDoneAlone
    <2>6. QED
      BY <2>2, <2>3, <2>4, <2>5, LocalAlone DEF AfterCreate
  <1>11. CASE PollJob(p)
    <2> DEFINE j == job["base"]
               q == [r EXCEPT !.seenUid = j.uid]
    <2>1. r.pc = "pollget" /\ AloneOK(PollFailed(r))
      BY <1>2, <1>3, <1>11, PollFailedAlone DEF PollJob, AfterCreate
    <2>2. CASE Local(p, Fail(r)) \/ Local(p, PollFailed(r))
      BY <1>3, <2>1, <2>2, LocalAlone
    <2>3. CASE /\ j.cond = "complete"
               /\ Local(p, IF q.action = "delete" THEN Succeed(q) ELSE [q EXCEPT !.pc = "rollout"])
      <3>1. j.uid \in Nat /\ j.pod = "succeeded"
        BY <2>3 DEF TypeOK, AInv, JobShape, JobName, Job
      <3>2. q \in Process /\ q.cmd = r.cmd /\ q.action = r.action /\ q.spec = r.spec
        BY <3>1 DEF Process
      <3> HIDE DEF q
      <3>3. UninstallDeletes(q) /\ DoneAsSeen(q)
        BY <1>3, <2>1, <3>1, <3>2 DEF AloneOK, UninstallDeletes, DoneAsSeen, Acts, Requested, Mine,
           AfterCreate
      <3> DEFINE s == [q EXCEPT !.pc = "rollout"]
      <3>4. s.pc = "rollout" /\ s.cmd = q.cmd /\ s.action = q.action /\ s.spec = q.spec
            /\ s.seenUid = q.seenUid
        BY <3>2 DEF Process
      <3>5. Local(p, Succeed(q)) \/ Local(p, s)
        BY <2>3
      <3> HIDE DEF s
      <3>6. AloneOK(s)
        BY <3>3, <3>4 DEF AloneOK, UninstallDeletes, DoneAsSeen, Acts, Requested, AfterCreate
      <3>7. QED
        BY <3>2, <3>3, <3>5, <3>6, SucceedAlone, LocalAlone
    <2>4. QED
      BY <1>2, <1>11, <2>2, <2>3 DEF PollJob, PolledName
  <1>12. CASE RolloutWait(p)
    <2>1. AloneOK(Succeed(r))
      BY <1>3, SucceedAlone
    <2>2. Local(p, Fail(r)) \/ Local(p, Succeed(r))
      BY <1>2, <1>12 DEF RolloutWait
    <2>3. QED
      BY <1>3, <2>1, <2>2, LocalAlone
  <1>13. CASE DropInstall(p)
    <2>1. Become(p, Exit("ok")) /\ job' = job
      BY <1>13 DEF DropInstall
    <2>2. AloneOK(Exit("ok"))'
      BY DEF Exit, NoProcess, AloneOK, UninstallDeletes, DoneAsSeen, Acts, Cleaning
    <2>3. QED
      BY <2>1, <2>2, BecomeAlone
  <1>14. QED
    BY <1>4, <1>5, <1>6, <1>7, <1>8, <1>9, <1>10, <1>11, <1>12, <1>13 DEF Step

LEMMA OtherAlone ==
  ASSUME TypeOK, OneProcess, AInv, NEW p \in Proc,
         \/ \E c \in Command : Start(p, c)
         \/ Expire(p) \/ ApiError(p) \/ LogsError(p) \/ Crash(p)
  PROVE  AInv'
  <1>1. kb[p] \in Process /\ AloneOK(kb[p])
    BY DEF TypeOK, AInv
  <1>2. PICK r \in Process : r = kb[p]
    BY <1>1
  <1>3. AloneOK(r) /\ AloneOK(Fail(r))
    BY <1>1, <1>2, FailAlone DEF AloneOK
  <1>4. ASSUME NEW c \in Command, Start(p, c)
        PROVE  AInv'
    <2>1. PICK q : q = StartDeploy(c, FirstAction(c))
      OBVIOUS
    <2>2. Become(p, q) /\ job' = job
      BY <1>4, <2>1 DEF Start
    <2>3. /\ q.seenUid = NoUid /\ q.pc = "preflight" /\ q.cmd = c
          /\ c = "uninstall" => q.action = "delete"
      BY <2>1 DEF StartDeploy, NoProcess, FirstAction
    <2>4. AloneOK(q)'
      BY <2>3 DEF AloneOK, UninstallDeletes, DoneAsSeen, AfterCreate
    <2>5. QED
      BY <2>2, <2>4, BecomeAlone
  <1>5. CASE Expire(p)
    <2> DEFINE q == [r EXCEPT !.expired = TRUE]
    <2>1. q.pc = r.pc /\ q.cmd = r.cmd /\ q.action = r.action /\ q.seenUid = r.seenUid
          /\ q.spec = r.spec /\ q.base = r.base
      BY DEF Process
    <2>2. Local(p, q)
      BY <1>2, <1>5 DEF Expire
    <2> HIDE DEF q
    <2>3. AloneOK(q)
      BY <1>3, <2>1 DEF AloneOK, UninstallDeletes, DoneAsSeen, Acts, Requested, Mine
    <2>4. QED
      BY <2>2, <2>3, LocalAlone
  <1>6. CASE ApiError(p)
    <2>1. Local(p, Fail(r)) \/ Local(p, Exit("error"))
      BY <1>2, <1>6 DEF ApiError
    <2>2. QED
      BY <1>3, <2>1, ExitAlone, LocalAlone
  <1>7. CASE LogsError(p)
    <2>1. Local(p, LogsDone(r, "error")) /\ r.pc \in AfterCreate
      BY <1>2, <1>7 DEF LogsError, AfterCreate
    <2>2. QED
      BY <1>3, <2>1, LogsDoneAlone, LocalAlone
  <1>8. CASE Crash(p)
    BY <1>8, ExitAlone, LocalAlone DEF Crash
  <1>9. QED
    BY <1>4, <1>5, <1>6, <1>7, <1>8

LEMMA ClusterAlone ==
  ASSUME TypeOK, AInv, NEW n \in JobName, ClusterStep(n)
  PROVE  AInv'
  <1> DEFINE j == job[n]
  <1>1. /\ j \in Job /\ kb' = kb /\ configmap' = configmap
        /\ j.cond = "complete" => j.pod = "succeeded"
        /\ j.action \in IF n = "base" THEN {"apply", "delete", "diff", "none"} ELSE {"smoketest", "none"}
    BY DEF TypeOK, AInv, JobShape, ClusterStep, SetJob, PodCreate, PodRun, PodAct, PodExit, PodFail,
       JobFinish, JobDeadline, CollectJob
  <1>2. NoJob.pod = "none" /\ NoJob.uid = NoUid /\ NoJob.action = "none" /\ NoJob.cond = "none"
        /\ NoJob.terminating = FALSE
    BY DEF NoJob
  <1>3. PICK k \in Job :
          /\ job' = [job EXCEPT ![n] = k]
          /\ k.cond = "complete" => k.pod = "succeeded"
          /\ k.action \in {j.action, "none"}
          /\ k = NoJob \/ k.action = j.action
          /\ j = NoJob => k = NoJob
          /\ j.pod = "succeeded" => k.pod = "succeeded" \/ k = NoJob
          /\ k.pod \in {"running", "acted"} =>
               k.cfg = IF j.pod = "pending" THEN configmap ELSE j.cfg
          /\ k.pod \in {"running", "acted"} => j.pod \in {"pending", "running", "acted"}
          /\ k.pod = "acted" /\ j.pod # "acted" =>
               deployed' = IF j.action = "apply" THEN j.cfg ELSE NoSpec
          /\ k.pod = "acted" => j.pod \in {"running", "acted"}
          /\ k.pod = "succeeded" =>
               \/ j.pod \in {"acted", "succeeded"} \/ j.action \notin {"apply", "delete"}
          /\ deployed' # deployed =>
               j.pod = "running" /\ k.pod = "acted" /\ j.action \in {"apply", "delete"}
    <2>1. CASE PodCreate(n)
      <3> DEFINE k == [j EXCEPT !.pod = "pending"]
      <3>1. k \in Job /\ k.pod = "pending" /\ k.action = j.action /\ k.cond = j.cond
        BY <1>1 DEF Job, PodPhase
      <3>2. job' = [job EXCEPT ![n] = k] /\ deployed' = deployed /\ j.uid # NoUid /\ j.pod = "none"
            /\ j.cond = "none"
        BY <2>1 DEF PodCreate, SetJob, Exists
      <3> HIDE DEF k
      <3>3. QED
        BY <1>1, <1>2, <3>1, <3>2
    <2>2. CASE PodRun(n)
      <3> DEFINE k == [j EXCEPT !.pod = "running", !.cfg = configmap]
      <3>1. k \in Job /\ k.pod = "running" /\ k.cfg = configmap /\ k.action = j.action
            /\ k.cond = j.cond
        BY <1>1 DEF TypeOK, Job, PodPhase
      <3>2. job' = [job EXCEPT ![n] = k] /\ deployed' = deployed /\ j.pod = "pending"
        BY <2>2 DEF PodRun, SetJob
      <3> HIDE DEF k
      <3>3. QED
        BY <1>1, <1>2, <3>1, <3>2
    <2>3. CASE PodAct(n)
      <3> DEFINE k == [j EXCEPT !.pod = "acted"]
      <3>1. k \in Job /\ k.pod = "acted" /\ k.cfg = j.cfg /\ k.action = j.action /\ k.cond = j.cond
        BY <1>1 DEF Job, PodPhase
      <3>2. job' = [job EXCEPT ![n] = k] /\ j.pod = "running" /\ j.action \in {"apply", "delete"}
            /\ deployed' = IF j.action = "apply" THEN j.cfg ELSE NoSpec
        BY <2>3 DEF PodAct, SetJob
      <3> HIDE DEF k
      <3>3. QED
        BY <1>1, <1>2, <3>1, <3>2
    <2>4. CASE PodExit(n)
      <3> DEFINE k == [j EXCEPT !.pod = "succeeded"]
      <3>1. k \in Job /\ k.pod = "succeeded" /\ k.action = j.action
        BY <1>1 DEF Job, PodPhase
      <3>2. job' = [job EXCEPT ![n] = k] /\ deployed' = deployed
            /\ (j.pod = "acted" \/ (j.pod = "running" /\ j.action \notin {"apply", "delete"}))
        BY <2>4 DEF PodExit, SetJob
      <3> HIDE DEF k
      <3>3. QED
        BY <1>1, <1>2, <3>1, <3>2
    <2>5. CASE PodFail(n)
      <3> DEFINE k == [j EXCEPT !.pod = "failed"]
      <3>1. k \in Job /\ k.pod = "failed" /\ k.action = j.action /\ k.cond = j.cond
        BY <1>1 DEF Job, PodPhase
      <3>2. job' = [job EXCEPT ![n] = k] /\ deployed' = deployed /\ j.pod \in {"running", "acted"}
        BY <2>5 DEF PodFail, SetJob
      <3> HIDE DEF k
      <3>3. QED
        BY <1>1, <1>2, <3>1, <3>2
    <2>6. CASE JobFinish(n)
      <3> DEFINE d == IF j.pod = "succeeded" THEN "complete" ELSE "failed"
                 k == [j EXCEPT !.cond = d]
      <3>1. d \in {"complete", "failed"} /\ (d = "complete" => j.pod = "succeeded")
        OBVIOUS
      <3>2. job' = [job EXCEPT ![n] = k] /\ deployed' = deployed /\ j.pod \in {"succeeded", "failed"}
        BY <2>6 DEF JobFinish, SetJob
      <3> HIDE DEF d
      <3>3. k \in Job /\ k.pod = j.pod /\ k.cond = d /\ k.action = j.action
        BY <1>1, <3>1 DEF Job, Condition
      <3> HIDE DEF k
      <3>4. QED
        BY <1>1, <1>2, <3>1, <3>2, <3>3
    <2>7. CASE JobDeadline(n)
      <3> DEFINE k == [j EXCEPT !.cond = "failed", !.pod = "none"]
      <3>1. k \in Job /\ k.pod = "none" /\ k.cond = "failed" /\ k.action = j.action
        BY <1>1 DEF Job, PodPhase, Condition
      <3>2. job' = [job EXCEPT ![n] = k] /\ deployed' = deployed /\ j.uid # NoUid
            /\ j.pod # "succeeded"
        BY <2>7 DEF JobDeadline, SetJob, Exists
      <3> HIDE DEF k
      <3>3. QED
        BY <1>1, <1>2, <3>1, <3>2
    <2>8. CASE CollectJob(n)
      <3>1. job' = [job EXCEPT ![n] = NoJob] /\ deployed' = deployed
        BY <2>8 DEF CollectJob, SetJob
      <3>2. QED
        BY <1>2, <3>1, NoJobType
    <2>9. QED
      BY <2>1, <2>2, <2>3, <2>4, <2>5, <2>6, <2>7, <2>8 DEF ClusterStep
  <1>4. job'[n] = k /\ \A m \in JobName \ {n} : job'[m] = job[m]
    BY <1>3 DEF TypeOK
  <1>5. JobShape'
    BY <1>1, <1>3, <1>4 DEF AInv, JobShape
  <1>6. n # "base" => job'["base"] = job["base"] /\ deployed' = deployed
    BY <1>1, <1>3, <1>4 DEF JobName
  <1>7. ASSUME NEW p \in Proc
        PROVE  AloneOK(kb[p])'
    <2>1. PICK q \in Process : q = kb[p]
      BY DEF TypeOK
    <2>2. AloneOK(q)
      BY <2>1 DEF AInv
    <2>3. CASE n # "base"
      BY <1>1, <1>6, <2>1, <2>2, <2>3 DEF AloneOK, UninstallDeletes, DoneAsSeen, Acts, Requested, Mine
    <2>4. CASE n = "base"
      <3>1. ASSUME Acts(q), Mine(q) PROVE Mine(q)'
        BY <1>1, <1>2, <1>3, <1>4, <2>4, <3>1 DEF Acts, Requested, Mine
      <3>2. ASSUME DoneAsSeen(q) PROVE DoneAsSeen(q)'
        BY <1>2, <1>3, <1>4, <2>4, <3>2 DEF DoneAsSeen, Acts, Requested
      <3>3. QED
        BY <1>1, <2>1, <2>2, <3>1, <3>2 DEF AloneOK, UninstallDeletes, Acts
    <2>5. QED
      BY <2>3, <2>4
  <1>8. QED
    BY <1>5, <1>7 DEF AInv

LEMMA AloneCorrect == OneProcess => (Spec => []AInv)
  <1>1. Init => AInv
    BY ExitAlone DEF Init, AInv, JobShape, NoJob
  <1>2. ASSUME OneProcess PROVE Spec => []AInv
    <2>1. TypeOK /\ AInv /\ [Next]_vars => AInv'
      <3> SUFFICES ASSUME TypeOK, AInv, [Next]_vars PROVE AInv'
        OBVIOUS
      <3>1. ASSUME NEW s \in InstallSpec, Configure(s) PROVE AInv'
        BY <3>1 DEF Configure, AInv, JobShape, AloneOK, UninstallDeletes, DoneAsSeen, Acts, Requested, Mine
      <3>2. CASE UNCHANGED vars
        BY <3>2 DEF vars, AInv, JobShape, AloneOK, UninstallDeletes, DoneAsSeen, Acts, Requested, Mine
      <3>3. QED
        BY <1>2, <3>1, <3>2, StepAlone, OtherAlone, ClusterAlone DEF Next
    <2>2. QED
      BY <1>1, <2>1, TypeCorrect, PTL DEF Spec
  <1>3. QED
    BY <1>2

\* When one process runs at a time, whatever earlier commands were interrupted and
\* however often the install is edited: when the apply of a Deploy has succeeded, the
\* workloads are those of the spec that it read.
THEOREM DeployedIsRequested == OneProcess => (Spec => []DeployedAsRequested)
  <1>1. AInv => DeployedAsRequested
    BY DEF AInv, AloneOK, DoneAsSeen, Acts, Requested, DeployedAsRequested, Seen
  <1>2. ASSUME OneProcess PROVE Spec => []DeployedAsRequested
    <2>1. Spec => []AInv
      BY <1>2, AloneCorrect
    <2>2. QED
      BY <1>1, <2>1, PTL
  <1>3. QED
    BY <1>2

\* When one process runs at a time, an uninstall without --force that removes the
\* install leaves no workload behind.
THEOREM NothingIsOrphaned == OneProcess => (Spec => []NoOrphans)
  <1>1. TypeOK /\ IInv /\ AInv => NoOrphans
    <2> SUFFICES ASSUME TypeOK, IInv, AInv, NEW p \in Proc, kb[p].pc = "dropinstall",
                        kb[p].cmd = "uninstall"
                 PROVE  deployed = NoSpec
      BY DEF NoOrphans
    <2>1. kb[p].seenUid \in Nat /\ kb[p].since \in Nat /\ kb[p].seenUid > kb[p].since
      BY DEF TypeOK, Process, IInv, ProcessOK, Cleaning
    <2>2. kb[p].seenUid # NoUid
      BY <2>1 DEF NoUid
    <2>3. QED
      BY <2>2 DEF AInv, AloneOK, UninstallDeletes, DoneAsSeen, Acts, Requested
  <1>2. ASSUME OneProcess PROVE Spec => []NoOrphans
    <2>1. Spec => []AInv
      BY <1>2, AloneCorrect
    <2>2. QED
      BY <1>1, <2>1, TypeCorrect, InvCorrect, PTL
  <1>3. QED
    BY <1>2
=============================================================================
