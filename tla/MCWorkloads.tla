---------------------------- MODULE MCWorkloads -----------------------------
(* Instances of Workloads for TLC. *)
EXTENDS Workloads

CONSTANTS dep, sts, dst, ds, job, cron, kg, part, svc, odd, trio, quad, k1

MCKind ==
  [w \in Workload |->
     CASE w = dep -> "deployment" [] w \in {sts, dst, part, trio, quad} -> "statefulset"
       [] w = ds -> "daemonset" [] w = job -> "job" [] w = cron -> "cronjob"
       [] w = kg -> "kubegres" [] w = svc -> "service" [] OTHER -> "unknown"]
MCReplicas == [w \in Workload |-> IF w \in {dep, sts} THEN 2 ELSE IF w = quad THEN 4
                               ELSE IF w = trio THEN 3 ELSE 1]
MCRoom == [w \in Workload |-> IF w \in {trio, quad} THEN 2 ELSE 3]
MCPartition == [w \in Workload |-> IF w = part THEN 1 ELSE 0]
MCParts == [w \in Workload |-> IF w = kg THEN {part} ELSE {}]
MCSetups ==
  {<<l, {k1}>> : l \in {<<dep>>, <<sts>>, <<ds, svc, odd>>, <<job, cron, odd>>, <<dst>>, <<kg>>}}
  \cup {<<l, {"server"}>> : l \in {<<dep>>, <<trio>>, <<quad>>, <<ds>>, <<job, odd>>, <<cron>>, <<kg>>}}
=============================================================================
