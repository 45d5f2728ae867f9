\* One install of each kind of workload, one Wait at a time.
SPECIFICATION FairSpec
CONSTANTS
  dep = dep
  sts = sts
  dst = dst
  ds = ds
  job = job
  cron = cron
  kg = kg
  part = part
  svc = svc
  odd = odd
  trio = trio
  quad = quad
  k1 = k1
  Workload = {dep, sts, dst, ds, job, cron, kg, part, svc, odd, trio, quad}
  Kind <- MCKind
  Replicas <- MCReplicas
  Room <- MCRoom
  Partition <- MCPartition
  OnDelete = {dst}
  Parts <- MCParts
  Completions = 1
  Parallelism = 2
  Setups <- MCSetups
  Waiter = {k1}
  MaxGen = 2
INVARIANTS
  TypeOK
  WaitSound
PROPERTIES
  StatusConverges
