\* One process at a time: two commands, each of which may crash, with --show-logs.
SPECIFICATION FairSpec
CONSTANTS
  p1 = p1
  p2 = p2
  s1 = s1
  s2 = s2
  bad = bad
  Proc = {p1}
  InstallSpec = {s1, s2, bad}
  ValidSpec = {s1, s2}
  NoSpec = NoSpec
  Commands = {"deploy", "smoketest", "diff", "uninstall", "uninstall --force"}
  ShowLogs = TRUE
  MaxRuns = 2
  MaxConfigs = 2
INVARIANTS
  TypeOK
  DeployedAsRequested
  
PROPERTIES
  Terminates
\* The processes are commands: they end, and so does the behaviour.
CHECK_DEADLOCK FALSE
