\* ResourceManager.Delete returns while the job is still there.
SPECIFICATION Spec
CONSTANTS
  p1 = p1
  p2 = p2
  s1 = s1
  s2 = s2
  bad = bad
  Proc = {p1}
  InstallSpec = {s1}
  ValidSpec = {s1}
  NoSpec = NoSpec
  Commands = {"deploy"}
  ShowLogs = FALSE
  MaxRuns = 2
  MaxConfigs = 0
PROPERTIES
  DeleteEnsured
\* The processes are commands: they end, and so does the behaviour.
CHECK_DEADLOCK FALSE
