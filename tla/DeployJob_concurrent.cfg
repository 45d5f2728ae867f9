\* Two processes at once, and an edit of the install in between.
SPECIFICATION Spec
CONSTANTS
  p1 = p1
  p2 = p2
  s1 = s1
  s2 = s2
  bad = bad
  Proc = {p1, p2}
  InstallSpec = {s1, bad}
  ValidSpec = {s1}
  NoSpec = NoSpec
  Commands = {"deploy", "uninstall"}
  ShowLogs = FALSE
  MaxRuns = 1
  MaxConfigs = 1
SYMMETRY Symmetry
INVARIANTS
  FreshVerdict
  UninstallEarned
  OnlyValidDeployed
\* The processes are commands: they end, and so does the behaviour.
CHECK_DEADLOCK FALSE
