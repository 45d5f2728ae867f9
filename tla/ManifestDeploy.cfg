\* Three bundles that require each other in any way; one has two installs.
SPECIFICATION Spec
CONSTANTS
  a = a
  b = b
  c = c
  x = x
  Bundle = {a, b, c}
  Suffix = {NoSuffix, x}
  NoSuffix = NoSuffix
  NoInstall = NoInstall
  AppRequirement <- Mixed
  ManifestRequirement <- OfC
INVARIANTS
  TypeOK
  DepsFirst
  SolverRight
  Complete
\* The command ends.
CHECK_DEADLOCK FALSE
