\* Two builds; or a build and a command on the registry; or two such commands.
SPECIFICATION Spec
CONSTANTS
  web = web
  db = db
  alt = alt
  hand = hand
  base = base
  copy = copy
  webDeploy = webDeploy
  dbDeploy = dbDeploy
  baseTag = baseTag
  webTag = webTag
  dbTag = dbTag
  n1 = n1
  n2 = n2
  p1 = p1
  p2 = p2
  b1 = b1
  b2 = b2
  k1 = k1
  k2 = k2
  None = None
  Part = Part
  App = {web, db, alt, hand}
  Image = {base, copy, webDeploy, dbDeploy}
  AllImages <- MCAllImages
  Tag = {baseTag, webTag, dbTag}
  Target <- MCTarget
  Repository <- MCRepository
  Builder = {b1, b2}
  Handmade = {hand}
  MaxBuild = 2
  Node = {n1, n2}
  Pod = {p1, p2}
  NodeOf <- MCNodeOf
  Local = n1
  Command = {k1, k2}
  Jobs <- MCJobs
  Attempts = 2
  MaxStart = 3
  Setups <- MCSetups
INVARIANTS
  TypeOK
  BuildSound
  OwnImages
  Resumable
  Emptied
  ImportSound
  Delivered
SYMMETRY Symmetry
CHECK_DEADLOCK FALSE
