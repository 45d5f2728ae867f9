\* A directory, a bucket and a list of files, used by two commands at a time.
SPECIFICATION Spec
CONSTANTS
  dir = dir
  bucket = bucket
  list = list
  strange = strange
  v1 = v1
  v2 = v2
  one = one
  rebuilt = rebuilt
  two = two
  ann = ann
  bob = bob
  Source = {dir, bucket, list, strange}
  Kind <- MCKind
  File = {one, rebuilt, two}
  VersionOf <- MCVersionOf
  Listed = {two}
  Version = {v1, v2}
  Size = 2
  Command = {ann, bob}
  Jobs <- MCJobs
  Hole = Hole
  None = None
  Latest = Latest
  MaxStart = 3
INVARIANTS
  TypeOK
  LatestEarned
  PublishSound
  GetWhole
  FirstMatch
SYMMETRY Symmetry
CHECK_DEADLOCK FALSE
