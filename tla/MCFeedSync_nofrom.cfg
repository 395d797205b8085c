SPECIFICATION MCSpec
CONSTANTS
  fs = fs
  p1 = p1
  p2 = p2
  d = d
  r = r
  factory = factory
  pool = pool
  topic = topic
  Readers = {d}
  Deployer = d
  Subs = {fs, p1, p2}
  SubAddr <- MCAddr
  SubFrom <- MCFrom
  SubRank <- MCRank
  Manifest <- MCManifest
  Registrations <- MCRegistrations
  ReaderFroms <- NoneOnly
  ReaderTos <- NoneOnly
  FromArgs <- NoneOnly
  ResetArgs = {FALSE}
  MaxPasses = 2
  Limit = 5
  MaxDeploys = 1
  Contents <- DeployBodies
  MaxHead = 2
  MaxReorgs = 0
  MaxReorgDepth = 1
  HashFaults = FALSE
  MaxFaults = 0
INVARIANTS
  CompleteMeansIndexedAlways
CHECK_DEADLOCK FALSE
