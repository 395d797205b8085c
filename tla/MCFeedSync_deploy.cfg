SPECIFICATION MCSpec
CONSTANTS
  fs = fs
  p1 = p1
  p2 = p2
  d = d
  r = r
  factory = factory
  pool = pool
  topic = topic
  Readers = {d, r}
  Deployer = d
  Subs = {fs, p1, p2}
  SubAddr <- MCAddr
  SubFrom <- MCFrom
  SubRank <- MCRank
  Manifest <- MCManifest
  Registrations <- MCRegistrations
  ReaderFroms <- ZeroOnly
  ReaderTos <- NoneOnly
  FromArgs <- ZeroOnly
  ResetArgs = {FALSE, TRUE}
  MaxPasses = 2
  Limit = 9
  MaxDeploys = 2
  Contents <- DeployBodies
  MaxHead = 2
  MaxReorgs = 0
  MaxReorgDepth = 1
  HashFaults = FALSE
  MaxFaults = 1
INVARIANTS
  CompleteMeansIndexed
  NoLogExecutedTwice
  DeployCompletes
  GrowthInv
CHECK_DEADLOCK FALSE
