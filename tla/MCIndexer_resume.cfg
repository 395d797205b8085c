SPECIFICATION Spec
CONSTANTS
  factory = factory
  pool = pool
  StaticSources <- MCSources
  Contents <- ErrorBodies
  FromArgs <- ZeroOnly
  ToArgs <- NoneOnly
  ResetArgs = {FALSE}
  WatchArgs = {FALSE}
  Policies = {"rollback"}
  Limit = 1
  HistoryLimit = 2
  ReorgCheckDepth = 2
  MaxBlocksPerPass = 2
  MaxHead = 3
  MaxReorgs = 0
  MaxReorgDepth = 1
  ReorgDuringPass = FALSE
  MaxHeadLag = 0
  HashFaults = FALSE
  MaxFaults = 1
INVARIANTS
  CheckpointCertifiesStore
  PartialPassIsPrefix
  HistoryWellFormed
