\* Passes of one block; reorgs between passes; restarts; an RPC one block behind.
SPECIFICATION Spec
CONSTANTS
  factory = factory
  pool = pool
  StaticSources <- MCSources
  Contents <- EarlyBodies
  FromArgs <- ZeroOnly
  ToArgs <- NoneOnly
  ResetArgs = {FALSE, TRUE}
  WatchArgs = {FALSE}
  Policies = {"fail", "rollback", "reset"}
  Limit = 5
  HistoryLimit = 3
  ReorgCheckDepth = 3
  MaxBlocksPerPass = 1
  MaxHead = 2
  MaxReorgs = 2
  MaxReorgDepth = 2
  ReorgDuringPass = FALSE
  MaxHeadLag = 1
  HashFaults = FALSE
  MaxFaults = 1
INVARIANTS
  TypeOK
  CheckpointCertifiesStore
  HistoryCertifiesStore
  HistoryWellFormed
PROPERTIES
  CheckpointRegressesOnlyOnReorg
