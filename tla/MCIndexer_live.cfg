SPECIFICATION FairSpec
CONSTANTS
  factory = factory
  pool = pool
  StaticSources <- MCSources
  Contents <- FactoryBodies
  FromArgs <- OptFrom
  ToArgs <- NoneOnly
  ResetArgs = {FALSE}
  WatchArgs = {TRUE}
  Policies = {"reset"}
  Limit = 5
  HistoryLimit = 2
  ReorgCheckDepth = 2
  MaxBlocksPerPass = 2
  MaxHead = 2
  MaxReorgs = 1
  MaxReorgDepth = 2
  ReorgDuringPass = TRUE
  MaxHeadLag = 0
  HashFaults = FALSE
  MaxFaults = 1
PROPERTIES
  CatchesUp
