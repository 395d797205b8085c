\* Two indexers and a reader; one-block passes, rollbacks, --reset, crashes.
SPECIFICATION Spec
CONSTANTS
  EntityMaps <- MCEntityMaps
  LegacyHistory <- MCLegacyHistory
  Sources = {}
  LogsPerBlock = 1
  MaxBlock = 2
  MaxSpan = 1
  HistoryLimit = 2
  Policies = {"rollback"}
  Indexers = {i1, i2}
  Readers = {"r"}
  ReadKinds = {"current"}
  LegacyForms = {"none", "json", "snapshot", "delta"}
  ResetArgs = {FALSE, TRUE}
  MaxWrites = 2
SYMMETRY IndexerSymmetry
INVARIANTS
  TrailReplays
  TimelineComplete
  MetaIsLowerBound
PROPERTIES
  PassOverStored
  ImplementsRegister
CHECK_DEADLOCK FALSE
