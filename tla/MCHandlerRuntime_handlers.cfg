SPECIFICATION Spec
CONSTANTS
  main = main
  pool = pool
  c1 = c1
  c2 = c2
  Ids <- MCIds
  LowerCase <- MCLower
  EntityType <- MCEntityType
  Payloads <- MCPayloads
  Main = main
  Pools = {pool}
  Contexts = {c1, c2}
  Answers = {"one", "two", "short"}
  Undecodable = {"short"}
  MaxCalls = 2
  MaxLogs = 3
  MaxBuilds = 2
INVARIANTS
  StoreIsAcceptedWrites
  StoreWellTyped
  CallsAgreeInBlock
  ContextIsFirst
  OneBuildPerPass
CHECK_DEADLOCK FALSE
