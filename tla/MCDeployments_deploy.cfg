\* Every command and request, with revocations, lost keys and failures.
SPECIFICATION Spec
CONSTANTS
  u1 = u1
  u2 = u2
  k1 = k1
  k2 = k2
  r1 = r1
  r2 = r2
  NoOne = NoOne
  NoLabel = NoLabel
  Users = {u1, u2}
  Keys = {k1, k2}
  Versions = {"v1", "v2"}
  Requests = {r1, r2}
  Inputs <- MCInputs
  InitialRoles <- MCRoles
  InitialKeys <- OneKey
  DeployAuthMode = "owner"
  MaxStarts = 3
  MaxAdmin = 1
SYMMETRY RequestSymmetry
INVARIANTS
  TypeOK
  LatestAnswered
  RevokedKeyPromotesNothing
PROPERTIES
  ClaimNeverLost
CHECK_DEADLOCK FALSE
