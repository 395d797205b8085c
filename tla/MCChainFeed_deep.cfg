SPECIFICATION Spec
CONSTANTS
  s1 = s1
  s2 = s2
  r1 = r1
  r2 = r2
  contract = contract
  transfer = transfer
  Readers = {r1}
  Subs = {s1, s2}
  SubAddr <- MCAddr
  SubFrom <- MCFrom
  SubRank <- MCRank
  Registrations <- MCRegistrations
  ReaderFroms <- NoneOnly
  ReaderTos <- NoneOnly
  Contents <- MCBodies
  MaxHead = 2
  MaxReorgs = 1
  MaxReorgDepth = 2
  HashFaults = FALSE
  MaxFaults = 0
INVARIANTS
  FeedCertifiesLogs
