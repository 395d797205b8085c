\* A client reading one row per page, by hash, by number and unpinned, while passes commit, history is trimmed and reorgs roll back.
SPECIFICATION Spec
CONSTANTS
  Texts <- MCTexts
  Lex <- MCLex
  Decimal <- MCDecimal
  Fold <- MCFold
  Hexish <- MCHexish
  Inside <- MCInside
  Schema <- MCSchema
  EntityLists <- MCEntityLists
  Listing <- MCListing
  HistoryLimit = 3
  MaxBlock = 3
  MaxPasses = 4
  MaxBlocksPerPass = 2
  Shapes = {"plain", "spread"}
  PageSize = 1
INVARIANTS
  PinnedByHash
  PinnedByNumber
  CurrentLoadSuffices
  OfferedFiltersMeanWhatTheySay
  RelationsAgree
CHECK_DEADLOCK FALSE
