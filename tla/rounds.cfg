\* 4 rows at most, as many as an unsigned int has values: offset overflows and goes round.
CONSTANTS
  v1 = v1
  v2 = v2
  Tables <- OneTable
  Keys = {1, 2, 3, 4}
  Versions = {v1}
  NoRow = NoRow
  Literal <- Verbatim
  Unique = {}
  Refused = {}
  PageSize = 1
  BatchSize = 1
  MaxAttempts = 2
  IntMax = 1
  LocalOps = {"insert"}
  Catalogs <- TwoCatalogs
  Configs <- Automatic
  Faults = {"list", "probe", "kill"}
  ChangeBatchSize = 2
SPECIFICATION FairSpec
INVARIANT CopyExplained
PROPERTY DoneMeansAllTables
PROPERTY RoundsEnd
