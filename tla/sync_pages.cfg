\* 3 rows at most: a page of two batches, one of one, and an offset that overflows with the 2nd page.
\* A health check that spoils statements can do what a failing statement or a lost answer does.
CONSTANTS
  t1 = t1
  t2 = t2
  v1 = v1
  v2 = v2
  Tables = {t1}
  Keys = {1, 2, 3}
  Versions = {v1, v2}
  NoRow = NoRow
  Literal <- Garbled
  Unique = {v1}
  Refused = {}
  TrackedLists <- OneTable
  PageSize = 2
  BatchSize = 1
  MaxAttempts = 2
  IntMax = 2
  LocalOps = {"insert", "update", "delete"}
  Faults = {"select", "insert", "race"}
SPECIFICATION FairSpec
INVARIANT TypeOK
INVARIANT MissingRowExplained
INVARIANT PassedRowsCovered
PROPERTY ImplementsOneWayCopy
PROPERTY SyncEnds
CHECK_DEADLOCK FALSE
