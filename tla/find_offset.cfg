CONSTANTS
  t1 = t1
  t2 = t2
  v1 = v1
  v2 = v2
  Tables = {t1}
  Keys = {1, 2, 3, 4}
  Versions = {v1}
  NoRow = NoRow
  Literal <- Verbatim
  Unique = {}
  Refused = {}
  TrackedLists <- OneTable
  PageSize = 2
  BatchSize = 2
  MaxAttempts = 3
  IntMax = 7
  LocalOps = {"delete"}
  Faults = {}
SPECIFICATION Spec
INVARIANT StableRowsCopied
CHECK_DEADLOCK FALSE
