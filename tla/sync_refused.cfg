\* 4 rows at most: a full batch, one that is not, and a second page.
CONSTANTS
  t1 = t1
  t2 = t2
  v1 = v1
  v2 = v2
  Tables = {t1}
  Keys = {1, 2, 3, 4}
  Versions = {v1, v2}
  NoRow = NoRow
  Literal <- Verbatim
  Unique = {}
  Refused = {v2}
  TrackedLists <- OddLists
  PageSize = 3
  BatchSize = 2
  MaxAttempts = 3
  IntMax = 6
  LocalOps = {}
  Faults = {"link"}
SPECIFICATION Spec
INVARIANT LossStaysInBatch
CHECK_DEADLOCK FALSE
