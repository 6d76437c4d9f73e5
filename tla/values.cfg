\* Headers of up to 4 ranges, where the third overlap is refused, and of 5, which are too many;
\* forms with 2 entries of 2 at most.
CONSTANTS
  None = None
  Error = Error
  Junk = Junk
  Gap = Gap
  MaxRanges = 4
  PartHead = 2
  Headers <- RangeHeaders
  Lengths = {0, 1, 3, 6}
  Statuses <- UnsetOrNot
  Targets <- TargetTexts
  MountPoints <- Mounts
  Encodable <- EncodableTexts
  Contents <- FormContents
  ChunkMax = 3
  HeaderMax = 3
  MaxEntries = 2
SPECIFICATION Spec
INVARIANTS AskedBytesServed LengthIsTold DecodingInverts FilesStayInside RoutesMatch
INVARIANTS FieldsSurvive FormsRead ChunkingIrrelevant ConnectsAsConfigured
CHECK_DEADLOCK FALSE
