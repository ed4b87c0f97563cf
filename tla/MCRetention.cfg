SPECIFICATION FairSpec
CONSTANTS
  Ids = {i1, i2}
  Keys = {k1, k2}
  DailyRuns = {d1}
  ManualRuns = {m1}
  Admins = {a1}
  BatchSize = 2
  NoId = NoId
  NoRow = NoRow
  MaxCopies = 1
INVARIANTS
  InOneTableOrCleaned
PROPERTIES
  CopyIsCurrentUnlessRetried
  ArchiveIsFinal
  RunsEnd
CHECK_DEADLOCK FALSE
