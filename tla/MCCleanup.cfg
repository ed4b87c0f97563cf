SPECIFICATION Spec
CONSTANTS
  Ids = {i1}
  Keys = {k1}
  DailyRuns = {d1}
  ManualRuns = {}
  Admins = {}
  BatchSize = 2
  NoId = NoId
  NoRow = NoRow
  MaxCopies = 1
INVARIANTS
  OldNotificationsAreArchived
CHECK_DEADLOCK FALSE
