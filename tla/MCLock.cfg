SPECIFICATION Spec
CONSTANTS
  Ids = {i1}
  Keys = {k1}
  DailyRuns = {d1, d2}
  ManualRuns = {}
  Admins = {}
  BatchSize = 2
  NoId = NoId
  NoRow = NoRow
  MaxCopies = 1
INVARIANTS
  OneInstanceAtATime
CHECK_DEADLOCK FALSE
