SPECIFICATION Spec
CONSTANTS
  i1 = i1
  i2 = i2
  Ids = {i1, i2}
  Keys = {k1}
  NoId = NoId
  NoRow = NoRow
  MaxCopies = 2
  Workers = {w1, w2}
  NoWorker = NoWorker
  MaxRetries = 5
  MaxFaults = 1
  Backlogs <- TwoRecords
SYMMETRY Symmetry
INVARIANTS
  TypeOK
  CommittedIsSettled
  RecordedWasSent
  FailedIsKept
  DuplicatesHaveACause
PROPERTIES
  RecordedIsNotResent
CHECK_DEADLOCK FALSE
