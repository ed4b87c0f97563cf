SPECIFICATION Spec
CONSTANTS
  i1 = i1
  i2 = i2
  Ids = {i1, i2}
  Keys = {k1}
  NoId = NoId
  NoRow = NoRow
  MaxCopies = 2
  Workers = {w1}
  NoWorker = NoWorker
  MaxRetries = 5
  MaxFaults = 0
  Backlogs <- TwoRecords
INVARIANTS
  CommittedIsProcessed
CHECK_DEADLOCK FALSE
