SPECIFICATION FairPipeline
CONSTANTS
  Ids = {i1}
  Keys = {k1}
  Requests = {r1}
  Workers = {w1, w2}
  Admins = {a1}
  NoId = NoId
  NoRow = NoRow
  NoKey = NoKey
  NoWorker = NoWorker
  MaxCopies = 1
  EarlyChoices = {TRUE}
  MaxRetries = 5
  MaxFaults = 1
INVARIANTS
  NoWorkWithoutRow
  ResetRowsAreSettled
PROPERTIES
  CreatedSettles
CHECK_DEADLOCK FALSE
