SPECIFICATION FairPipeline
CONSTANTS
  Ids = {i1}
  Keys = {k1}
  Requests = {r1}
  Workers = {w1}
  Admins = {a1}
  NoId = NoId
  NoRow = NoRow
  NoKey = NoKey
  NoWorker = NoWorker
  MaxCopies = 1
  EarlyChoices = {FALSE}
  MaxRetries = 5
  MaxFaults = 0
PROPERTIES
  RetriesComeToAnEnd
CHECK_DEADLOCK FALSE
