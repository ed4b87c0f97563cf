SPECIFICATION Spec
CONSTANTS
  Ids = {i1, i2, i3}
  Keys = {k1, k2}
  Requests = {r1, r2, r3}
  NoId = NoId
  NoRow = NoRow
  NoKey = NoKey
  MaxCopies = 2
  EarlyChoices = {FALSE}
SYMMETRY Symmetry
INVARIANTS
  TypeOK
  SameKeySameAnswer
  CachedKeyNamesItsRow
  QueuedOrExplained
PROPERTIES
  ImplementsPromise
CHECK_DEADLOCK FALSE
