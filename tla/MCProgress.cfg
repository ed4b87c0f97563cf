SPECIFICATION ProgressSpec
CONSTANTS
  Callers = {c1, c2}
  FailureThreshold = 3
  SuccessThreshold = 2
  Timeout = 2
  Documents = {"a", "b", "c"}
  WordsOf <- SmallWords
  SizeOf <- SmallSizes
  Scale = 12
  MinScore = 6
  Duplicate = 11
  Diversity = 4
  Overhead = 1
  MaxContext = 4
  Queries = {"q1", "q2"}
  Relevances <- OneRelevance
  HashOf <- OneHash
  TopK = 1
  MaxCached = 2
  Thresholds = {4, 8}
  Keyworded = {"b"}
  Boost = 14
  Rerankings <- OneReranking
  MaxChanges = 1
  MaxEntries = 2
INVARIANTS
  CountersFitState
PROPERTIES
  ImplementsAutomaton
  Recovers
  Trips
  SearchesCatchUp
