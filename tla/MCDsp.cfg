CONSTANTS
  NFlows = 2
  NKeys = 1
  Values = {v, d}
  Default = d
  Own = o
  Missing = Missing
SPECIFICATION FairSpec
INVARIANTS
  NoChangeForgotten
  StoredIsApplied
PROPERTIES
  DeliversLatest
