CONSTANTS
  Values = {loud}
  Bad = Bad
  Missing = Missing
  Unknown = Unknown
  Gains = 2
  Requests <- MCRequests
  MaxCalls = 2
  Faults = {FALSE, TRUE}
SPECIFICATION FairSpec
INVARIANTS
  BackAtControlPort
  ChipHoldsSettings
PROPERTIES
  GetsRestored
CHECK_DEADLOCK FALSE
