SPECIFICATION Spec
CONSTANTS
  Symbols = {AAPL, MSFT}
  Processes = {p, q}
  Amounts = {2}
  InitialShares = {1, 2, 3}
  Tolerance = 1
  MaxRuns = 3
  Blank = Blank
  Garbled = Garbled
  NoOne = NoOne
  NoOrder = NoOrder
SYMMETRY Interchangeable
INVARIANTS
  TypeOK
  OverlappingRebalancesKeepBooks
  SurplusIsBookedOnce
PROPERTIES
  RebalanceSavesTruth
CHECK_DEADLOCK FALSE
