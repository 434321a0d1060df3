SPECIFICATION Spec
CONSTANTS
  Symbols = {AAPL}
  Amounts = {1, 2}
  InitialShares = {1}
  Tolerance = 0
  MaxRuns = 2
  MaxMoves = 0
  Torn = Torn
  NoAccount = NoAccount
  NoOrder = NoOrder
INVARIANT PartialFillsStayInSync
CHECK_DEADLOCK FALSE
