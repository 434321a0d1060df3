SPECIFICATION Spec
CONSTANTS
  Symbols = {AAPL}
  Amounts = {1, 2}
  InitialShares = {1}
  Tolerance = 1
  MaxRuns = 2
  MaxMoves = 1
  Torn = Torn
  NoAccount = NoAccount
  NoOrder = NoOrder
INVARIANT NeverAsksForMoreThanHeld
CHECK_DEADLOCK FALSE
