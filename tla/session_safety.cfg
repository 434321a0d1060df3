SPECIFICATION Spec
CONSTANTS
  Symbols = {AAPL, MSFT}
  Amounts = {1, 2}
  InitialShares = {1}
  Tolerance = 1
  MaxRuns = 2
  MaxMoves = 1
  Torn = Torn
  NoAccount = NoAccount
  NoOrder = NoOrder
SYMMETRY Interchangeable
INVARIANTS
  TypeOK
  CompletedRunKeepsBooks
  OnlyLastFillCanBeLost
  SalesCoveredWithinTolerance
  CleanRunStaysInSync
  ReconcileIsAllOrNothing
PROPERTIES
  OrdersFollowSavedBooks
  UsesShareLedger
CHECK_DEADLOCK FALSE
