SPECIFICATION Spec
CONSTANTS
  Symbols = {AAPL}
  Quantities = {1, 2}
  Costs = {1, 2}
  FirstSeq = 8
  MaxLots = 3
  MaxDay = 1
  MaxLoads = 2
  Torn = Torn
INVARIANTS
  TypeOK
  LotsIdentified
  SplitSalesCompose
  BasisIsPermanent
PROPERTIES
  SaleMinimisesGain
  CorrectionFollowsDates
  CountsShares
CHECK_DEADLOCK FALSE
