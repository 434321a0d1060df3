SPECIFICATION Spec
CONSTANTS
  AAPL = AAPL
  MSFT = MSFT
  Symbols <- TwoSymbols
  Amounts <- OneOrTwo
  InitialShares = {2}
  Prices = {2, 3}
  InitialCash = {5}
  Tolerance = 1
  MaxRuns = 3
  Torn = Torn
  NoPrice = NoPrice
  NoTrade = NoTrade
INVARIANTS
  TypeOK
  CrashesDoNotAddUp
  WorthIsConserved
PROPERTIES
  DamageIsNotOverwritten
CHECK_DEADLOCK FALSE
