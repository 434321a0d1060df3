SPECIFICATION Spec
CONSTANTS
  Symbols <- TwoSymbols
  W = 8
  Band = 1
  MinTrade = 2
  Quantum = 2
  NoPrice = NoPrice
  Prices = {1, 2, 5}
  Cash = {0, 5, 12}
  Holdings = {0, 1, 4, 9}
  Indexes <- TwoIndexes
  MaxRuns = 2
INVARIANTS
  TypeOK
  PlanIsExecutable
  NoOvershoot
  PlanSettles
  DriftIsExplained
  OverspendIsBounded
CHECK_DEADLOCK FALSE
