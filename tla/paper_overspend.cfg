SPECIFICATION Spec
CONSTANTS
  Symbols <- ThreeSymbols
  W = 10
  Band = 1
  MinTrade = 0
  Quantum = 1
  NoPrice = NoPrice
  Prices = {1}
  Cash = {0}
  Holdings = {6, 7}
  Indexes <- OneIndex
  MaxRuns = 1
INVARIANTS
  ProceedsFundBuys
CHECK_DEADLOCK FALSE
