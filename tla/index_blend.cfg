SPECIFICATION Spec
CONSTANTS
  AAPL = AAPL
  MSFT = MSFT
  BRK_B = BRK_B
  Symbols = {AAPL, MSFT, BRK_B}
  Dotted = {BRK_B}
  CashLine = CashLine
  Blank = Blank
  Empty = Empty
  Absent = Absent
  Bad = Bad
  Unreadable = Unreadable
  NoHeader = NoHeader
  Failed = Failed
  Names = {"a", "b"}
  Files <- ShortFiles
  Configs <- TwoIndexes
  W = 4
  Epsilon = 0
INVARIANTS
  TypeOK
  TargetsAddUp
  TargetsMatchListings
  UnitOfWeightsIsIrrelevant
CHECK_DEADLOCK FALSE
