SPECIFICATION IbkrFairSpec
CONSTANTS
  Symbols = {AAPL}
  Amounts = {1, 2}
  InitialShares = {1}
  Tolerance = 1
  MaxRuns = 2
  MaxMoves = 0
  OtherItems = {2, 4}
  Torn = Torn
  NoAccount = NoAccount
  NoOrder = NoOrder
  NoItem = NoItem
INVARIANTS
  AdapterTypeOK
  OnlyLateReportsAreMissing
  MisreadAccountIsNotTraded
PROPERTIES
  ImplementsSession
  CommandsEndOrAwaitAReply
  TimedOutOrdersStop
CHECK_DEADLOCK FALSE
