SPECIFICATION SessionSpec
CONSTANTS
  a = a
  b = b
  OrderIds <- Ids
  Symbols <- TwoSymbols
  Keys <- Intents
  NewOrders = {}
  Quotes = {}
  Executions = {}
  Lot = 10
  InitialCash = 40100
  EnforceCash = TRUE
  NoOrder = NoOrder
  NoKey = NoKey
  NoLimit = NoLimit
  NoSymbol = NoSymbol
  Panels <- Replayable
  NoBar = NoBar
  SessionEnd = 3
  LastTime = 4
  Cadence = 1
  Notional = 2000
  MaxRuns = 1
INVARIANT LiquidationIsNotStopped
CHECK_DEADLOCK FALSE
