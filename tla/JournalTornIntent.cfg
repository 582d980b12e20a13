SPECIFICATION JSpec
SYMMETRY Symmetry
CONSTANTS
  OrderIds = {o1, o2}
  Symbols = {s1}
  Keys = {k1}
  k1 = k1
  s1 = s1
  NewOrders <- MCNewOrders
  Quotes <- MCQuotes
  Executions = {}
  Lot = 1
  InitialCash = 3
  EnforceCash = TRUE
  NoOrder = NoOrder
  NoKey = NoKey
  NoLimit = NoLimit
  NoSymbol = NoSymbol
  Cut = Cut
  SplitChar = SplitChar
  MaxFaults = 2
INVARIANTS PlacedIsRemembered
CHECK_DEADLOCK FALSE
