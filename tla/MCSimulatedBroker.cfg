SPECIFICATION Spec
SYMMETRY Symmetry
CONSTANTS
  OrderIds = {o1, o2, o3}
  Symbols = {s1, s2}
  s1 = s1
  s2 = s2
  Keys = {k1}
  k1 = k1
  NewOrders <- MCNewOrders
  Quotes <- MCQuotes
  Executions <- MCExecutions
  Lot = 1
  InitialCash = 4
  EnforceCash = TRUE
  NoOrder = NoOrder
  NoKey = NoKey
  NoLimit = NoLimit
  NoSymbol = NoSymbol
INVARIANTS StateMatchesFilled OneOrderPerIntent SharesCovered CashCovered BooksAgree PoolNotOversold TimePriority
PROPERTIES TerminalIsFinal NoNewRisk
CHECK_DEADLOCK FALSE
