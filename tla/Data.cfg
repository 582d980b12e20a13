SPECIFICATION MCSpec
CONSTANTS
  a = a
  b = b
  SymbolOrder <- TwoSymbols
  Turnovers = {0, 1, 2}
  StrategyError = StrategyError
  Lookback = 1
  InHour <- FromSecond
  Draw <- Rotated
  MaxSignals = 1
  MaxTime = 3
  MaxRows = 3
  Own = Own
  Other = Other
  Intervals = {1, 2}
  SessionMinutes = 2
  Days = {1, 2}
  Minutes = {0, 1, 2}
  MaxPanel = 4
  Sources = {s1, s2}
  MaxVersions = 4
  LastDay = 6
  Nets <- MCNets
  Unit = 420
  Closes <- MCCloses
  Unknown = Unknown
  NoAnswer = NoAnswer
INVARIANTS ReplayRepeats RepeatedRowIsNoticed CleanMeansWhole ServedWasInPlace VerdictCountsSessions FeasibleLeavesATick
CHECK_DEADLOCK FALSE
