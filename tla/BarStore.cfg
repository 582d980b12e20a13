SPECIFICATION Spec
CONSTANTS
  f1 = f1
  f2 = f2
  f3 = f3
  t1 = t1
  t2 = t2
  x = x
  y = y
  minutes = minutes
  days = days
  FileOrder <- ThreeFiles
  Directory <- TwoIntervals
  Stamps = {t1, t2}
  Bars = {x, y}
  NoBar = NoBar
  Batches <- MCBatches
  Procs = {p1, p2}
  Nobody = Nobody
  NoBatch = NoBatch
INVARIANTS CountIsExact AppendedIsDurable
PROPERTY MergesOnly
CHECK_DEADLOCK FALSE
