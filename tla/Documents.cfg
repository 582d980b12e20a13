SPECIFICATION MCSpec
CONSTANTS
  Procs = {p1, p2, p3}
  Changes = {c1, c2, c3}
  Nobody = Nobody
  NoChange = NoChange
  Hypotheses = {h1, h2, h3}
  Writers = {w1, w2}
  Nothing = Nothing
  Absent = Absent
  Emptied = Emptied
  Garbled = Garbled
INVARIANTS NoUpdateLost CountIsNotUnderstated OneVerdictEach
PROPERTY IsAtomic
CHECK_DEADLOCK FALSE
