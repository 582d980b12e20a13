SPECIFICATION Spec
CONSTANTS
  job = job
  item = item
  other = other
  share = 1
  fund = 2
  JobKeys <- Table
  PerDay = 1
  MaxAge = 1
  SilenceDays = 2
  Window = 2
  Ratio <- Half
  General = General
  Cut = Cut
  SplitChar = SplitChar
  p1 = p1
  p2 = p2
  Procs = {p1, p2}
  FireAt <- AtFirst
  Levels = {3, 4}
  MinLevel = 4
  CaptureFrom = 4
  Events = {e1}
  Idle = Idle
  Results = {"OK", "UNDECIDABLE"}
  Earlier <- MCEarlier
  MaxTime = 3
  MaxFaults = 1
  States <- MCStates
  Acks <- MCAcks
INVARIANTS HiddenLossHasItsCause UnsuccessfulJobIsReported TriageOnlyReorders LossesAreCounted
SYMMETRY Alike
CHECK_DEADLOCK FALSE
