SPECIFICATION Spec
CONSTANTS
  open_scan = open_scan
  report = report
  Keys = {open_scan}
  Table <- OneJob
  Loops = {l1, l2}
  Operators = {}
  MinutesPerDay = 2
  Weekend = {}
  Prompt = TRUE
  Polls = 2
  MaxClock = 1
  MaxManual = 2
  MaxKills = 0
  MaxFailures = 0
INVARIANT FiresOncePerDay
CHECK_DEADLOCK FALSE
