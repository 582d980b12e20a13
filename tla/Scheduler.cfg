SPECIFICATION FairSpec
CONSTANTS
  open_scan = open_scan
  report = report
  Keys = {open_scan, report}
  Table <- SameMinute
  Loops = {l1}
  Operators = {o1}
  MinutesPerDay = 2
  Weekend = {1}
  Prompt = TRUE
  Polls = 2
  MaxClock = 3
  MaxManual = 1
  MaxKills = 1
  MaxFailures = 1
INVARIANTS FiresOncePerDay RunsAreMarked
PROPERTIES AttendedMinuteFires StopEndsLoop
CHECK_DEADLOCK FALSE
