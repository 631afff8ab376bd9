SPECIFICATION Spec
CONSTANTS
  low = low
  high = high
  None = None
  Rungs <- MCRungs
  UseHls = FALSE
  Subtitles = TRUE
  Resumed = 0
  Length = 1
  MaxSessions = 2
  MaxSeeks = 1
  MaxSwitches = 1
  MaxReports = 1
SYMMETRY RungSymmetry
INVARIANTS ActiveNamesTheStream
PROPERTIES ResumesWhereLost
CHECK_DEADLOCK FALSE
