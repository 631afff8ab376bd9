SPECIFICATION FairSpec
CONSTANTS
  low = low
  high = high
  None = None
  Rungs <- MCRungs
  UseHls = FALSE
  Subtitles = TRUE
  Resumed = 1
  Length = 2
  MaxSessions = 1
  MaxSeeks = 1
  MaxSwitches = 0
  MaxReports = 1
PROPERTIES PositionSettles
CHECK_DEADLOCK FALSE
