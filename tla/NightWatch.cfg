SPECIFICATION FairSpec
CONSTANTS
  N = 2
  Day = 4
  Interval = 2
  ResetBuffer = 1
  ResumeBuffer = 2
  Windows <- MCWindows
  Slots = {1, 2}
  Attended = {1}
  MaxChanges = 2
  None = None
INVARIANTS PausesStayInNight
PROPERTIES StartsInNight StoppedStaysQuiet NightWorkStarts
