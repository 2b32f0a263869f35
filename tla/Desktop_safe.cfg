SPECIFICATION DesktopSpec
CONSTANTS
  Paths = {1, 2}
  Previews <- Plans
  Restores = {1, 2}
  Toggles = 1
  MaxJob = 4
  Restarts = 1
  Circumstances = {}
CHECK_DEADLOCK FALSE
INVARIANTS
  DesktopSafety
PROPERTIES
  StopsWhatRuns
  WaitingIsOver
