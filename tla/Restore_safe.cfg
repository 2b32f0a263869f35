SPECIFICATION RestoresSpec
CONSTANTS
  Paths = {1}
  Jobs = {1, 2}
  Tasks = {1, 2, 3}
  LastSecond = 2
  Events = 1
  KeepFor = 1
  Grace = 1
  MaxFiles = 1
  Folders = {1}
  Circumstances = {}
CHECK_DEADLOCK FALSE
INVARIANTS
  RestoreSafety
PROPERTIES
  DoneAndUndone
  GraceCoversTheRestore
