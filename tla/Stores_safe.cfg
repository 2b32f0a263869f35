SPECIFICATION StoresSpec
CONSTANTS
  Repos = {"r1", "r2"}
  Passes = {"p1", "p2"}
  Callers = {1}
  Calls = 5
  Events = 3
  Circumstances = {}
CHECK_DEADLOCK FALSE
INVARIANTS
  PassphraseSafety
  PreviewSafety
  TrashSafety
  SelectionSafety
PROPERTIES
  MovesWhole
