SPECIFICATION BrowsingSpec
CONSTANTS
  Folders = {"docs", "home"}
  Start = "home"
  Histories <- TwoStories
  MaxArchives = 3
  Moves = 2
  Changes = 1
  Circumstances = {}
CHECK_DEADLOCK FALSE
INVARIANTS
  WindowSafety
  QuerySafety
