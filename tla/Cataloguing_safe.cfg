SPECIFICATION StoresSpec
CONSTANTS
  Largest = 8
  p = p
  q = q
  x = x
  y = y
  i1 = i1
  i2 = i2
  Path = {p, q}
  Content = {x, y}
  MaxArchives = 4
  Indexer = {i1}
  Kinds = {"Backup", "Offline"}
  Circumstances = {}
  Newcomers = 0
  SnapperScope = {}
CHECK_DEADLOCK FALSE
INVARIANTS
  OrderSafety
  WaitingSafety
  CapSafety
PROPERTIES
  IndexLeavesNothing
  ClockStartsOnce
  DropsOnlyWhatIsGone
