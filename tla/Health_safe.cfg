SPECIFICATION FairSpec
CONSTANTS
  Failures = {"PassphraseMissing", "DestinationFull"}
  AtRiskAfter = 1
  AtRiskSecond = 3
  AtRiskRepeat = 2
  BrokenRepeat = 2
  Buffer = 1
  Callers = {1}
  LastTime = 4
  Ends = 2
  Events = 2
  Circumstances = {}
CHECK_DEADLOCK FALSE
INVARIANTS
  HealthSafety
PROPERTIES
  NoticesKeepTheirDistance
  ClientsHear
