SPECIFICATION FairSpec
CONSTANTS
  Interval = 2
  Maintenance = {"Compact"}
  Every <- Rarely
  CatchUpWindow = 1
  UnexplainedBeforeCheck = 1
  Disturbances = 2
  Circumstances = {"destination", "calls", "suspend", "gates"}
PROPERTIES
  KeepsProtecting
  MaintainsForever
