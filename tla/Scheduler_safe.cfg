SPECIFICATION Spec
CONSTANTS
  Interval = 2
  Maintenance = {"Compact", "Check"}
  Every <- Rarely
  CatchUpWindow = 1
  UnexplainedBeforeCheck = 1
  Disturbances = 2
  Circumstances = {"destination", "gates", "pause", "calls", "recovery", "suspend", "restart", "failures", "seconds", "delays"}
INVARIANTS
  ScheduleSafety
PROPERTIES
  LoopKeepsItsInterval
