SPECIFICATION FairSpec
CONSTANTS
  Steps = {1, 2}
  PerStep = {1}
  Callers = {1}
  Runs = {1, 2, 3}
  Calls = 3
  Events = 2
  Policies = {"ask", "replace"}
  Circumstances = {}
CHECK_DEADLOCK FALSE
INVARIANTS
  RecoverySafety
PROPERTIES
  OverAsAsked
  ComesToItsEnd
