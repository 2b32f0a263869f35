SPECIFICATION Spec
CONSTANTS
  MaxJobs = 2
  MaxCalls = 4
  Client = {c1, c2}
  Calls <- AllCalls
  Workload <- EveryKindOfWork
SYMMETRY ClientSymmetry
CHECK_DEADLOCK FALSE
INVARIANTS
  TypeOK
  RepoExclusion
  NoLostWakeup
  RunningHasRun
  StartedOnce
  CancelReachesRun
PROPERTIES
  LockSpec
