SPECIFICATION DaemonSpec
CONSTANTS
  MaxJobs = 2
  MaxCalls = 3
  Client = {c1}
  Calls <- PauseResume
  Workload <- WriterAndRecovery
  Procs = {1, 2}
  Supervised = {1}
  LostIsRestarted = TRUE
  Jobs = 2
  Starts = 3
  Events = 2
  Happenings = {}
  Units = 3
  Pipe = 2
  Channel = 1
  Troubles = {}
CHECK_DEADLOCK FALSE
INVARIANTS
  ProcessSafety
PROPERTIES
  RunningEnds
  QueuedMoves
  ComesBack
