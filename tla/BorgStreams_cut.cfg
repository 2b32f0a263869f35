SPECIFICATION Spec
CONSTANTS
  Units = 3
  Pipe = 2
  Channel = 1
  Circumstances = {"cut"}
CHECK_DEADLOCK FALSE
INVARIANT CommittedIsWhole
