SPECIFICATION LiveSpec
CONSTANTS
  Reqs = {q1, q2, q3}
  MaxRuns = 3
  StartedMemory = 50
  TailLag = FALSE
  StopWindow = FALSE
PROPERTIES EnqueuedDrains RequestsReturn
CHECK_DEADLOCK FALSE
