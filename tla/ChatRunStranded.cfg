SPECIFICATION LiveSpec
CONSTANTS
  Reqs = {q1, q2}
  MaxRuns = 2
  StartedMemory = 50
  TailLag = TRUE
  StopWindow = TRUE
PROPERTIES QueueDrains
CHECK_DEADLOCK FALSE
