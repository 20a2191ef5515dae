SPECIFICATION Spec
CONSTANTS
  Reqs = {q1, q2, q3}
  MaxRuns = 2
  StartedMemory = 50
  TailLag = TRUE
  StopWindow = TRUE
PROPERTIES EscConfirms
CHECK_DEADLOCK FALSE
