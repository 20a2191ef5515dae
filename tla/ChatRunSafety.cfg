SPECIFICATION Spec
CONSTANTS
  Reqs = {q1, q2, q3, q4}
  MaxRuns = 2
  StartedMemory = 50
  TailLag = TRUE
  StopWindow = TRUE
SYMMETRY Symmetry
INVARIANTS NoRunForgotten SentOnce EscHolds
PROPERTIES NothingLost CommandsKeepTheirWord
CHECK_DEADLOCK FALSE
