SPECIFICATION MCSpec
CONSTANTS
  Chats = {c1, c2}
  Threads = {t1}
  MaxRuns = 3
  MaxDetached = 1
  Pids = {p1, p2, p3}
  Root = p1
  MaxStarts = 3
  None = None
SYMMETRY Symmetry
INVARIANTS ThreadIsHandedOver StopsTheTree
PROPERTY StopTakesTools
CHECK_DEADLOCK FALSE
