SPECIFICATION MCSpec
CONSTANTS
  Logs = {chats, turns, queue}
  Journal = {}
  Lists = {queue}
  Creating = {chats}
  Inner = {turns}
  MaxEvents = 2
  Threshold = 3
  MaxCorruptions = 0
  NoFile = NoFile
  Corrupt = Corrupt
  CrashAt = {"starting", "running", "truncating"}
  Faults = {}
  WornLogs = {chats}
  WornEvents = 5
  WornCorruptions = 1
  WornFaults = {"torn", "corrupt"}
  Chats = {1, 2}
  Projects = {11, 12}
  MaxCalls = 3
  MaxTime = 2
  MaxAge = 1
  MaxStops = 1
  CardSubs = {s1, s2}
  MaxCardFaults = 1
  None = None
SYMMETRY Symmetry
INVARIANTS AckedSurvives TornCostsNextWorn EmptyIsEmpty Truthful
PROPERTIES ImplementsDurableLog RecoversFromBackupWorn RestartKeepsTheCatalog CardKeepsItsWord
CHECK_DEADLOCK FALSE
