SPECIFICATION Spec
CONSTANTS
  Logs = {chats, turns, answers}
  Journal = {answers}
  Lists = {}
  Creating = {chats}
  Inner = {turns}
  MaxEvents = 2
  Threshold = 3
  MaxCorruptions = 0
  NoFile = NoFile
  Corrupt = Corrupt
  CrashAt = {"archiving", "publishing"}
  Faults = {}
INVARIANT AckedSurvives
CHECK_DEADLOCK FALSE
