SPECIFICATION Spec
CONSTANTS
  Logs = {chats, turns, answers}
  Journal = {answers}
  Lists = {}
  Creating = {chats}
  Inner = {turns}
  MaxEvents = 2
  Threshold = 3
  MaxCorruptions = 0
  NoFile = NoFile
  Corrupt = Corrupt
  CrashAt = {}
  Faults = {}
INVARIANT AnswersSurvive
CHECK_DEADLOCK FALSE
