SPECIFICATION MCSpec
CONSTANTS
  Clients = {a, b}
  MaxTurns = 2
  MaxAsks = 2
  MaxSteers = 1
  MaxSpawns = 2
  MaxPrompts = 3
  MaxSessions = 2
  MaxUpdates = 2
  MaxUserTurns = 2
  MaxFaults = 2
  MaxTransitions = 2
  MaxOrdinary = 1
  CLIs = {c1, c2}
  MaxInstalls = 3
  MaxKills = 1
  MaxUpsets = 1
  None = None
  Partial = Partial
INVARIANTS OverIsOver QuestionIsAsked NoHiddenWork DataIsSafe InstallationIsWhole InstallsAlone
PROPERTIES RequestsSettle TurnEnds OutcomeIsFinal UpdateSettles
CHECK_DEADLOCK FALSE
