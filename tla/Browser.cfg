SPECIFICATION MCSpec
CONSTANTS
  Clients = {a, b}
  Subs = {x, y}
  MaxLog = 2
  MaxMeta = 0
  MaxInFlight = 1
  MaxFaults = 1
  Window = 1
  Slots = 1
  MaxLaunches = 3
  MaxCommandFaults = 3
  None = None
  Gone = Gone
SYMMETRY Symmetry
INVARIANTS ScreenIsTrue LaunchedOnce
PROPERTY NeverBack
CHECK_DEADLOCK FALSE
