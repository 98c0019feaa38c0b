CONSTANTS
  User = {u1, u2}
  Phases <- MCPhases
  Interval <- MCInterval
  MinInterval <- MCMinInterval
  Startup <- MCStartup
  Timeout = 1
  Budget = 2
  Slot = {t1}
  CloseWait = 1
  DrainWait = 1
  None = None
SPECIFICATION Spec
INVARIANTS TypeOK StaysFresh EventsSettle CleanExit
SYMMETRY Symmetry
CHECK_DEADLOCK FALSE
