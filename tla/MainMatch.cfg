CONSTANTS
  m = m
  p = p
  q = q
  Players = {m, p, q}
  Mods = {m}
  NumberSpace = 3
  CreationBound = 1
  MaxObservers = 1
  TeamSizes = {1}
  MaxBattery = 2
  Finders = {m}
  MaxPicks = 1
  MaxMoves = 2
  None = None
SYMMETRY Symmetry
ACTION_CONSTRAINT ConnectedFirst
CHECK_DEADLOCK FALSE
SPECIFICATION Spec
INVARIANTS
  TypeOK
  TeamsAsTold
  TeamTalkIsPrivate
  ResultsCountedOnce
  BatteryCountedOnce
