CONSTANTS
  m = m
  p = p
  q = q
  Players = {m, p, q}
  Mods = {m}
  MaxRooms = 1
  NumberSpace = 4
  CreationBound = 2
  MaxObservers = 1
  TeamSizes = {1}
SYMMETRY Symmetry
CHECK_DEADLOCK FALSE
SPECIFICATION PlaySpec
INVARIANT NoEmptyRoom
