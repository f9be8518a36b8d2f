CONSTANTS
  tester = tester
  player = player
  gm = gm
  c1 = c1
  c2 = c2
  c3 = c3
  Accounts = {tester, player}
  Clients = {c1, c2, c3}
  Names = {tester, player, gm}
  Restricted = {gm}
  Grade <- MCGrade
  Knows <- MCKnows
  Day = 2
  ZoneOffset = 1
  MaxTime = 2
  MaxCommands = 2
  None = None
SYMMETRY Symmetry
CHECK_DEADLOCK FALSE
SPECIFICATION Spec
INVARIANTS
  TypeOK
  BannedStayOut
  MutedStaySilent
  AccountsAsStored
