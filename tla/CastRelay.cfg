CONSTANTS
  s1 = s1
  s2 = s2
  s3 = s3
  Sessions = {s1, s2, s3}
  Attackers = {s1}
  Orders <- MCOrders
  Positions <- MCPositions
  MAX_PACKETS = 1
  MAX_EXCEED = 1
  RESET_INTERVAL = 1
  MaxTime = 3
  MaxAttacks = 5
SPECIFICATION Spec
INVARIANTS
  TypeOK
  RelayedToRoomMates
  AttacksLimited
SYMMETRY MCSymmetry
CHECK_DEADLOCK FALSE
