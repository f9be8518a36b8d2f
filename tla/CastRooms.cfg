CONSTANTS
  a = a
  b = b
  c = c
  Clients = {a, b, c}
  MaxSessionIDs = 2
  MaxRooms = 2
  MaxPending = 2
  Mishaps = {"crossed", "overtaken", "full"}
  MaxMishaps = 2
  None = None
SYMMETRY Symmetry
CHECK_DEADLOCK FALSE
SPECIFICATION Spec
INVARIANTS
  TypeOK
  IdsAccountedFor
  RoomsAgree
  Together
