CONSTANTS
  Characters = {1, 2}
  Money = 4
  StartingMoney = 2
  Sold = {"gun"}
  Space = 4
  MaxLucky = 0
  MaxNumber = 6
  MaxItems = 6
  MaxRequests = 5
  None = None
SPECIFICATION Spec
INVARIANTS
  TypeOK
  ItemsAsStored
  WealthNeverGrows
  SpaceRespected
CHECK_DEADLOCK FALSE
