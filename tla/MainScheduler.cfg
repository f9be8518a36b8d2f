CONSTANTS
  a = a
  b = b
  Accounts = {a, b}
  MaxTransactions = 3
  None = None
SPECIFICATION Spec
INVARIANTS
  TypeOK
  ItemsAreKept
  ChargeFollowsItem
  ChargesAreDue
PROPERTY
  ItemsAreStored
