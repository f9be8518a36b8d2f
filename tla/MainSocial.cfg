CONSTANTS
  alice = alice
  bob = bob
  early = early
  later = later
  x = x
  y = y
  z = z
  None = None
  Accounts = {alice, bob}
  Sessions = {x, y, z}
  MaxFriends = 1
  MaxMailboxes = 1
  Seconds = {early, later}
  MaxEvents = 6
SYMMETRY Symmetry
SPECIFICATION Spec
INVARIANTS
  TypeOK
  FriendsAgree
  StoredAsShown
