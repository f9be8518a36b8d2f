CONSTANTS
  a = a
  b = b
  c = c
  Accounts = {a, b, c}
  x = x
  y = y
  Things = {x, y}
  MaxTraded = 1
  MaxNumber = 2
  MaxWorn = 1
  MaxMishaps = 1
  MaxAsked = 1
  None = None
SYMMETRY Symmetry
VIEW View
SPECIFICATION Spec
INVARIANTS
  TypeOK
  ThingsConserved
  PartnersAgree
PROPERTY
  ConfirmedUnlessDisturbed
