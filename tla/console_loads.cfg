CONSTANTS
  ta = ta
  tb = tb
  i1 = i1
  i2 = i2
  Any = Any
  All = All
  Names = {ta, tb}
  Star = All
  AnyOne = Any
  Clients <- MCClients
  PackSeeds <- MCPackSeeds
  Tokens = {k1, k2}
  NoToken = NoToken
  MaxBody = 2
  MaxEdits = 3
SPECIFICATION Spec
INVARIANT SavedConfigLoads
CHECK_DEADLOCK FALSE
