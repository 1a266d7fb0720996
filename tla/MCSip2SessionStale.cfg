SPECIFICATION Spec
CONSTANTS
  i1 = i1
  i2 = i2
  login = login
  Items <- MCItems
  Login <- login
  Rollover = 2
  MaxCalls = 3
INVARIANT StatusIsOfItemAsked
CHECK_DEADLOCK FALSE
