SPECIFICATION TableSpec
CONSTANTS
  a = a
  b = b
  r = r
  k1 = k1
  k2 = k2
  Null = Null
  NoThread = NoThread
  Threads = {a, b, r}
  Keys = {k1, k2}
  Uses <- UsesOf
  MaxCalls <- Budget
SYMMETRY Names
INVARIANTS
  OwnedOnce
  BlockedSettles
CHECK_DEADLOCK FALSE
