SPECIFICATION LogSpec
CONSTANTS
  w1 = w1
  c1 = c1
  c2 = c2
  m = m
  NoThread = NoThread
  Writers = {w1}
  Clients = {c1, c2}
  Main = m
  Sizes = {1, 3}
  Levels = {0, 2}
  Block = 1
  HighWater = 3
  Dates <- SomeDays
  MaxLogged = 1
  MaxFaults = 0
INVARIANTS
  FilesHoldTheBuffer
CHECK_DEADLOCK FALSE
