SPECIFICATION Spec
CONSTANTS
  h1 = h1
  h2 = h2
  w1 = w1
  w2 = w2
  Hosts = {h1}
  Fds = {3}
  Workers = {w1}
  Listen = Listen
  Wakeup = Wakeup
  Closed = Closed
  None = None
  Ahead = TRUE
  MaxConnects <- One
  EventStep = 4
  MaxSent <- Two
  MaxQueue = 4
PROPERTY
  OnlyEndedAreClosed
CHECK_DEADLOCK FALSE
