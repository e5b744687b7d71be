SPECIFICATION FairSpec
CONSTANTS
  h1 = h1
  h2 = h2
  w1 = w1
  w2 = w2
  Hosts = {h1, h2}
  Fds = {3, 4}
  Workers = {w1}
  Listen = Listen
  Wakeup = Wakeup
  Closed = Closed
  None = None
  Ahead = FALSE
  MaxConnects <- One
  EventStep = 4
  MaxSent <- One
  MaxQueue = 4
PROPERTY
  SentIsDelivered
  EndedIsForgotten
  StopEnds
CHECK_DEADLOCK FALSE
