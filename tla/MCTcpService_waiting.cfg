SPECIFICATION Spec
CONSTANTS
  h1 = h1
  h2 = h2
  w1 = w1
  w2 = w2
  Hosts = {h1, h2}
  Fds = {3, 4}
  Workers = {w1, w2}
  Listen = Listen
  Wakeup = Wakeup
  Closed = Closed
  None = None
  Ahead = FALSE
  MaxConnects <- FirstTwice
  EventStep = 4
  MaxSent <- FirstSends
  MaxQueue = 4
SYMMETRY Symmetry
VIEW View
INVARIANTS
  CountCoversWatched
  OpenIsWatched
  TablesAgree
  StopClosesListed
PROPERTY
  OnlyEndedAreClosed
  ImplementsStreams
CHECK_DEADLOCK FALSE
