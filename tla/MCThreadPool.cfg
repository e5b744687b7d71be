SPECIFICATION FairPoolSpec
CONSTANTS
  d1 = d1
  d2 = d2
  m = m
  w1 = w1
  w2 = w2
  NoThread = NoThread
  NoWorker = NoWorker
  Workers = {w1, w2}
  Dispatchers = {d1, d2}
  Main = m
  Threads <- Two
  Pollers = {d1, d2}
  Calls <- UseTwo
  MaxSize = 4
  MaxPush = 5
  MaxTokens = 6
  MaxDisturb = 1
INVARIANTS
  OneTurnEach
  TurnsConserved
  NothingFails
  FirstComeFirstServed
PROPERTY
  DispatchEnds
CHECK_DEADLOCK FALSE
