SPECIFICATION FairThreadSpec
CONSTANTS
  w = w
  o = o
  NoThread = NoThread
  Unread = Unread
  Worker = w
  Owner = o
  Threads <- Alone
  Calls <- UseAlone
  Pollers = {}
  BusyMod = 8
  MaxSize = 2
  MaxPush = 3
  MaxTokens = 9
INVARIANTS
  TasksConserved
  ExitIsClean
  FreedIsUnused
PROPERTY
  ImplementsTaskQueue
  TasksRun
  CancelEnds
CHECK_DEADLOCK FALSE
