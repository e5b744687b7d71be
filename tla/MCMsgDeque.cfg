SPECIFICATION Spec
CONSTANTS
  p1 = p1
  c1 = c1
  c2 = c2
  NoThread = NoThread
  Threads <- Three
  Pollers = {c1}
  Calls <- AllCalls
  MaxSize = 3
  MaxPush = 3
  MaxTokens = 3
CONSTRAINT
  UpToFirstSwap
INVARIANTS
  TypeOK
  BackFindsAnElement
  Bounded
CHECK_DEADLOCK FALSE
