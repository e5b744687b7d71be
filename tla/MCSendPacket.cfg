SPECIFICATION FairSendSpec
CONSTANTS
  s1 = s1
  s2 = s2
  c1 = c1
  m = m
  NoThread = NoThread
  Senders = {s1, s2}
  Clients = {c1}
  Main = m
  Packets <- Kinds
  Chunk = 2
  Threads <- All
  Pollers = {s1, s2}
  Calls <- UseSend
  MaxSize = 2
  MaxPush = 2
  MaxTokens = 3
INVARIANTS
  TokensMatchElements
  PacketsConserved
PROPERTIES
  SendersEnd
  PacketsHandled
CHECK_DEADLOCK FALSE
