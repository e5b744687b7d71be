SPECIFICATION BufferSpec
CONSTANTS
  Size = 9
  NewSizes = {3, 10}
  Lengths = {2}
  MaxPos = 10
  Ints <- SomeInts
  Strings <- SomeStrings
  Offset = 3
  MaxArrive = 8
INVARIANTS
  WritesInside
  ReadsBack
  RecvKeepsAll
CHECK_DEADLOCK FALSE
