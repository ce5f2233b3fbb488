CONSTANTS
  Procs = {p1, p2}
  Buffers = {b1, b2, b3, b4}
  MaxDepths = {1, 2}
  ArrayLen = 1
  Values <- MCValues
  Messages <- MCMessages
  Paths <- MCPaths
  Lists <- MCLists
  Size <- MCSize
SPECIFICATION Spec
SYMMETRY Symmetry
INVARIANTS TypeOK Exclusive PooledAreNew
PROPERTY Implements
