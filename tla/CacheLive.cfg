SPECIFICATION Spec
CONSTANTS
  p1 = p1
  p2 = p2
  A = A
  B = B
  C = C
  Time = Time
  Ptr = Ptr
  NoProc = NoProc
  Procs = {p1, p2}
  Structs = {A, B, C, Time}
  NonStructs = {Ptr}
  TimeType = Time
  TypeGraphs <- LivePrograms
  MaxCalls = 2
PROPERTIES
  EveryCallReturns
CHECK_DEADLOCK FALSE
