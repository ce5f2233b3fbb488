SPECIFICATION Spec
CONSTANTS
  p1 = p1
  p2 = p2
  A = A
  B = B
  C = C
  Time = Time
  Ptr = Ptr
  NoProc = NoProc
  Procs = {p1, p2}
  Structs = {A, B, C, Time}
  NonStructs = {}
  TimeType = Time
  TypeGraphs <- OrderedPrograms
  MaxCalls = 1
SYMMETRY Symmetry
INVARIANTS
  TypeOK
  CachedComplete
  OnePointer
PROPERTIES
  Safe
  DescriptionsFinal
