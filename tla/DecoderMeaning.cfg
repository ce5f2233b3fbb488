SPECIFICATION Spec
CONSTANTS
  VarintLen = 3
  LastLimit = 4
  Word = 65536
  Word32 = 256
  Roots <- MCRoots
  Fields <- MCFields
  Size <- MCSize
  Messages <- MCMessages
  MaxDepth = 3
  MaxCalls = 2
INVARIANTS
  TypeOK
  SearchFinds
  MessagesNest
  DepthCounts
  Decodes
PROPERTIES
  UnmarshalEnds
