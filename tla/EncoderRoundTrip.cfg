SPECIFICATION Spec
CONSTANTS
  VarintLen = 3
  LastLimit = 4
  Word = 65536
  Word32 = 256
  Roots <- MCRoots
  Fields <- MCFields
  Size <- MCSize
  Values <- MCValues
  NoValue = NoValue
  Height <- MCHeight
  Refused <- MCRefused
  Reserved = {1, 4}
  MaxCalls = 2
INVARIANTS
  TypeOK
  Encodes
  ReportsErrors
  ItemsSoFar
