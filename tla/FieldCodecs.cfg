CONSTANTS
  VarintLen = 3
  LastLimit = 4
  Word = 65536
  Word32 = 256
  Word16 = 64
  Word8 = 16
  Second = 100
  ZeroTime <- MCZeroTime
  XXXHack = FALSE
  OnlyTimes = FALSE
  GoFields <- MCGoFields
  ValuesOf <- MCValuesOf
  Stamps <- MCStamps
  Bodies <- MCBodies
SPECIFICATION Spec
INVARIANTS TypeOK ComesBack DeclaredTypeReads StampComesBack StampMeans ReceivedMeans
