SPECIFICATION Spec
CONSTANTS
  VarintLen = 5
  LastLimit = 4
  Word = 1073741824
  Buffers <- Messages
  Ids = {1, 2}
  Sorteds = {FALSE, TRUE}
INVARIANTS
  TypeOK
  FullStandsAlone
PROPERTIES
  ReadsItems
  LoopsEnd
