CONSTANTS
  VarintLen = 3
  LastLimit = 4
  Word = 65536
  Word32 = 256
  XXXHack = FALSE
  StructFields <- MCStructFields
  Rank <- MCRank
  Calls <- MCCalls
SPECIFICATION RunsSpec
INVARIANTS TypeOK Closed SameAnswer
PROPERTIES Implements Answers
