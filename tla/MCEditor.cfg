SPECIFICATION MSpec
CONSTANTS
  Blocks <- MCBlocks
  Vocabulary <- MCVocabulary
  BlockCells = 7
  StackSize = 3
  CellBits = 10
  Nesting = 3
INVARIANTS TypeOK RoundTrip Spelled CommandsMean
PROPERTIES CommandEnds
CHECK_DEADLOCK FALSE
