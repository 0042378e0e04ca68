SPECIFICATION DSpec
CONSTANTS
  Blocks <- MCBlocks
  Source <- MCSource
  Items <- MCItems
  Vocabulary <- MCVocabulary
  BlockCells = 10
  StackSize = 2
  CellBits = 16
  Columns = 10
  Lines = 9
  Byte = 33
  BlockColumn = 7
  MaxEntries = 2
  MaxKeys = 2
INVARIANTS
  PageKept
  CursorShown
  WordShown
  HtmlListsText
PROPERTIES
  BlockShown
  StackShown
  PromptReady
CHECK_DEADLOCK FALSE
