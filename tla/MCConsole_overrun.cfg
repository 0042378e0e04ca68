SPECIFICATION Spec
CONSTANTS
  Length = 3
  ReadSizes = {1, 2}
  Newlines = {2, 5}
  MaxKeys = 10
INVARIANTS
  TypeOK
  TestedIsCopied
PROPERTIES
  KeysInOrder
  LossInLaps
