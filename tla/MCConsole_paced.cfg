SPECIFICATION PacedSpec
CONSTANTS
  Length = 3
  ReadSizes = {1, 2}
  Newlines = {2, 5}
  MaxKeys = 10
PROPERTIES
  ImplementsKeyStream
