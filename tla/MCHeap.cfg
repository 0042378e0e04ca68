SPECIFICATION Spec
CONSTANTS
  Word = 32
  PageSize = 1
  BiosStart = 4
  BiosEnd = 7
  KernelStart = 8
  KernelEnd = 10
  InitrdStart = 13
  InitrdEnd = 15
  RamSize = 20
  Leftovers <- MCLeftovers
  Requests <- MCRequests
  MaxMade = 11
  MaxUsed = 3
INVARIANTS TypeOK Apart NothingLost Addressed ListedOnce
PROPERTIES ImplementsAllocator
