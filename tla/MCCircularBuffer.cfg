CONSTANTS
  MaxWriteOps = 4
  SizeMod = 64
  Entries <- MCEntries
  Positions <- MCPositions
SPECIFICATION Spec
INVARIANTS RingInv FindIsConcatenation
PROPERTY KeepsLatestWrites
