\* Up to as many packets as the buffer holds; two tasks share an open file.
CONSTANTS
  t1 = t1  t2 = t2  f1 = f1  f2 = f2
  Tasks = {t1, t2}
  Files = {f1}
  FileOf <- OneFile
  NoTask = NoTask
  MaxWriteOps = 3
  SizeMod = 64
  Writes <- SmallWrites
  ReadCounts = {2}
  SeekArgs <- MCSeekArgs
  LSeekArgs <- MCLSeekArgs
  MaxWrites = 3
  ReallocFails = FALSE
  CharMod = 16
  CharSigned = TRUE
  IntMod = 64
  LoffMod = 64
SPECIFICATION Spec
SYMMETRY Symmetry
INVARIANTS TotalIsSum PositionInData EntriesHoldTheirBytes
PROPERTIES ImplementsDevice SeekLandsOnCommand
