\* A seek after the buffer has wrapped.
CONSTANTS
  t1 = t1  t2 = t2  f1 = f1  f2 = f2
  Tasks = {t1}
  Files = {f1}
  FileOf <- OneTask
  NoTask = NoTask
  MaxWriteOps = 3
  SizeMod = 64
  Writes <- LinesOf1And2
  ReadCounts = {2}
  SeekArgs <- MCSeekArgs
  LSeekArgs <- OneLSeekArg
  MaxWrites = 4
  ReallocFails = FALSE
  CharMod = 256
  CharSigned = TRUE
  IntMod = 64
  LoffMod = 64
SPECIFICATION Spec
PROPERTY SeekLandsOnCommand
