\* krealloc fails while a packet is being collected.
CONSTANTS
  t1 = t1  t2 = t2  f1 = f1  f2 = f2
  Tasks = {t1}
  Files = {f1}
  FileOf <- OneTask
  NoTask = NoTask
  MaxWriteOps = 3
  SizeMod = 64
  Writes <- PieceAndLine
  ReadCounts = {2}
  SeekArgs <- OneSeekArg
  LSeekArgs <- OneLSeekArg
  MaxWrites = 3
  ReallocFails = TRUE
  CharMod = 256
  CharSigned = TRUE
  IntMod = 64
  LoffMod = 64
SPECIFICATION Spec
INVARIANT EntriesHoldTheirBytes
