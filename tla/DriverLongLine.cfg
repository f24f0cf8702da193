\* A line of 128 bytes, with the char of the compiler.
CONSTANTS
  t1 = t1  t2 = t2  f1 = f1  f2 = f2
  Tasks = {t1}
  Files = {f1}
  FileOf <- OneTask
  NoTask = NoTask
  MaxWriteOps = 3
  SizeMod = 65536
  Writes <- LineOf128
  ReadCounts = {2}
  SeekArgs <- OneSeekArg
  LSeekArgs <- OneLSeekArg
  MaxWrites = 1
  ReallocFails = FALSE
  CharMod = 256
  CharSigned = TRUE
  IntMod = 1024
  LoffMod = 65536
SPECIFICATION Spec
INVARIANT EntriesHoldTheirBytes
