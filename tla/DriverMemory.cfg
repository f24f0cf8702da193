\* More packets than the buffer holds, and failed allocations of every kind;
\* two tasks share an open file.
CONSTANTS
  t1 = t1  t2 = t2  f1 = f1  f2 = f2
  Tasks = {t1, t2}
  Files = {f1}
  FileOf <- OneFile
  NoTask = NoTask
  MaxWriteOps = 2
  SizeMod = 16
  Writes <- SmallWrites
  ReadCounts = {2}
  SeekArgs <- OneSeekArg
  LSeekArgs <- OneLSeekArg
  MaxWrites = 3
  ReallocFails = TRUE
  CharMod = 6
  CharSigned = TRUE
  IntMod = 16
  LoffMod = 16
SPECIFICATION FairSpec
INVARIANTS TypeOK BlocksOwnedOnce
PROPERTIES EveryCallReturns
