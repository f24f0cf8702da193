\* Each program on its own.
CONSTANTS
  INIT_BUF_SIZE = 2
  Lengths = {1, 2, 3, 4, 5, 6, 7}
  Threads = {th1, th2, th3}
  Nobody = Nobody
SPECIFICATION ProgramsSpec
CHECK_DEADLOCK FALSE
INVARIANTS StorageInBounds BytesInOrder FullChunksMakeTheLine
  SuccessMeansReleased NodeNeedsModule FreshStartServesDevice
  TrueMeansExecuted NothingLeftBehind
PROPERTIES ThreadsEnd StoppedForGood
