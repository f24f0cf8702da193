\* A line that arrives in chunks of any size.
CONSTANTS
  INIT_BUF_SIZE = 2
  Lengths = {1, 2, 3}
SPECIFICATION Spec
CHECK_DEADLOCK FALSE
INVARIANT LineIsWhatWasSent
