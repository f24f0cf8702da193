\* Both builds: two clients, a timestamp, any call that may fail; a device of two
\* lines, which holds one.
CONSTANTS
  NoNode = NoNode
  Clients = {c1, c2}
  Builds = {TRUE, FALSE}
  Capacity = 2
  Earlier = {1}
  Orders = {"line", "seek"}
  SendsFail = TRUE
  MaxFailures = 1
  MaxTicks = 1
SPECIFICATION FairSpec
CHECK_DEADLOCK FALSE
INVARIANTS TypeOK ThreadsHaveNodes ListHoldsNodes RewoundWhenIdle
PROPERTIES ReplyIsWholeFile ClientsKeepLines ShutdownEnds
