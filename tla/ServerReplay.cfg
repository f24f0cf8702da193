\* The device build: two clients at once.
CONSTANTS
  NoNode = NoNode
  Clients = {c1, c2}
  Builds = {FALSE}
  Capacity = 10
  Earlier = {0}
  Orders = {"line"}
  SendsFail = FALSE
  MaxFailures = 0
  MaxTicks = 0
SPECIFICATION Spec
CHECK_DEADLOCK FALSE
INVARIANT LineComesBack
