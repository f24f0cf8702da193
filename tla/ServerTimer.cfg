\* The file build: a client and a timestamp.
CONSTANTS
  NoNode = NoNode
  Clients = {c1}
  Builds = {TRUE}
  Capacity = 10
  Earlier = {0}
  Orders = {"line"}
  SendsFail = FALSE
  MaxFailures = 0
  MaxTicks = 1
SPECIFICATION Spec
CHECK_DEADLOCK FALSE
PROPERTY LinesStay
