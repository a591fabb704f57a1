\* The client may end at any time.
CONSTANTS
  Clients = {c1}
  NumTags = 1
  Served = {0}
  CliMax = 1
  SrvMax = 1
  Faults = {"clientDeath"}
SPECIFICATION Spec
INVARIANT DaemonSurvivesItsClients
CHECK_DEADLOCK FALSE
