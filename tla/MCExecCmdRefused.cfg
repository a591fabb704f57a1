\* One command; writes to the pipe may be refused.
CONSTANTS
  n1 = n1
  n2 = n2
  r1 = r1
  r2 = r2
  Cmds = {r1}
  Nodes = {n1, n2}
  NodeLists <- SomeLists
  Faults = {"sendFail"}
SPECIFICATION Spec
INVARIANTS
  SuccessLacksOnlySilentNodes
CHECK_DEADLOCK FALSE
