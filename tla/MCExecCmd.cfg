\* Two commands of one client, every fault.
CONSTANTS
  n1 = n1
  n2 = n2
  r1 = r1
  r2 = r2
  Cmds = {r1, r2}
  Nodes = {n1, n2}
  NodeLists <- SomeLists
  Faults = {"refuse", "pipeLoss", "sendFail", "callFail", "undecodable"}
SPECIFICATION FairSpec
INVARIANTS
  FinalResultIsLast
  SuccessIsComplete
  NodeCommandedOnce
  RunningFsmHasWork
PROPERTIES
  ConnectedCommandHasResult
  DroppedCommandIsCancelled
CHECK_DEADLOCK FALSE
