\* Two overlapping launches, every fault and the script.
CONSTANTS
  Launches = {l1, l2}
  Faults = {"stepFail", "crash", "signal", "stop"}
SPECIFICATION FairSpec
INVARIANTS
  SuccessMeansReady
  PidFileIsKept
PROPERTIES
  LauncherReturns
  SignalledDaemonExits
CHECK_DEADLOCK FALSE
