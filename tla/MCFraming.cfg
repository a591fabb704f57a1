\* Six messages through a buffer that two of them fill.
CONSTANTS
  Msgs <- MixedMsgs
  HeaderSize = 2
  MsgMaxSize = 4
  Capacity = 9
SPECIFICATION Spec
INVARIANTS
  IntactBeforeFirstCut
  ClosedOnlyForAReason
CHECK_DEADLOCK FALSE
