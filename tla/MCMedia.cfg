\* Few lists with traffic, one with filters, every short one opened; six descriptors.
CONSTANTS
  Lists <- SomeLists
  Trials <- SomeTrials
  Devices = {"can0", "can1", "ip0"}
  LongNames = {"long"}
  BadAddresses = {"bad"}
  NumFds = 6
  Ports = {"p1", "p2", "p3"}
  FilterMax = 2
SPECIFICATION Spec
INVARIANTS
  SocketsOwned
  LostOnlyIfEveryInterfaceFailed
  SubscribedPortsPass
PROPERTIES
  WorkingInterfacesUsed
  NothingIsStuck
CHECK_DEADLOCK FALSE
