\* Two connections for one free descriptor, one event per wait.
CONSTANTS
  Conns = {c1, c2}
  Names <- AllNames
  Platforms = {"epoll", "kqueue"}
  MaxEvents = 1
  NumFds = 4
  MaxMsgs = 2
  MaxFrames = 1
  Faults = {"abort", "fcntl", "read"}
SPECIFICATION FairSpec
INVARIANTS
  InterestIsLive
  AwaitablesCounted
PROPERTIES
  EpollAcceptsConnections
  EpollHandlesMessages
CHECK_DEADLOCK FALSE
