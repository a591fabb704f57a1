\* One client with two channels, every fault but a full socket buffer.
CONSTANTS
  Clients = {c1}
  NumTags = 2
  Served = {0}
  CliMax = 1
  SrvMax = 2
  Faults = {"refuse", "readFail", "undecodable", "clientDeath", "serverDeath"}
SPECIFICATION FairSpec
PROPERTIES
  OnlyConnectedComesLate
  PeerDeathReachesServices
  PipeLossReachesUsedChannels
  RequestIsCompleted
  ImplementsRpcChannel
CHECK_DEADLOCK FALSE
