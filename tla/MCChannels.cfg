\* One client with two channels, one of them for a service the daemon has; every fault.
CONSTANTS
  Clients = {c1}
  NumTags = 2
  Served = {0}
  CliMax = 2
  SrvMax = 1
  Faults = {"refuse", "readFail", "sendFail", "undecodable", "clientDeath", "serverDeath"}
SPECIFICATION Spec
INVARIANTS
  TypeOK
  RegisteredGatewayIsAlive
  ChannelOpenedOncePerTag
  CompletedIsFinal
  ResponsesPrecedeCompletion
  RequestsArriveFromTheFirst
  RequestsFindTheirClient
CHECK_DEADLOCK FALSE
