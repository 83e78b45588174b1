CONSTANTS
  CmdPeriod = 0
  ResponseTimeout = 1
  SendTimeout = 2
  ConnectTimeout = 8
  DisconnectBeforeReset = TRUE
  NetIds = {1229, 65535}
  JoinKeys = {k1}
  SrcPorts = {1}
  Services = {0, 1}
  SocketIds = {0}
  PromiscuousId = 65535
  DefaultNetId = 1229
  DefaultJoinKey = k1
  DefaultSrcPort = 1
  Unset = Unset
SPECIFICATION FairSpec
INVARIANTS
  TypeOK
  OutstandingIsWatched
  NoStaleEvent
  JoinsConcreteNetwork
  JoinsConfigured
PROPERTIES
  CallReturns
CHECK_DEADLOCK FALSE
