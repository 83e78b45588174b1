CONSTANTS
  CmdPeriod = 0
  ResponseTimeout = 1
  SendTimeout = 2
  ConnectTimeout = 3
  DisconnectBeforeReset = FALSE
  NetIds = {1229, 65535}
  JoinKeys = {k1}
  SrcPorts = {1}
  Services = {0}
  SocketIds = {0}
  PromiscuousId = 65535
  DefaultNetId = 1229
  DefaultJoinKey = k1
  DefaultSrcPort = 1
  Unset = Unset
  Queries = {"getTime"}
  CallbackLoadedOnce = FALSE
SPECIFICATION PreSpec
INVARIANT NeverCallsNull
CHECK_DEADLOCK FALSE
