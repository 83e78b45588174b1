CONSTANTS
  CmdPeriod = 0
  ResponseTimeout = 1
  SendTimeout = 3
  ConnectTimeout = 14
  DisconnectBeforeReset = FALSE
  NetIds = {1229, 65535}
  JoinKeys = {k1}
  SrcPorts = {1}
  Services = {0, 1}
  SocketIds = {0, 1}
  PromiscuousId = 65535
  DefaultNetId = 1229
  DefaultJoinKey = k1
  DefaultSrcPort = 1
  Unset = Unset
  AppCalls = {}
  NetIdArg = 65535
  ServiceArg = 0
  Networks = {}
  MaxRestarts = 0
  MaxLosses = 0
  MaxRefusals = 0
  MaxLink = 3
SPECIFICATION SysSpec
INVARIANTS
  RestsReady
CHECK_DEADLOCK FALSE
