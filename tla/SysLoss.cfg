CONSTANTS
  CmdPeriod = 0
  ResponseTimeout = 1
  SendTimeout = 3
  ConnectTimeout = 14
  DisconnectBeforeReset = FALSE
  NetIds = {1229, 65535}
  JoinKeys = {k1}
  SrcPorts = {1}
  Services = {0, 1}
  SocketIds = {0, 1}
  PromiscuousId = 65535
  DefaultNetId = 1229
  DefaultJoinKey = k1
  DefaultSrcPort = 1
  Unset = Unset
  AppCalls = {"getTime", "setTxPower"}
  NetIdArg = Unset
  ServiceArg = 1
  Networks = {1229}
  MaxRestarts = 0
  MaxLosses = 6
  MaxRefusals = 2
  MaxLink = 3
SPECIFICATION SysFairSpec
INVARIANTS
  SysTypeOK
  RestsReady
  ConnectedMeansOperational
  ConnectedMeansBound
  RetryIsScheduled
PROPERTIES
  SendTrueMeansQueued
  QueryKeepsConnection
  ImplementsApi
  KeepsSending
CHECK_DEADLOCK FALSE
