CONSTANTS
  Size = 2
  MaxArrivals = 4
  MayOverflow = FALSE
  Threaded = FALSE
  ClockSize = 8
  DestIsManager = TRUE
  Delays = {0, 2}
  SendTimeout = 3
  ConnectTimeout = 5
  DataPeriod = 3
  WatchdogWarning = 4
  SrcPortArgs = {0, 60000}
  DestPortArgs = {0, 61626, 60000}
  PayloadSizes = {87, 88, 90}
  EmptyMessages = {2}
SPECIFICATION LoopSpec
INVARIANTS
  TypeOK
  LoopTypeOK
  WatchdogFed
  CallEndsInTime
  PacketFits
PROPERTIES
  EventOnTime
  FifoUnlessMiscounted
CHECK_DEADLOCK FALSE
