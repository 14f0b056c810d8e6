CONSTANTS
  RespLen = 1
  ServerStreams = 0
  IdleTicks = 1
  MaxArrivals = 1
  RxMax = 1
SPECIFICATION Spec
INVARIANT ResourcesOutliveEndpoint
