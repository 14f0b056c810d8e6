CONSTANTS
  RespLen = 2
  ServerStreams = 1
  IdleTicks = 1
  MaxArrivals = 4
  RxMax = 2
SPECIFICATION FairSpec
INVARIANTS TypeOK TimerRunsInLoop LeavesLoopWhenClosed LeaksOnlyUnnamedSocket
PROPERTIES IdleLosesNothing EndsUnlessBreakForgotten
