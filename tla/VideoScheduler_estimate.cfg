SPECIFICATION SchedulerSafeSpec
CONSTANTS
  HighSlices = 2
  DelayMs = 1
  U32 = 32
  U64 = 64
  SourceStart = 1
  SinkStart = 8
  FirstPts = 1
  Garbage <- Zero
  NumHwBuffers = 7
  HwCap = 1
  DecoderHolds = 1
  Sizes <- OneOrTwo
  MaxArrivals = 2
  MaxPcrs = 2
  MaxPcrWait = 1
  MaxTime = 6
CHECK_DEADLOCK FALSE
INVARIANT EstimateNotAhead
