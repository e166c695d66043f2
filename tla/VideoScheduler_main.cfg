SPECIFICATION SchedulerSpec
CONSTANTS
  HighSlices = 2
  DelayMs = 1
  U32 = 32
  U64 = 64
  SourceStart = 1
  SinkStart = 1
  FirstPts = 0
  Garbage <- Zero
  NumHwBuffers = 7
  HwCap = 1
  DecoderHolds = 1
  Sizes <- Two
  MaxArrivals = 3
  MaxPcrs = 2
  MaxPcrWait = 1
  MaxTime = 3
CHECK_DEADLOCK FALSE
INVARIANTS HwBufferAvailable DecoderGetsSlices
PROPERTIES NeverEarly EverySliceShown
