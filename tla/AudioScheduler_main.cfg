SPECIFICATION SchedulerSpec
CONSTANTS
  SliceMs = 2
  HighMs = 4
  StartLen = 1
  FastMs = 4
  SlowMs = 3
  NumBuffers = 4
  MaxLag = 1
  MaxProduced = 6
CHECK_DEADLOCK FALSE
INVARIANTS LatencyBound BufferAvailable SoundInOrder
PROPERTIES ReadingsStillTrue StartedUnitsArePlayed
