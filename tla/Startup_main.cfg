SPECIFICATION Spec
CONSTANTS
  Comps <- Components
  NumBuffers = 2
  MaxFailures = 1
  NumEvents = 100
  MaxReports = 2
INVARIANTS NoLostWakeup PoolKept AbortsForAReason SetUpIsWhole NothingLeftOver
PROPERTIES AnsweredTruly StartupEnds PictureComes
CHECK_DEADLOCK FALSE
