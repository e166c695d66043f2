SPECIFICATION Spec
CONSTANTS
  Comps <- Components
  NumBuffers = 2
  MaxFailures = 2
  NumEvents = 100
  MaxReports = 2
PROPERTY AnsweredAlways
CHECK_DEADLOCK FALSE
