SPECIFICATION RunSpec
CONSTANTS
  MaxSignals = 2
INVARIANTS
  ClosedMeansUnloaded
CHECK_DEADLOCK FALSE
