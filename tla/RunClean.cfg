SPECIFICATION RunSpec
CONSTANTS
  MaxSignals = 4
INVARIANTS
  CleanedUp
  ModuleHasDevice
PROPERTIES
  ClosingRestores
CHECK_DEADLOCK FALSE
