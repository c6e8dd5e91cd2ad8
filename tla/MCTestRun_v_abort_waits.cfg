CONSTANTS
  N = 2
  Specs <- PLZSpecs
  Faults = {"abort"}
  MaxFaults = 1
  MaxRuns = 2
SPECIFICATION Spec
CHECK_DEADLOCK FALSE
INVARIANTS AbortWaits
