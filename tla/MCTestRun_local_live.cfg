CONSTANTS
  N = 2
  Specs <- LocalSpecs
  Faults = {"stale", "inspect", "list", "delete", "initfail", "userdelete"}
  MaxFaults = 2
  MaxRuns = 2
SPECIFICATION FairSpec
CHECK_DEADLOCK FALSE
PROPERTIES Terminates NeverBackToUnknown
