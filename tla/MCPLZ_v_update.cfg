CONSTANTS
  Faults = {"update"}
  MaxFaults = 1
  MaxPLZs = 1
SPECIFICATION FairSpec
CHECK_DEADLOCK FALSE
PROPERTIES Serves
