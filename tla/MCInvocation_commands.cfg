CONSTANTS
  UserSpecs <- AllUserSpecs
  CloudData <- AllCloudData
  SortedKeys <- Keys
  FlagName <- Flags
  Piece <- Pieces
  MaxArgs = 4
  MaxRunners = 4
SPECIFICATION Spec
CHECK_DEADLOCK FALSE
INVARIANTS ParsesGroups PLZAccepted UserValuesIntact ReservedValues TokenForLogs ArgumentsIntact SegmentsTile
