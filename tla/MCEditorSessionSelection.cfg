CONSTANTS
  None = None
  MaxNodeId = 7
  Squares <- MCSquares
  InitialBoard <- MCInitialBoard
  InitialSide = "red"
  InitialFullmove = 1
  MaxFullmove = 9
  Metadata = {"untitled", "titled", "malformed"}
  InvalidMetadata = {"malformed"}
  ValidationPolicy = "state_consistent"
  MaxDocumentNodes = 5
  InitialDocument <- MCInitialDocument
  Moves <- MCMoves
  AnnotationLists <- MCAnnotationLists
  Compounds <- MCCompounds
  MaxCompoundCommands = 2
  MaxPositionCacheEntries = 0
  MaxProjectedNodes = 0
  MaxProjectedDepth = 0
  MaxHistoryEntries = 2
  MaxHistoryBytes = 14
  MaxRevision = 3
SPECIFICATION Spec
PROPERTIES
  SelectionAnnounced
