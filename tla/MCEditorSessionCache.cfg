CONSTANTS
  None = None
  MaxNodeId = 7
  Squares <- MCSquares
  InitialBoard <- MCInitialBoard
  InitialSide = "red"
  InitialFullmove = 1
  MaxFullmove = 2
  Metadata = {"untitled"}
  InvalidMetadata = {"malformed"}
  ValidationPolicy = "structural"
  MaxDocumentNodes = 4
  InitialDocument <- MCLineDocument
  Moves <- MCFewMoves
  AnnotationLists <- MCNoAnnotations
  Compounds <- MCLineCompounds
  MaxCompoundCommands = 2
  MaxPositionCacheEntries = 1
  MaxProjectedNodes = 3
  MaxProjectedDepth = 2
  MaxHistoryEntries = 3
  MaxHistoryBytes = 30
  MaxRevision = 3
SPECIFICATION Spec
INVARIANTS
  CacheSound
  StateValidationSound
  ProjectionFaithful
PROPERTIES
  NodeIdsUnambiguous
