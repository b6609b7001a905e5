CONSTANTS
  d0 = d0
  d1 = d1
  d2 = d2
  Documents <- MCDocuments
  InitialDocument = d0
  Nodes = {0, 1, 2}
  RootNode = 0
  NodesOf <- MCNodesOf
  Costs = {1, 3}
  MaxHistoryEntries = 3
  MaxHistoryBytes = 5
  MaxRevision = 5
SPECIFICATION HostSpec
INVARIANTS
  CleanMeansSaved
  HistoryWithinLimits
  SelectionsExist
  HostTypeOK
  RevisionIdentifiesState
  CleanMatchesFile
PROPERTIES
  LostCheckpointStaysDirty
  RefinesUndoLog
