CONSTANTS
  None = None
  MaxNodeId = 100
  U32Max = 100000
  SizeMax = 100000
  Limits <- MCLimits
  CblLimits <- MCCblLimits
  Libraries <- MCLibraries
  Options <- MCOptions
  Travellers <- MCTravellers
  ForeignNumbers <- MCForeignNumbers
  ForeignUnits <- MCForeignUnits
SPECIFICATION Spec
CHECK_DEADLOCK FALSE
INVARIANTS
  CblTypeOK
  PlanIsExact
  WrittenCanBeRead
  TreeSurvives
  LossesAreReported
  RecordsAreRestored
  EveryGameOnce
