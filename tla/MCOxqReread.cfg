CONSTANTS
  None = None
  MaxNodeId = 100
  U32Max = 4095
  SizeMax = 4095
  Limits <- MCLimits
  Games <- MCGames
  Travellers <- MCTravellers
  ForeignNumbers <- MCForeignNumbers
  ForeignTexts <- MCForeignTexts
SPECIFICATION Spec
CHECK_DEADLOCK FALSE
INVARIANT WrittenIsReadable
