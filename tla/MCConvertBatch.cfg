CONSTANTS
  p = p
  q = q
  r = r
  s = s
  g = g
  h = h
  library = library
  None = None
  Processes = {p, q}
  Targets = {g, h}
  MaxSuffix = 1
  Chunks = 2
  Direction <- MCDirection
  Inputs <- MCInputs
  CblTarget = library
  Overlapping = FALSE
SPECIFICATION BatchSpec
INVARIANTS
  BatchTypeOK
  PublishedComplete
  OnlyKilledLeaveTemporaries
  WrittenRemains
  ExitCodeTruthful
PROPERTIES
  NeverOverwritten
  EveryProcessEnds
CHECK_DEADLOCK FALSE
