CONSTANTS
  p = p
  q = q
  r = r
  s = s
  g = g
  h = h
  library = library
  None = None
  Processes = {r, s}
  Targets = {library}
  MaxSuffix = 0
  Chunks = 2
  Direction <- MCDirection
  Inputs <- MCInputs
  CblTarget = library
  Overlapping = TRUE
SPECIFICATION BatchSpec
INVARIANTS
  ExitCodeTruthful
CHECK_DEADLOCK FALSE
