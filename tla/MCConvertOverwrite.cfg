CONSTANTS
  p = p
  q = q
  r = r
  s = s
  g = g
  h = h
  library = library
  None = None
  Processes = {p, q}
  Targets = {g, h}
  MaxSuffix = 1
  Chunks = 2
  Direction <- MCDirection
  Inputs <- MCInputs
  CblTarget = library
  Overlapping = TRUE
SPECIFICATION BatchSpec
PROPERTIES
  NeverOverwritten
CHECK_DEADLOCK FALSE
