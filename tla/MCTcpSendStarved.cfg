SPECIFICATION FairSpec
CONSTANTS
  Conn = {c1, c2, c3}
  SndBuf = 1
  Segs = 2
  WriteSizes = {1}
  MaxUnits = 1
  OutputFails = {}
PROPERTIES WriteSettles
CHECK_DEADLOCK FALSE
