SPECIFICATION FairSpec
CONSTANTS
  Conn = {c1, c2}
  SndBuf = 1
  Segs = 2
  WriteSizes = {1, 2}
  MaxUnits = 2
  OutputFails = {c1}
INVARIANTS InOrderOnce ResolvedMeansDone 
 
CHECK_DEADLOCK FALSE
