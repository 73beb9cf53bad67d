SPECIFICATION FairSpec
CONSTANTS
  Handle = {h1, h2}
  Call = {k1, k2}
  Iter = {i1, i2}
  MaxConn = 3
  None = None
INVARIANTS UnlessRefused HandleIsOwn AcceptInOrder
PROPERTIES NothingAfterDispose  AcceptDelivered
CHECK_DEADLOCK FALSE
