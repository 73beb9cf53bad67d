SPECIFICATION FairSpec
CONSTANTS
  Lo = 1
  Iface = {1, 2, 3, 4}
  Kind <- MCKind
  Handle = {1, 2, 3}
  None = None
  MaxFrames = 2
  MaxRemovals = 1
INVARIANTS FramesToOwn ReadyMeansUp NothingAfterDispose
PROPERTIES FramesHeard CallsSettle
CHECK_DEADLOCK FALSE
