SPECIFICATION FairSpec
CONSTANTS
  Wnd = 5
  HighWater = 2
  ChunkSizes = {1, 3}
  MaxBytes = 8
  Reordering = TRUE
INVARIANTS InOrder WindowConserved NothingForgotten
PROPERTIES ImplementsStream EofObserved WindowReopens
CHECK_DEADLOCK FALSE
