SPECIFICATION Spec
CONSTANTS
  Wnd = 5
  HighWater = 2
  ChunkSizes = {1, 3}
  MaxBytes = 8
  Reordering = TRUE
INVARIANTS EofAfterAllData
CHECK_DEADLOCK FALSE
