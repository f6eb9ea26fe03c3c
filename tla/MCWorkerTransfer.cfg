SPECIFICATION Spec
CONSTANTS
  HighWater = 2
  Sizes = {1, 3}
  MaxChunks = 3
INVARIANTS Bounded WholeFiles CauseReported
PROPERTIES Settles
CHECK_DEADLOCK FALSE
