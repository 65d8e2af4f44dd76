SPECIFICATION Spec
CONSTANTS
  Sizes <- EverySize
  BlockSizes <- EveryBlockSize
  LargestTarget = 10
  LargestBlock = 4
INVARIANT DoneIsFilled
CHECK_DEADLOCK FALSE
