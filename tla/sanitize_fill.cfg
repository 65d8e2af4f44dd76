SPECIFICATION Spec
CONSTANTS
  Sizes <- EverySize
  BlockSizes <- EveryBlockSize
  LargestTarget = 10
  LargestBlock = 4
INVARIANT TypeOK
INVARIANT LeftIsMissed
INVARIANT NeverGrows
CHECK_DEADLOCK FALSE
