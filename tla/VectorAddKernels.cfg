\* Every length up to 13: three unrolled iterations with each tail.
SPECIFICATION KernelSpec
CONSTANT
  KernelLengths = {0, 1, 2, 3, 4, 5, 6, 7, 8, 9, 10, 11, 12, 13}
INVARIANTS
  LoopInvariant
  InBounds
  ReturnsTheSum
PROPERTY
  Returns
CHECK_DEADLOCK FALSE
