SPECIFICATION GeneratorSpec
CONSTANT
  Seeds <- MCSeeds
  Lengths = {0, 1, 2, 3, 5}
INVARIANTS
  GeneratorTypeOK
  DrawsAreIndexed
  GoldenValues
CHECK_DEADLOCK FALSE
