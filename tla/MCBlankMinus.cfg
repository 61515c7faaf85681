SPECIFICATION Spec
CONSTANT
  MaxUintmax = 7
  MaxU64 = 7
  MaxSize = 3
  Benchmarks = {"vector_add_f32", "another"}
  OtherWords = {"--unknown"}
  Texts <- MCTexts
  Defaults <- MCDefaults
  MaxOptions = 3
INVARIANT NumbersAreDenoted
CHECK_DEADLOCK FALSE
