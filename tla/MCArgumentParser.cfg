SPECIFICATION Spec
CONSTANT
  MaxUintmax = 7
  MaxU64 = 7
  MaxSize = 3
  Benchmarks = {"vector_add_f32", "another"}
  OtherWords = {"--unknown"}
  Texts <- MCTexts
  Defaults <- MCDefaults
  MaxOptions = 4
INVARIANTS
  TypeOK
  LastValueCounts
  RunIsAskedFor
  OnlyBlankMinusWraps
CHECK_DEADLOCK FALSE
