\* The bytes of six samples would not fit a size_t.
SPECIFICATION Spec
CONSTANTS
  SampleLists <- MCSampleLists
  SizeMax = 31
  SampleSize = 6
  IntMax = 3
INVARIANTS
  SummaryIsExact
CHECK_DEADLOCK FALSE
