\* Seconds 0 to 15 of 3 ns: differences up to 47 ns against a maximum of 31.
SPECIFICATION Spec
CONSTANTS
  Second = 3
  U64Max = 31
  Reads <- MCReads
INVARIANTS
  SampleIsExact
  RefusalIsNeeded
CHECK_DEADLOCK FALSE
