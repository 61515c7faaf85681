\* Up to three implementations, up to two warm-up and three measured iterations,
\* every failure at every step, calls repeated without end on one result.
SPECIFICATION FairSpec
CONSTANTS
  a = a
  b = b
  c = c
  d = d
  Names <- MCNames
  Calls <- MCCalls
  NoText = NoText
  NULL = NULL
  SizeMax = 15
  ResultSize = 5
  SampleSize = 2
INVARIANTS
  RunnerInv
  HeapIsOwned
  FailureLeavesEmpty
  SamplesAreMeasured
  BlameIsExact
  MeasurementIsGated
  AllocationsFit
PROPERTIES
  KeepsContract
  EveryCallReturns
