\* Kernels that may leave an element as it is.
SPECIFICATION SystemSpec
CONSTANTS
  Names <- MCNames
  Calls <- MCCalls
  Builds <- PartialBuilds
  Lengths = {0, 1, 2, 4}
  MaxLength = 2
  NoText = NoText
  NULL = NULL
  SizeMax = 15
  ResultSize = 5
  SampleSize = 2
  FloatSize = 4
INVARIANTS
  SuccessMeansAgreement
