\* Kernels that write every element; lengths 0 and 4 are refused by setup.
SPECIFICATION SystemSpec
CONSTANTS
  Names <- MCNames
  Calls <- MCCalls
  Builds <- TotalBuilds
  Lengths = {0, 1, 2, 4}
  MaxLength = 2
  NoText = NoText
  NULL = NULL
  SizeMax = 15
  ResultSize = 5
  SampleSize = 2
  FloatSize = 4
INVARIANTS
  FixtureIsReleased
  ReadsAreWritten
  SuccessMeansAgreement
  BlameIsDeserved
