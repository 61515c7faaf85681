\* Numbers have at most two digits.
SPECIFICATION Spec
CONSTANTS
  Runs <- MCRuns
  ForeignTexts <- MCForeignTexts
  MaxDigits = 2
INVARIANTS
  CutOffCostsNoRecord
  AcceptsWellFormed
PROPERTIES
  CompleteOutputIsAccepted
CHECK_DEADLOCK FALSE
