SPECIFICATION Spec
CONSTANTS
  Inputs <- CdataInTable
  MaxTokens = 4
  MaxLoopCount = 60
INVARIANTS NoAssertFails
