SPECIFICATION FairSpec
CONSTANTS
  Inputs <- AllInputs
  MaxTokens = 4
  MaxLoopCount = 30
INVARIANTS NoAssertFails IndexConsistent NothingStrays DocumentShape TablesHoldTableParts PointersLive ModesMatchStack MarkersMatch ForeignHoldsNoHtml TokenReleased DepthBounded DomMirrorsTree
PROPERTIES DestroyFreesAll ParseEnds
