SPECIFICATION WalkSpec
CONSTANTS
  Parsed <- AllTrees
  MaxDomNodes = 5
  TreeSize = 5
  AttributeLists <- SomeLists
  Names = {"x", "y", "X", "length"}
  lower <- Lower
  MaxAttributes = 3
  MaxEdited = 2
INVARIANTS VisitsInOrder OnlyAllowedStay AttributesFound
PROPERTIES WalkEnds
CHECK_DEADLOCK FALSE
