SPECIFICATION Spec
CONSTANTS
  Parsed <- OneDocument
  MaxDomNodes = 5
INVARIANTS ParentListsChild
