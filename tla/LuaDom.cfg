SPECIFICATION Spec
CONSTANTS
  Parsed <- Several
  MaxDomNodes = 5
INVARIANTS ListedByParent WalksEnd MovesInPlace CallsAreAtomic
CHECK_DEADLOCK FALSE
