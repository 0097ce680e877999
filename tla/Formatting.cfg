SPECIFICATION Spec
CONSTANTS
  Inputs <- FormattingInputs
  MaxTokens = 5
  MaxLoopCount = 60
INVARIANTS LinksConsistent StackIsPath LeavesInSourceOrder ListFollowsStack NoahsArk
PROPERTIES FlushedWhereRead
