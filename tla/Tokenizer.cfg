SPECIFICATION Spec
CONSTANTS
  TabStop = 8
  Entities <- MCEntities
  WordSize = 4096
  MaxCodePoint = 1023
  Surrogates <- MCSurrogates
  Ascii <- MCAscii
  Alnum <- MCAlnum
  Uppercase <- MCUppercase
  Lowercase <- MCLowercase
  KnownTags <- MCKnownTags
  ErrorsKept = TRUE
  References <- MCReferences
  Inputs <- AllInputs
  RawTexts <- MCRawTexts
INVARIANTS AssertsHold NothingLeaks TagsAsWritten CommentsAsWritten
PROPERTIES IsTokenStream TokenizerEnds
