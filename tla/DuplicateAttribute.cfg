SPECIFICATION Spec
CONSTANTS
  TabStop = 8
  Entities <- MCEntities
  WordSize = 4096
  MaxCodePoint = 1023
  Surrogates <- MCSurrogates
  Ascii <- MCAscii
  Alnum <- MCAlnum
  Uppercase <- MCUppercase
  Lowercase <- MCLowercase
  KnownTags <- MCKnownTags
  ErrorsKept = FALSE
  References <- MCReferences
  Inputs <- DuplicateInputs
  RawTexts <- MCRawTexts
INVARIANTS TagsAsWritten
