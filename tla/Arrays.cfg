SPECIFICATION Spec
CONSTANTS
  Elements = {1, 2}
  Strings <- MCStrings
  Codepoints <- MCCodepoints
  Capacities = {0, 1, 5}
  Reserved = {2, 12}
  WordSize = 64
  MaxLength = 7
PROPERTIES IsItemList
