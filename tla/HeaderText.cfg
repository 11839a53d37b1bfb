\* Names that differ in case and in length, values with colons and blanks.
CONSTANTS
  Chars <- MCChars
  Blanks <- MCBlanks
  Colon = 58
  Upper <- MCUpper
  Newline <- MCNewline
  Names <- MCNames
  Values <- MCValues
  Pads <- MCPads
  Others <- MCOthers
  MaxSections = 2
  MaxFields = 2
SPECIFICATION Spec
INVARIANT LookupFindsFirst
PROPERTY Collects
