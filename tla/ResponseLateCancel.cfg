\* A program that also cancels a call whose handler is posted but has not run.
CONSTANTS
  Bytes <- MCBytes
  Body <- MCBody
  MaxChunk = 2
  Sizes <- MCSizes
  MaxReads = 3
  MaxRedirects = 1
SPECIFICATION Spec
INVARIANT CancelsItself
CHECK_DEADLOCK FALSE
