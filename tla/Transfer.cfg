\* A body, an upload and up to two header sections, with a redirect.
CONSTANTS
  Bytes <- MCBytes
  Body <- MCBody
  MaxChunk = 2
  Sizes <- MCSizes
  MaxReads = 3
  MaxRedirects = 1
  location = location
  Keys <- MCKeys
  Location = location
  MaxSections = 2
  MaxWaits = 3
  MaxPlain = 1
  MaxCalls = 1
  Lengths <- MCLengths
  UploadChunk = 1
SPECIFICATION Spec
INVARIANTS
  EndAnswersAll
  AbortEndsResponse
  LastIsFinal
PROPERTIES
  PartsAreDriven
  LastHeadersIsAnswered
\* Once the transfer has ended and every call is made nothing is left to do.
CHECK_DEADLOCK FALSE
