\* Calls may overlap, be cancelled at any time, and be as many as the bytes.
CONSTANTS
  Bytes <- MCBytes
  Body <- MCBody
  MaxChunk = 3
  Sizes <- MCSizes
  MaxReads = 4
  MaxRedirects = 1
SPECIFICATION Spec
INVARIANTS
  NothingLostOrReordered
  NoLostWakeup
  ReadAheadBound
  AbortIsSignalled
  NullInvokeIsLate
PROPERTIES
  Contract
  EveryReadIsAnswered
\* Once every call is answered and the transfer is over nothing is left.
CHECK_DEADLOCK FALSE
