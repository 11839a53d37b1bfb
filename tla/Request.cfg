\* Writes and aborts before, during, between and after two transfers.
CONSTANTS
  MaxCalls = 4
  MaxTransfers = 2
  Lengths <- MCLengths
  MaxChunk = 2
SPECIFICATION Spec
INVARIANTS
  WaitingIsStored
  NoCarryOver
  NoLostWakeup
  BytesAccounted
  AbortEndsItsTransfer
PROPERTIES
  Contract
  EveryCallIsAnswered
\* Once the transfers are over and every call is made nothing is left to do.
CHECK_DEADLOCK FALSE
