\* Calls may overlap, be cancelled, come early, late and after the end.
CONSTANTS
  a = a
  b = b
  Keys <- MCKeys
  MaxSections = 3
  MaxWaits = 3
SPECIFICATION Spec
INVARIANTS
  SuccessIsSection
  DeliveredOnceInOrder
  NoLostWakeup
PROPERTIES
  Contract
  EveryWaitIsAnswered
\* Once the transfer has ended and every call is made nothing is left to do.
CHECK_DEADLOCK FALSE
