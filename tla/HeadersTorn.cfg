\* A call that is cancelled in the middle of a section.
CONSTANTS
  a = a
  b = b
  Keys <- MCKeys
  MaxSections = 2
  MaxWaits = 3
SPECIFICATION Spec
INVARIANT SuccessIsComplete
\* Once the transfer has ended and every call is made nothing is left to do.
CHECK_DEADLOCK FALSE
