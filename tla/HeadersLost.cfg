\* A section that is complete before anybody waits for it.
CONSTANTS
  a = a
  b = b
  Keys <- MCKeys
  MaxSections = 2
  MaxWaits = 3
SPECIFICATION Spec
INVARIANT EofMeansNoneLeft
\* Once the transfer has ended and every call is made nothing is left to do.
CHECK_DEADLOCK FALSE
