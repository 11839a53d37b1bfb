\* A program that starts a request again while its transfer runs.
CONSTANTS
  r1 = r1
  r2 = r2
  Requests <- MCRequests
  MaxStarts = 2
SPECIFICATION Spec
INVARIANT AllOpenedSockets
