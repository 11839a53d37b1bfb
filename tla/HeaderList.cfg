\* Two requests, one of which may be a copy.
CONSTANTS
  r1 = r1
  r2 = r2
  h1 = h1
  h2 = h2
  Requests <- MCRequests
  Headers <- MCHeaders
  MaxLists = 2
  MaxHeaders = 2
SPECIFICATION Spec
INVARIANT SendsItsHeaders
