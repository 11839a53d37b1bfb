\* Two sockets, at once or one after the other with the same number, and a
\* timer.  Each of them is opened through the callback or by cURL itself.
CONSTANTS
  Fds <- MCFds
  MaxSockets = 2
  MaxChanges = 2
  MaxTimers = 2
SPECIFICATION Spec
INVARIANTS
  NoLostInterest
  NoLostTimeout
  MapIsOpen
  ClosedIsSilent
PROPERTIES
  TellsTheTruth
  ReadyIsReported
