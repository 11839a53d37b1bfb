\* Any program, also one that starts a request while its transfer runs.
CONSTANTS
  r1 = r1
  r2 = r2
  Requests <- MCRequests
  MaxStarts = 3
SPECIFICATION Spec
INVARIANTS
  RegisteredIsActive
  CallbacksReachLiveResponse
  IdleIsUnhooked
  FinishedIffReleased
  CanBeUsedAgain
  SocketsAreKnown
PROPERTIES
  Contract
  StartIsAnswered
