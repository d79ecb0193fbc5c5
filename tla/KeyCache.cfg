SPECIFICATION SpecKeys
CONSTANTS
  r1 = r1
  r2 = r2
  AuthRequests <- MCRequests
  MaxKey = 3
  Stale = 1
  MaxFetch = 1
  MaxTime = 4
INVARIANTS NotRefused AcceptedRecently
PROPERTY Answered
CHECK_DEADLOCK FALSE
