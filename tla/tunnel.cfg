SPECIFICATION Spec
CONSTANTS
  Jobs = {j1, j2}
  MaxAttempts = 2
  MaxCalls = 3
  MaxPending = 2
CHECK_DEADLOCK FALSE
INVARIANT TypeOK
INVARIANT DeactivateHolds
INVARIANT FreshActivationHolds
PROPERTY Settles
