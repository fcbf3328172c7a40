SPECIFICATION FairSpec
CONSTANTS
  Callers = {c1, c2}
  Tasks = {x1, x2}
  None = None
  MaxIssued = 2
INVARIANT OneExchange ForcedOnlyIfRejected DrainWaits
PROPERTY RefusalsExact SpentInTurn LockReached Stops
CHECK_DEADLOCK FALSE
