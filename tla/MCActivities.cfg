SPECIFICATION Spec
CONSTANTS
  Requested = {1, 2}
  Leeway = 1
  Lifetime = 2
  MaxTime = 5
INVARIANTS
  PaidIsNotAwaited
  LatestShown
  PendingShown
